----------------------------- MODULE Workspace -----------------------------
(* The shell of the web front end in one browser window: the tabs, the layout,
   the overlays and the lock screen of layouts/base-layout.tsx with its tab bar,
   header and sidebar, over the stores of tabs and preferences.

   The router sets the location inside the call that navigates, and React runs
   the effects of a render before the next event, so that a handler and the
   effects it triggers are one action.  The answer of the logout request, the
   write of the tabs 150 ms after a change, and a session that ends elsewhere
   come at any time in between.                                            *)
EXTENDS TabsStore, AdminPreferences

CONSTANTS Menu,       \* the paths of adminMenu; every one may have a tab
          Browser,    \* "/browser/$model", a page that is not in the menu
          Login,      \* "/login"
          Scenarios   \* what a user is bound to do: see Uses

VARIABLES tabs, activeKey,          \* tabsStore
          storedTabs, writeTimer,   \* its entry of local storage, its debounce
          prefs, storedPrefs,       \* preferenceStore
          path, session,            \* the location; whether someone is logged in
          open,                     \* the overlays shown
          locked, storedLock,       \* lockScreenSession, its entry of session storage
          mustUnlock,               \* history: locked and neither unlocked nor logged out
          maximized, mobile,        \* contentMaximized, useIsMobile
          openMobile, hovered,      \* the drawer of a phone, hoverExpanded
          leaving,                  \* a logout request is on its way
          scenario                  \* the bound of this behaviour, a member of Scenarios

tabVars    == <<tabs, activeKey, storedTabs, writeTimer>>
prefVars   == <<prefs, storedPrefs>>
lockVars   == <<locked, storedLock, mustUnlock>>
layoutVars == <<maximized, mobile, openMobile, hovered>>
vars       == <<tabVars, prefVars, path, session, open, lockVars, layoutVars, leaving, scenario>>

Store == INSTANCE Preferences
           WITH Fields <- AdminFields, Dom <- AdminDom, Default <- DEFAULT_PREFERENCES,
                Numbers <- AdminNumbers, Low <- AdminLow, High <- AdminHigh,
                Accepted <- AdminAccepted

ASSUME DefaultsAssumption == Store!DefaultsAreValid

(* A scenario names the pages visited, the preferences changed and the parts of
   the shell used: "layout", "lock", "session", "tabs". *)
ASSUME PathsAssumption ==
  /\ DefaultPath \in Menu
  /\ {Browser, Login, None} \cap Menu = {}
  /\ \A s \in Scenarios : s.pages \subseteq Menu

Uses(part) == part \in scenario.parts

TypeOK ==
  /\ tabs \in Seq([key : Menu, affix : BOOLEAN])
  /\ activeKey \in Menu \cup {None}
  /\ storedTabs = None \/ storedTabs.activeKey \in Menu \cup {None}
  /\ path \in Menu \cup {Browser, Login}
  /\ open \subseteq {"search", "lock", "preferences"}
  /\ \A flag \in {writeTimer, session, locked, storedLock, mustUnlock, maximized, mobile,
                  openMobile, hovered, leaving} : flag \in BOOLEAN

current == [tabs |-> tabs, activeKey |-> activeKey]
Mounted == session /\ path # Login
Usable  == Mounted /\ ~locked            \* the lock screen covers the rest

(* The subscription to the tab store: a change is written later, or what was
   stored is removed at once. *)
TabsBecome(s) ==
  /\ tabs' = s.tabs
  /\ activeKey' = s.activeKey
  /\ IF prefs.tabbarPersist THEN writeTimer' = TRUE /\ UNCHANGED storedTabs
     ELSE writeTimer' = FALSE /\ storedTabs' = None

(* A plausible slip: every page gets a tab. *)
ShowAnyPath(s, p) == openTab(s, Tab(p, p = DefaultPath))

(* The effect on the active path: a page of the menu gets a tab. *)
ShowPath(s, p) == IF p \in Menu THEN openTab(s, Tab(p, p = DefaultPath)) ELSE s

resolveInitialActiveKey(s, ts, p) ==
  Active(s, ts, IF p \in Keys(ts) THEN p ELSE KeyAt(ts, 1))

(* AdminWorkspace is mounted at the path p over the tab store s: the pinned
   default page comes first, the tabs are stored or removed, p gets its tab,
   and the lock screen is as session storage has it. *)
Mount(s, p, persist) ==
  LET merged == resolveInitialWorkspaceTabs(s.tabs)
      shown  == ShowPath([tabs      |-> merged,
                          activeKey |-> resolveInitialActiveKey(s, merged, p)], p)
  IN /\ tabs' = shown.tabs
     /\ activeKey' = shown.activeKey
     /\ storedTabs' = IF persist THEN shown ELSE None
     /\ writeTimer' = persist
     /\ path' = p
     /\ locked' = storedLock
     /\ open' = {}
     /\ maximized' = FALSE
     /\ openMobile' = FALSE
     /\ hovered' = FALSE

Init ==
  /\ scenario \in Scenarios
  /\ Store!createPreferenceStore
  /\ tabs = initialTabs /\ activeKey = DefaultPath
  /\ storedTabs = [tabs |-> initialTabs, activeKey |-> DefaultPath] /\ writeTimer = FALSE
  /\ path = DefaultPath /\ session = TRUE
  /\ open = {} /\ locked = FALSE /\ storedLock = FALSE /\ mustUnlock = FALSE
  /\ maximized = FALSE /\ mobile = FALSE /\ openMobile = FALSE /\ hovered = FALSE
  /\ leaving = FALSE
-----------------------------------------------------------------------------
(* Moving to a page: a click in a menu, a tab, a search result, a link of a
   page, the browser's own buttons. *)
Go(p, s) ==
  /\ path' = p
  /\ IF p # path /\ p \in Menu THEN TabsBecome(ShowPath(s, p))
     ELSE IF s # current THEN TabsBecome(s) ELSE UNCHANGED tabVars

(* A click on an entry of a menu: the menu is flat, so every entry is a page. *)
MenuNode(p) == Usable /\ open = {} /\ p \in scenario.pages /\ Go(p, current)

MenuUnchanged ==
  UNCHANGED <<prefVars, session, open, lockVars, maximized, mobile, hovered, leaving, scenario>>

(* On a phone the sidebar is a drawer, and closes. *)
NavigateFromSidebar(p) ==
  /\ MenuNode(p)
  /\ SidebarMenu(prefs, mobile, maximized)
  /\ mobile => openMobile
  /\ openMobile' = (openMobile /\ ~mobile)
  /\ MenuUnchanged

NavigateFromMixedSidebar(p) ==
  /\ MenuNode(p)
  /\ mixedSidebarEnabled(prefs, mobile, maximized)
  /\ UNCHANGED openMobile /\ MenuUnchanged

NavigateFromHeader(p) ==
  /\ MenuNode(p)
  /\ HeaderMenu(prefs, mobile, maximized)
  /\ UNCHANGED openMobile /\ MenuUnchanged

NavigateFromSearch(p) ==
  /\ Usable /\ "search" \in open /\ p \in scenario.pages
  /\ Go(p, current)
  /\ open' = open \ {"search"}
  /\ UNCHANGED <<prefVars, session, lockVars, layoutVars, leaving, scenario>>

(* Pages lead to other pages, Browser among them. *)
FollowLink(p) ==
  /\ Usable /\ open = {} /\ p \in scenario.pages \cup {Browser}
  /\ Go(p, current)
  /\ UNCHANGED <<prefVars, session, open, lockVars, layoutVars, leaving, scenario>>

visible == getVisibleTabs(tabs, path, prefs.tabbarMaxCount)
TabBar  == Usable /\ open = {} /\ tabbarEnabled(prefs, mobile) /\ Uses("tabs")
ClosableTab(i) == ~visible[i].affix
TabUnchanged ==
  UNCHANGED <<prefVars, session, open, lockVars, layoutVars, leaving, scenario>>

(* The tab store has changed to s; its active tab is navigated to, if there is
   one. *)
syncActiveTab(s) == IF s.activeKey = None THEN TabsBecome(s) /\ UNCHANGED path ELSE Go(s.activeKey, s)

ClickTab ==
  /\ TabBar
  /\ \E i \in DOMAIN visible : Go(visible[i].key, current)
  /\ TabUnchanged

(* The menu's entry, the button on the tab and the middle button *)
CloseTab ==
  /\ TabBar
  /\ \E i \in DOMAIN visible : ClosableTab(i) /\ syncActiveTab(closeTab(current, visible[i].key))
  /\ TabUnchanged

CloseLeftTabs ==
  /\ TabBar
  /\ \E i \in DOMAIN visible : /\ \E j \in 1 .. i - 1 : ClosableTab(j)
                               /\ syncActiveTab(closeLeft(current, visible[i].key))
  /\ TabUnchanged

CloseRightTabs ==
  /\ TabBar
  /\ \E i \in DOMAIN visible : /\ \E j \in i + 1 .. Len(visible) : ClosableTab(j)
                               /\ syncActiveTab(closeRight(current, visible[i].key))
  /\ TabUnchanged

CloseOtherTabs ==
  /\ TabBar
  /\ \E i \in DOMAIN visible : /\ \E j \in DOMAIN visible \ {i} : ClosableTab(j)
                               /\ syncActiveTab(closeOthers(current, visible[i].key))
  /\ TabUnchanged

CloseAllTabs ==
  /\ TabBar
  /\ Affixed(tabs) # DOMAIN tabs
  /\ syncActiveTab(closeAll(current))
  /\ TabUnchanged

ToggleTabPin ==
  /\ TabBar
  /\ \E i \in DOMAIN visible : TabsBecome(toggleAffix(current, visible[i].key))
  /\ UNCHANGED path /\ TabUnchanged

(* The dragged tab and the one it is dropped on are found by their keys. *)
DropTab ==
  /\ TabBar /\ prefs.tabbarDraggable
  /\ \E i, j \in DOMAIN visible :
       LET s == reorderTabs(current, IndexOf(tabs, visible[i].key), IndexOf(tabs, visible[j].key))
       IN ~tabs[IndexOf(tabs, visible[j].key)].affix /\ TabsBecome(s)
  /\ UNCHANGED path /\ TabUnchanged

(* A plausible slip: the timer writes without looking at the switch again. *)
WriteUnchecked ==
  /\ writeTimer
  /\ writeTimer' = FALSE
  /\ storedTabs' = current
  /\ UNCHANGED <<tabs, activeKey, prefVars, path, session, open, lockVars, layoutVars, leaving, scenario>>

(* The timer of the subscription: the switch is looked at again. *)
WriteTabs ==
  /\ writeTimer
  /\ writeTimer' = FALSE
  /\ storedTabs' = IF prefs.tabbarPersist THEN current ELSE storedTabs
  /\ UNCHANGED <<tabs, activeKey, prefVars, path, session, open, lockVars, layoutVars, leaving, scenario>>
-----------------------------------------------------------------------------
(* The effect on tabbarPersist, after the preferences became p *)
PersistEffect(p) ==
  /\ storedTabs' = IF p.tabbarPersist = prefs.tabbarPersist THEN storedTabs
                   ELSE IF p.tabbarPersist THEN current ELSE None
  /\ UNCHANGED <<tabs, activeKey, writeTimer>>

Set(patch) == Store!setPreferences(patch) /\ PersistEffect(prefs')

ShellUnchanged == UNCHANGED <<path, session, lockVars, leaving, scenario>>

ChangePreference ==
  /\ Usable /\ "preferences" \in open
  /\ \E patch \in SheetPatches(prefs, scenario.fields) : Set(patch)
  /\ UNCHANGED <<open, layoutVars>> /\ ShellUnchanged

ResetPreferences ==
  /\ Usable /\ "preferences" \in open /\ hasPreferenceDiff(prefs)
  /\ Store!resetPreferences /\ PersistEffect(prefs')
  /\ UNCHANGED <<open, layoutVars>> /\ ShellUnchanged

HeaderUsable == Usable /\ open = {} /\ headerEnabled(prefs, mobile, maximized)

(* The header's tools for light and dark, the language and the time zone are
   drawn beside the button of the sheet. *)
HeaderTool(field, widget) ==
  /\ HeaderUsable /\ field \in scenario.fields /\ widget
  /\ resolvePreferencesButtonPlacement(prefs, mobile, maximized) = "header"
  /\ UNCHANGED <<open, layoutVars>> /\ ShellUnchanged

ToggleTheme ==
  /\ HeaderTool("colorMode", prefs.widgetThemeToggle)
  /\ Set(Only("colorMode", IF prefs.colorMode = "dark" THEN "light" ELSE "dark"))

ChooseLocale ==
  /\ HeaderTool("appLocale", prefs.widgetLanguageToggle)
  /\ \E locale \in Options.appLocale : Set(Only("appLocale", locale))

(* The dialog works on a draft; the choice counts when it is confirmed. *)
ChooseTimezone ==
  /\ HeaderTool("appTimezone", prefs.widgetTimezone)
  /\ \E draftTimezone \in Options.appTimezone : Set(Only("appTimezone", draftTimezone))

(* The button in the sidebar and ctrl-B: the drawer on a phone, otherwise the
   stored preference. *)
ToggleSidebar ==
  /\ Mounted /\ "sidebarCollapsed" \in scenario.fields
  /\ IF mobile THEN openMobile' = ~openMobile /\ UNCHANGED <<prefVars, tabVars>>
     ELSE Set(Only("sidebarCollapsed", ~prefs.sidebarCollapsed)) /\ UNCHANGED openMobile
  /\ UNCHANGED <<open, maximized, mobile, hovered>> /\ ShellUnchanged

CloseDrawer ==
  /\ Usable /\ openMobile
  /\ openMobile' = FALSE
  /\ UNCHANGED <<tabVars, prefVars, open, maximized, mobile, hovered>> /\ ShellUnchanged

(* The mouse enters a collapsed sidebar: it is expanded until the mouse leaves,
   if hovering is not what `expand on hover' says. *)
EnterSidebar ==
  /\ Usable /\ open = {} /\ ~mobile /\ "sidebarCollapsed" \in scenario.fields
  /\ primarySidebarEnabled(prefs, mobile, maximized)
  /\ ~prefs.sidebarExpandOnHover /\ prefs.sidebarCollapsed
  /\ hovered' = TRUE
  /\ Set(Only("sidebarCollapsed", FALSE))
  /\ UNCHANGED <<open, maximized, mobile, openMobile>> /\ ShellUnchanged

LeaveSidebar ==
  /\ Usable /\ hovered /\ ~mobile
  /\ primarySidebarEnabled(prefs, mobile, maximized)
  /\ hovered' = FALSE
  /\ Set(Only("sidebarCollapsed", TRUE))
  /\ UNCHANGED <<open, maximized, mobile, openMobile>> /\ ShellUnchanged

(* A drag of the sidebar's edge is committed when it ends. *)
ResizeSidebar ==
  /\ Usable /\ open = {} /\ ~mobile /\ "sidebarWidth" \in scenario.fields
  /\ primarySidebarEnabled(prefs, mobile, maximized) /\ prefs.sidebarDraggable
  /\ \E patch \in NumberPatches(prefs, "sidebarWidth") : Set(patch)
  /\ UNCHANGED <<open, layoutVars>> /\ ShellUnchanged

(* Kept in memory only; a button of the tab bar or an entry of a tab's menu *)
ToggleMaximize ==
  /\ Uses("layout") /\ Usable /\ open = {} /\ tabbarEnabled(prefs, mobile)
  /\ visible # <<>> \/ prefs.tabbarShowMaximize
  /\ maximized' = ~maximized
  /\ UNCHANGED <<tabVars, prefVars, open, mobile, openMobile>>
  /\ hovered' = FALSE \* the sidebar is unmounted, or mounted anew
  /\ ShellUnchanged

(* The window becomes narrow or wide. *)
ResizeWindow ==
  /\ Uses("layout")
  /\ mobile' = ~mobile
  /\ UNCHANGED <<tabVars, prefVars, open, maximized, openMobile, hovered>>
  /\ ShellUnchanged
-----------------------------------------------------------------------------
(* Overlays *)

OpenPreferences ==
  /\ Usable /\ open = {} /\ scenario.fields # {}
  /\ PreferencesButtonShown(prefs, mobile, maximized)
  /\ open' = {"preferences"}
  /\ UNCHANGED <<tabVars, prefVars, layoutVars>> /\ ShellUnchanged

(* Its entries lead to the lock and out; it is drawn with the header. *)
UserMenu == HeaderUsable

(* A button, or a shortcut that works over everything *)
Offered(overlay, button, shortcut) ==
  /\ Mounted
  /\ button \/ (prefs.shortcutKeysEnable /\ prefs[shortcut])
  /\ open' = open \cup {overlay}
  /\ UNCHANGED <<tabVars, prefVars, layoutVars>> /\ ShellUnchanged

OpenSearch ==
  /\ Uses("session")
  /\ Offered("search", HeaderUsable /\ prefs.widgetGlobalSearch, "shortcutKeysGlobalSearch")

OpenLock ==
  /\ Uses("lock")
  /\ Offered("lock", UserMenu /\ prefs.widgetLockScreen, "shortcutKeysGlobalLockScreen")

CloseOverlay ==
  /\ Usable
  /\ \E overlay \in open : open' = open \ {overlay}
  /\ UNCHANGED <<tabVars, prefVars, layoutVars>> /\ ShellUnchanged

(* The escape key closes all of them, if it is switched on. *)
PressEscape ==
  /\ Mounted /\ prefs.shortcutKeysEnable /\ prefs.shortcutKeysGlobalEscape
  /\ open' = {}
  /\ UNCHANGED <<tabVars, prefVars, layoutVars>> /\ ShellUnchanged

(* The dialog is handed in, with a password that is not blank. *)
LockScreenSetup == Mounted /\ "lock" \in open

(* A plausible slip: the lock is kept in memory only. *)
LockInMemory ==
  /\ LockScreenSetup
  /\ locked' = TRUE /\ mustUnlock' = TRUE
  /\ open' = open \ {"lock"}
  /\ UNCHANGED <<tabVars, prefVars, path, session, storedLock, layoutVars, leaving, scenario>>

LockScreen ==
  /\ LockScreenSetup
  /\ storedLock' = TRUE /\ locked' = TRUE /\ mustUnlock' = TRUE
  /\ open' = open \ {"lock"}
  /\ UNCHANGED <<tabVars, prefVars, path, session, layoutVars, leaving, scenario>>

(* The password typed is the one the screen was locked with. *)
UnlockScreen ==
  /\ Mounted /\ locked
  /\ storedLock' = FALSE /\ locked' = FALSE /\ mustUnlock' = FALSE
  /\ UNCHANGED <<tabVars, prefVars, path, session, open, layoutVars, leaving, scenario>>
-----------------------------------------------------------------------------
(* Logging out and in *)

Logout ==
  /\ Uses("session") /\ Mounted
  /\ UserMenu \/ (prefs.shortcutKeysEnable /\ prefs.shortcutKeysGlobalLogout)
  /\ leaving' = TRUE
  /\ UNCHANGED <<tabVars, prefVars, path, session, open, lockVars, layoutVars, scenario>>

ClearCacheAndLogout ==
  /\ Uses("session") /\ Usable /\ "preferences" \in open
  /\ Store!resetPreferences /\ PersistEffect(prefs')
  /\ open' = open \ {"preferences"}
  /\ leaving' = TRUE
  /\ UNCHANGED <<path, session, lockVars, layoutVars, scenario>>

(* The request of logging out has ended, well or badly. *)
LoggedOut ==
  /\ leaving /\ leaving' = FALSE
  /\ storedLock' = FALSE /\ locked' = FALSE /\ mustUnlock' = FALSE
  /\ session' = FALSE
  /\ TabsBecome(closeAll(current))
  /\ path' = Login
  /\ open' = {}
  /\ UNCHANGED <<prefVars, layoutVars, scenario>>

(* The server no longer accepts the session (lib/http.ts). *)
SessionLost ==
  /\ Uses("session") /\ Mounted
  /\ session' = FALSE
  /\ path' = Login
  /\ open' = {}
  /\ UNCHANGED <<tabVars, prefVars, lockVars, layoutVars, leaving, scenario>>

(* The session is refreshed: the permissions are new, so the menu is, and the
   effect on the path runs again. *)
SessionRenewed ==
  /\ Uses("session") /\ Mounted
  /\ IF path \in Menu THEN TabsBecome(ShowPath(current, path)) ELSE UNCHANGED tabVars
  /\ UNCHANGED <<prefVars, open, layoutVars>> /\ ShellUnchanged

LogIn ==
  /\ ~session
  /\ session' = TRUE
  /\ Mount(current, DefaultPath, prefs.tabbarPersist)
  /\ UNCHANGED <<prefVars, storedLock, mustUnlock, mobile, leaving, scenario>>

(* The page is loaded again, or another address is opened in the window. *)
Reload ==
  /\ session
  /\ Store!ReloadPreferences
  /\ \E p \in scenario.pages \cup {path} :
       Mount(createTabsStore(storedTabs, prefs'.tabbarPersist), p, prefs'.tabbarPersist)
  /\ leaving' = FALSE
  /\ UNCHANGED <<session, storedLock, mustUnlock, mobile, scenario>>

(* The login page is loaded again: the stores start afresh, nothing is mounted. *)
ReloadLogin ==
  /\ ~session
  /\ Store!ReloadPreferences
  /\ LET s == createTabsStore(storedTabs, prefs'.tabbarPersist)
     IN tabs' = s.tabs /\ activeKey' = s.activeKey
  /\ writeTimer' = FALSE /\ leaving' = FALSE /\ locked' = FALSE
  /\ maximized' = FALSE /\ openMobile' = FALSE /\ hovered' = FALSE
  /\ UNCHANGED <<storedTabs, path, session, open, storedLock, mustUnlock, mobile, scenario>>
-----------------------------------------------------------------------------
Next ==
  \/ \E p \in Menu : \/ NavigateFromSidebar(p) \/ NavigateFromMixedSidebar(p)
                     \/ NavigateFromHeader(p) \/ NavigateFromSearch(p)
  \/ \E p \in Menu \cup {Browser} : FollowLink(p)
  \/ ClickTab \/ CloseTab \/ CloseLeftTabs \/ CloseRightTabs \/ CloseOtherTabs \/ CloseAllTabs
  \/ ToggleTabPin \/ DropTab \/ WriteTabs
  \/ ChangePreference \/ ResetPreferences \/ ToggleTheme \/ ChooseLocale \/ ChooseTimezone
  \/ ToggleSidebar \/ CloseDrawer \/ EnterSidebar \/ LeaveSidebar \/ ResizeSidebar
  \/ ToggleMaximize \/ ResizeWindow
  \/ OpenPreferences \/ OpenSearch \/ OpenLock \/ CloseOverlay \/ PressEscape
  \/ LockScreen \/ UnlockScreen
  \/ Logout \/ ClearCacheAndLogout \/ LoggedOut \/ SessionLost \/ SessionRenewed
  \/ LogIn \/ Reload \/ ReloadLogin

Spec == Init /\ [][Next]_vars
-----------------------------------------------------------------------------
(* The tab bar is never wrong about the page shown: on a page of the menu, the
   page has one tab, whatever was opened, dragged, closed or read back from
   storage (uniqueTabs, openTab: tabs.ts:63, tabs.ts:258), and it is the active
   one.  (With the default page unpinned every tab can be closed; then no tab is
   left to be wrong.) *)
PageHasActiveTab ==
  Mounted /\ path \in Menu /\ tabs # <<>> =>
    activeKey = path /\ \E i \in DOMAIN tabs : \A j \in DOMAIN tabs : tabs[j].key = path <=> j = i

(* Once the debounce has run, what is stored is what is shown, so that a window
   that is loaded again gets its tabs back (tabs.ts:306).  Switching persistence
   off removes what was stored, and a write that was under way does not bring
   it back (tabs.ts:319). *)
StoredAsChosen ==
  Mounted =>
    /\ prefs.tabbarPersist /\ ~writeTimer => storedTabs = current
    /\ ~prefs.tabbarPersist => storedTabs = None

(* A locked screen stays locked through reloads, a lost session and another
   login, until the password is given or someone logs out. *)
StaysLocked == Mounted /\ mustUnlock => locked

(* The preferences can always be opened again when their button is placed
   automatically, in every layout, with any bar hidden, on a phone or not. *)
AutomaticButtonIsShown ==
  Mounted /\ prefs.appPreferencesButtonPosition = "auto" =>
    PreferencesButtonShown(prefs, mobile, maximized)

(* The store's own promise, kept by every control of the shell: a window that
   is loaded again has the preferences it had (preferences.ts:256). *)
RoundTrip == Store!RoundTrip
=============================================================================
