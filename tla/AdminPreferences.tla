-------------------------- MODULE AdminPreferences --------------------------
(* The preferences of the web front end and what its preference sheet offers:
   layouts/preferences-sections.tsx and the controls it is built from, and the
   parts of layouts/base-layout.tsx that turn preferences into a layout.

   The fields that only colour, word or decorate the page and that no other
   field or guard depends on are left out; of each kind of control with no
   guard one representative stays (colorGrayMode, widgetRefresh).          *)
EXTENDS Integers

CONSTANTS Typed    \* the numbers a user types into a number control
ASSUME TypedAssumption == Typed \subseteq Int

(* A value for one field; two records in one, the first deciding the fields of
   both.  (Those of the module TLC are beyond the provers.) *)
Only(f, v)   == [g \in {f} |-> v]
Joined(p, q) == [f \in DOMAIN p \cup DOMAIN q |-> IF f \in DOMAIN p THEN p[f] ELSE q[f]]

OnDefaults  == {"animationEnable", "appEnableCopyPreferences", "breadcrumbEnable",
                "breadcrumbShowIcon", "copyrightEnable", "headerVisible", "navigationAccordion",
                "navigationSplit", "shortcutKeysEnable", "shortcutKeysGlobalLockScreen",
                "shortcutKeysGlobalLogout", "shortcutKeysGlobalSearch", "sidebarCollapsedButton",
                "sidebarDraggable", "sidebarEnable", "sidebarExpandOnHover", "sidebarFixedButton",
                "tabbarDraggable", "tabbarEnable", "tabbarPersist", "tabbarShowMaximize",
                "transitionEnable", "widgetGlobalSearch", "widgetLanguageToggle",
                "widgetLockScreen", "widgetRefresh", "widgetSidebarToggle", "widgetThemeToggle",
                "widgetTimezone"}
OffDefaults == {"appWatermark", "breadcrumbHideOnlyOne", "breadcrumbShowHome", "colorGrayMode",
                "footerEnable", "footerFixed", "shortcutKeysGlobalEscape",
                "sidebarAutoActivateChild", "sidebarCollapsed", "sidebarCollapsedShowTitle",
                "tabbarMiddleClickToClose", "themeSemiDarkHeader", "themeSemiDarkSidebar",
                "themeSemiDarkSidebarSub"}
Toggles == OnDefaults \cup OffDefaults

Layouts   == {"full-content", "header-mixed-nav", "header-nav", "header-sidebar-nav", "mixed-nav",
              "sidebar-mixed-nav", "sidebar-nav"}
SideModes == Layouts \ {"full-content", "header-nav"}
Positions == {"auto", "fixed", "header", "user-dropdown"}

(* What each picker of the sheet offers; the store accepts more of some fields
   and does not look at others. *)
ThemeModes        == {"light", "dark", "system"}
ContentModes      == {"wide", "compact"}
TransitionPresets == {"fade", "fade-down", "fade-slide", "fade-up"}
Radii             == 0 .. 4    \* in quarters
BuiltinThemes     == {"default", "other", "custom"}

Picked == [layout         |-> Layouts,
           colorMode      |-> ThemeModes,
           contentCompact |-> ContentModes,
           transitionName |-> TransitionPresets]

Selected == [appPreferencesButtonPosition |-> Positions,
             headerMode                   |-> {"fixed", "static", "auto", "auto-scroll"},
             appLocale                    |-> {"zh-CN", "en-US"},
             appTimezone                  |-> {"Asia/Shanghai", "UTC"}]

Segmented == [breadcrumbStyleType |-> {"normal", "background"}]

Texts == [appWatermarkContent |-> {"", "name", "other"}]

Options == Joined(Joined(Picked, Selected), Joined(Segmented, Texts))

AdminAccepted == [layout                       |-> Layouts,
                  appPreferencesButtonPosition |-> Positions,
                  transitionName               |-> {"fade", "fade-down", "fade-slide", "fade-up"}]
AdminNumbers == {"sidebarWidth", "tabbarMaxCount", "themeFontSize", "themeRadius"}
AdminLow     == [sidebarWidth |-> 160, tabbarMaxCount |-> 0, themeFontSize |-> 15, themeRadius |-> 0]
AdminHigh    == [sidebarWidth |-> 320, tabbarMaxCount |-> 50, themeFontSize |-> 22, themeRadius |-> 6]
AdminTheme   == [themeBuiltinType |-> BuiltinThemes, themeColorPrimary |-> {"#1d6fee", "picked"}]
AdminFields  == Toggles \cup DOMAIN Options \cup DOMAIN AdminTheme \cup AdminNumbers
AdminDom     == Joined([f \in Toggles |-> BOOLEAN], Joined(Options, AdminTheme))

DEFAULT_PREFERENCES ==
  Joined([f \in Toggles |-> f \in OnDefaults],
  [layout |-> "sidebar-nav", appPreferencesButtonPosition |-> "auto", colorMode |-> "dark",
   headerMode |-> "fixed", breadcrumbStyleType |-> "normal", appWatermarkContent |-> "",
   transitionName |-> "fade-slide", sidebarWidth |-> 224, tabbarMaxCount |-> 0,
   themeFontSize |-> 16, themeRadius |-> 2, themeBuiltinType |-> "default",
   themeColorPrimary |-> "#1d6fee", contentCompact |-> "wide", appLocale |-> "zh-CN",
   appTimezone |-> "Asia/Shanghai"])
-----------------------------------------------------------------------------
(* Disabled controls *)

When(condition, fields) == IF condition THEN fields ELSE {}

AppearanceDisabled(p) ==
  When(p.colorMode = "dark", {"themeSemiDarkHeader"}) \cup
  When(p.colorMode = "dark" \/ p.layout \in {"header-nav", "full-content"},
       {"themeSemiDarkSidebar"}) \cup
  When(\/ p.colorMode = "dark"
       \/ p.layout \notin {"header-mixed-nav", "sidebar-mixed-nav"}
       \/ ~p.themeSemiDarkSidebar, {"themeSemiDarkSidebarSub"})

SidebarDisabled(p) ==
  When(p.layout \notin SideModes, {"sidebarEnable"}) \cup
  When(p.layout \notin SideModes \/ ~p.sidebarEnable,
       {"sidebarDraggable", "sidebarCollapsed", "sidebarCollapsedButton", "sidebarFixedButton",
        "sidebarWidth"}) \cup
  When(p.layout \notin SideModes \/ ~p.sidebarEnable \/ ~p.sidebarCollapsed,
       {"sidebarExpandOnHover", "sidebarCollapsedShowTitle"}) \cup
  When(\/ p.layout \notin {"header-mixed-nav", "mixed-nav", "sidebar-mixed-nav"}
       \/ ~p.sidebarEnable, {"sidebarAutoActivateChild"})

HeaderDisabled(p) ==
  When(p.layout = "full-content", {"headerVisible", "navigationAccordion"}) \cup
  When(p.layout = "full-content" \/ ~p.headerVisible, {"headerMode"}) \cup
  When(p.layout # "mixed-nav", {"navigationSplit"})

BreadcrumbDisabled(p) ==
  LET off == p.layout \notin {"header-sidebar-nav", "sidebar-mixed-nav", "sidebar-nav"}
  IN When(off, {"breadcrumbEnable"}) \cup
     When(off \/ ~p.breadcrumbEnable,
          {"breadcrumbHideOnlyOne", "breadcrumbShowIcon", "breadcrumbStyleType"}) \cup
     When(off \/ ~p.breadcrumbEnable \/ ~p.breadcrumbShowIcon, {"breadcrumbShowHome"})

TabbarDisabled(p) ==
  When(~p.tabbarEnable, {"tabbarPersist", "tabbarDraggable", "tabbarMiddleClickToClose",
                         "tabbarShowMaximize", "tabbarMaxCount"})

FooterDisabled(p) == When(~p.footerEnable, {"footerFixed", "copyrightEnable"})

ShortcutDisabled(p) ==
  When(~p.shortcutKeysEnable,
       {"shortcutKeysGlobalSearch", "shortcutKeysGlobalLogout", "shortcutKeysGlobalLockScreen",
        "shortcutKeysGlobalEscape"})

(* The text of the watermark and the preset of the page transition are shown
   only while they are in use. *)
GeneralHidden(p) ==
  When(~p.appWatermark, {"appWatermarkContent"}) \cup When(~p.transitionEnable, {"transitionName"})

(* animationEnable follows transitionEnable and has no control of its own. *)
Disabled(p) ==
  AppearanceDisabled(p) \cup SidebarDisabled(p) \cup HeaderDisabled(p) \cup BreadcrumbDisabled(p)
  \cup TabbarDisabled(p) \cup FooterDisabled(p) \cup ShortcutDisabled(p) \cup GeneralHidden(p)
  \cup {"animationEnable"}
-----------------------------------------------------------------------------
(* What a control hands to the store *)

DarkSidebar(p, on) ==
  [themeSemiDarkSidebar    |-> on,
   themeSemiDarkSidebarSub |-> IF on THEN p.themeSemiDarkSidebarSub ELSE FALSE]

Watermark(p, on) ==
  [appWatermark        |-> on,
   appWatermarkContent |-> IF ~on THEN "" ELSE
                           IF p.appWatermarkContent = "" THEN "name" ELSE p.appWatermarkContent]

(* The two buttons of the sidebar are one group: whichever is switched, both are
   handed over. *)
SidebarButtons(p, f) ==
  [button \in {"sidebarCollapsedButton", "sidebarFixedButton"} |->
     IF button = f THEN ~p[button] ELSE p[button]]

(* A theme is chosen, or a colour, which makes the theme the custom one. *)
ThemePatches ==
  {Only("themeBuiltinType", theme) : theme \in BuiltinThemes} \cup
  {[themeBuiltinType |-> "custom", themeColorPrimary |-> colour] :
     colour \in AdminTheme.themeColorPrimary}

TogglePatch(p, f) ==
  CASE f = "themeSemiDarkSidebar" -> DarkSidebar(p, ~p[f])
    [] f = "appWatermark"         -> Watermark(p, ~p[f])
    [] f \in {"sidebarCollapsedButton", "sidebarFixedButton"} -> SidebarButtons(p, f)
    [] f = "transitionEnable"     -> [f2 \in {"transitionEnable", "animationEnable"} |-> ~p[f]]
    [] OTHER                      -> Only(f, ~p[f])

(* A number control stops at its own ends: those of the store, but for the
   number of tabs, which the sheet ends at 30.  The font size is stepped
   without an end of its own. *)
ControlHigh(f) == IF f = "tabbarMaxCount" THEN 30 ELSE AdminHigh[f]
Step(f)        == IF f = "sidebarWidth" THEN 10 ELSE 5

NumberPatches(p, f) ==
  LET within(v) == IF v < AdminLow[f] THEN AdminLow[f]
                   ELSE IF v > ControlHigh(f) THEN ControlHigh(f) ELSE v
  IN IF f = "themeRadius" THEN {Only(f, v) : v \in Radii}
     ELSE IF f = "themeFontSize" THEN {Only(f, p[f] - 1), Only(f, p[f] + 1)}
     ELSE {Only(f, within(v)) : v \in {p[f] - Step(f), p[f] + Step(f)} \cup Typed}

(* What the controls of each kind hand over, if they are of the fields F *)
SwitchPatches(p, F) == {TogglePatch(p, f) : f \in F \cap Toggles}
PickerPatches(F)    == UNION {{Only(f, v) : v \in Options[f]} : f \in F \cap DOMAIN Options}
RangePatches(p, F)  == UNION {NumberPatches(p, f) : f \in F \cap AdminNumbers}
ColourPatches(F)    == {patch \in ThemePatches : DOMAIN AdminTheme \subseteq F}

(* Every change of a field of F the sheet offers under the preferences p *)
SheetPatches(p, F) ==
  LET live == F \ Disabled(p)
  IN SwitchPatches(p, live) \cup PickerPatches(live) \cup RangePatches(p, live)
     \cup ColourPatches(live)

(* resetting and copying are offered only when something differs *)
hasPreferenceDiff(p) == p # DEFAULT_PREFERENCES
-----------------------------------------------------------------------------
(* From preferences to a layout, on a phone or not, with the content
   maximized or not *)

effectiveLayout(p, mobile) ==
  IF mobile /\ p.layout # "full-content" THEN "sidebar-nav" ELSE p.layout

(* The menu is flat, so that the side menu of header-mixed-nav is empty and
   that layout has no sidebar. *)
sidebarEnabled(p, mobile, maximized) ==
  /\ ~maximized
  /\ p.sidebarEnable
  /\ effectiveLayout(p, mobile) \in SideModes \ {"header-mixed-nav"}

headerEnabled(p, mobile, maximized) ==
  ~maximized /\ effectiveLayout(p, mobile) # "full-content" /\ p.headerVisible

tabbarEnabled(p, mobile) == effectiveLayout(p, mobile) # "full-content" /\ p.tabbarEnable

primarySidebarEnabled(p, mobile, maximized) ==
  /\ sidebarEnabled(p, mobile, maximized)
  /\ effectiveLayout(p, mobile) # "sidebar-mixed-nav"

(* Split navigation shows the roots in the header and a root's children in the
   sidebar; a root without children does nothing when clicked. *)
SplitNavigation(p, mobile) == effectiveLayout(p, mobile) = "mixed-nav" /\ p.navigationSplit

(* mixedSidebarEnabled: the roots in a column of their own; without children
   the second column stays shut. *)
mixedSidebarEnabled(p, mobile, maximized) ==
  /\ sidebarEnabled(p, mobile, maximized)
  /\ effectiveLayout(p, mobile) = "sidebar-mixed-nav"

SidebarMenu(p, mobile, maximized) ==
  primarySidebarEnabled(p, mobile, maximized) /\ ~SplitNavigation(p, mobile)

HeaderMenu(p, mobile, maximized) ==
  /\ headerEnabled(p, mobile, maximized)
  /\ effectiveLayout(p, mobile) \in {"header-mixed-nav", "header-nav", "mixed-nav"}
  /\ ~SplitNavigation(p, mobile)

(* A plausible slip of resolvePreferencesButtonPlacement: the header is taken
   to be there whenever a sidebar is. *)
ButtonAssumesHeader(p, mobile, maximized) ==
  LET header  == headerEnabled(p, mobile, maximized)
      sidebar == sidebarEnabled(p, mobile, maximized)
      fixed   == (~header /\ ~sidebar) \/ p.layout = "full-content" \/ mobile
  IN IF p.appPreferencesButtonPosition # "auto" THEN p.appPreferencesButtonPosition
     ELSE IF fixed THEN "fixed" ELSE "header"

(* Where the button that opens the sheet is *)
resolvePreferencesButtonPlacement(p, mobile, maximized) ==
  LET header == headerEnabled(p, mobile, maximized)
      fixed  == p.layout = "full-content" \/ mobile \/ ~header
  IN IF p.appPreferencesButtonPosition # "auto" THEN p.appPreferencesButtonPosition
     ELSE IF fixed THEN "fixed" ELSE "header"

(* The header's buttons and its user menu are drawn only with the header. *)
PreferencesButtonShown(p, mobile, maximized) ==
  \/ resolvePreferencesButtonPlacement(p, mobile, maximized) = "fixed"
  \/ headerEnabled(p, mobile, maximized)
=============================================================================
