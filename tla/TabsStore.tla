----------------------------- MODULE TabsStore -----------------------------
(* The operations of the tab store, web/src/store/tabs.ts, as functions from
   one state of the store to the next.  A state is a record of the open tabs,
   in the order of the tab bar, and the key of the active one; a tab is its key
   (which is also its path) and whether it is pinned.  A title, an icon and a
   badge decide nothing and are left out.                                  *)
EXTENDS Integers, Sequences, FiniteSets, SequencesExt

CONSTANTS None,          \* undefined
          DefaultPath    \* ADMIN_DEFAULT_PATH

Tab(key, affix) == [key |-> key, affix |-> affix]
Keys(tabs) == {tabs[i].key : i \in DOMAIN tabs}

(* findIndex, from 1; 0 where the code has -1 *)
IndexOf(tabs, key) ==
  IF key \notin Keys(tabs) THEN 0 ELSE CHOOSE i \in DOMAIN tabs : tabs[i].key = key

KeyAt(tabs, i) == IF i \in DOMAIN tabs THEN tabs[i].key ELSE None

(* The k-th of a set of places *)
Nth(places, k) == CHOOSE i \in places : Cardinality({j \in places : j =< i}) = k

(* The tabs at the places P, in their order *)
AtPlaces(tabs, P) ==
  LET places == P \cap DOMAIN tabs
  IN [k \in 1 .. Cardinality(places) |-> tabs[Nth(places, k)]]

Affixed(tabs) == {i \in DOMAIN tabs : tabs[i].affix}

Active(s, tabs, otherwise) == IF s.activeKey \in Keys(tabs) THEN s.activeKey ELSE otherwise

uniqueTabs(tabs) ==
  AtPlaces(tabs, {i \in DOMAIN tabs : \A j \in 1 .. i - 1 : tabs[j].key # tabs[i].key})

(* The right neighbour of a closed tab, else the left one, else the first. *)
nextActiveAfterClose(tabs, closed) ==
  IF closed \in DOMAIN tabs THEN tabs[closed].key
  ELSE IF closed - 1 \in DOMAIN tabs THEN tabs[closed - 1].key
  ELSE KeyAt(tabs, 1)
-----------------------------------------------------------------------------
(* A plausible slip: a page opened again gets another tab. *)
openAnotherTab(s, tab) == [tabs |-> Append(s.tabs, tab), activeKey |-> tab.key]

openTab(s, tab) ==
  [tabs |-> IF tab.key \in Keys(s.tabs)
            THEN [i \in DOMAIN s.tabs |->
                    IF s.tabs[i].key = tab.key
                    THEN Tab(tab.key, s.tabs[i].affix \/ tab.affix) ELSE s.tabs[i]]
            ELSE Append(s.tabs, tab),
   activeKey |-> tab.key]

closeTab(s, key) ==
  LET closed == IndexOf(s.tabs, key)
      tabs   == AtPlaces(s.tabs, DOMAIN s.tabs \ {closed})
  IN IF closed = 0 \/ (closed > 0 /\ s.tabs[closed].affix) THEN s
     ELSE [tabs |-> tabs,
           activeKey |-> IF s.activeKey = key THEN nextActiveAfterClose(tabs, closed)
                         ELSE s.activeKey]

closeAll(s) ==
  LET tabs == IF Affixed(s.tabs) # {} THEN AtPlaces(s.tabs, Affixed(s.tabs))
              ELSE AtPlaces(s.tabs, {1} \cap DOMAIN s.tabs)
  IN [tabs |-> tabs, activeKey |-> KeyAt(tabs, 1)]

closeLeft(s, key) ==
  LET target == IndexOf(s.tabs, key)
      tabs   == AtPlaces(s.tabs, Affixed(s.tabs) \cup target .. Len(s.tabs))
  IN IF target =< 1 THEN s ELSE [tabs |-> tabs, activeKey |-> Active(s, tabs, key)]

closeRight(s, key) ==
  LET target == IndexOf(s.tabs, key)
      tabs   == AtPlaces(s.tabs, Affixed(s.tabs) \cup 1 .. target)
  IN IF target = 0 \/ target = Len(s.tabs) THEN s
     ELSE [tabs |-> tabs, activeKey |-> Active(s, tabs, key)]

closeOthers(s, key) ==
  LET tabs == AtPlaces(s.tabs, Affixed(s.tabs) \cup {i \in DOMAIN s.tabs : s.tabs[i].key = key})
  IN [tabs |-> tabs, activeKey |-> IF key \in Keys(tabs) THEN key ELSE KeyAt(tabs, 1)]

(* Refused only when the tab at the destination is pinned *)
reorderTabs(s, from, to) ==
  IF {from, to} \subseteq DOMAIN s.tabs /\ ~s.tabs[to].affix
  THEN [s EXCEPT !.tabs = InsertAt(RemoveAt(s.tabs, from), to, s.tabs[from])]
  ELSE s

toggleAffix(s, key) ==
  [s EXCEPT !.tabs = [i \in DOMAIN s.tabs |->
     IF s.tabs[i].key = key THEN Tab(key, ~s.tabs[i].affix) ELSE s.tabs[i]]]
-----------------------------------------------------------------------------
initialTabs == <<Tab(DefaultPath, TRUE)>>

(* What local storage holds is used only if it lists a tab. *)
readStoredTabs(stored) ==
  IF stored = None THEN None
  ELSE LET tabs == uniqueTabs(stored.tabs)
       IN IF tabs = <<>> THEN None
          ELSE [tabs |-> tabs, activeKey |-> Active(stored, tabs, KeyAt(tabs, 1))]

createTabsStore(stored, persist) ==
  LET read == IF persist THEN readStoredTabs(stored) ELSE None
  IN IF read # None THEN read ELSE [tabs |-> initialTabs, activeKey |-> DefaultPath]

(* The default page first and pinned, then the others as they were *)
resolveInitialWorkspaceTabs(tabs) ==
  initialTabs \o AtPlaces(tabs, {i \in DOMAIN tabs : tabs[i].key # DefaultPath})

(* The tabs of the bar: the last maxCount, the active page's among them *)
getVisibleTabs(tabs, path, maxCount) ==
  LET latest == SubSeq(tabs, Len(tabs) - maxCount + 1, Len(tabs))
  IN IF maxCount =< 0 \/ Len(tabs) =< maxCount THEN tabs
     ELSE IF path \in Keys(latest) \/ path \notin Keys(tabs) THEN latest
     ELSE Append(Tail(latest), tabs[IndexOf(tabs, path)])
=============================================================================
