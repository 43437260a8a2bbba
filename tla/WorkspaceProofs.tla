--------------------------- MODULE WorkspaceProofs ---------------------------
(* The shell of the front end keeps its promises about tabs, preferences and   *)
(* the lock, for every menu, every set of scenarios and every number typed.    *)
(*                                                                             *)
(* A state of the tab store is coherent: no two tabs have one key, and the     *)
(* active tab is open unless no tab is.  Each operation of the store keeps     *)
(* that; StepKinds says what a step of the shell does to the store, and the    *)
(* invariants of the tabs, the preferences and the lock follow kind by kind.   *)
(* The preferences are the store of PreferencesProofs with the fields of the   *)
(* sheet, whose controls are shown to hand over values of the fields' kinds.   *)
EXTENDS Workspace, FiniteSetTheorems, SequenceTheorems, TLAPS

(***************************************************************************)
(* The tab store.                                                          *)
(***************************************************************************)

\* No two tabs have one key (uniqueTabs).
Unique(ts) == \A i, j \in DOMAIN ts : ts[i].key = ts[j].key => i = j

TabRecord == [key : Menu, affix : BOOLEAN]

\* A state of the store: its active tab is open, unless no tab is.
Coherent(s) ==
  /\ s = [tabs |-> s.tabs, activeKey |-> s.activeKey]
  /\ s.tabs \in Seq(TabRecord)
  /\ Unique(s.tabs)
  /\ IF s.tabs = <<>> THEN s.activeKey = None ELSE s.activeKey \in Keys(s.tabs)

\* How many of a finite set of numbers are up to i numbers its members from 1.
LEMMA Ranks ==
  ASSUME NEW S \in SUBSET Int, IsFiniteSet(S)
  PROVE  LET rank(i) == Cardinality({j \in S : j =< i})
         IN /\ Cardinality(S) \in Nat
            /\ \A i, j \in S : rank(i) = rank(j) => i = j
            /\ \A i \in S : rank(i) \in 1 .. Cardinality(S)
            /\ \A k \in 1 .. Cardinality(S) : \E i \in S : rank(i) = k
<1> DEFINE upTo(i) == {j \in S : j =< i}
           rank == [i \in S |-> Cardinality(upTo(i))]
<1>1. Cardinality(S) \in Nat
  BY FS_CardinalityType
<1>2. ASSUME NEW i \in S PROVE IsFiniteSet(upTo(i)) /\ rank[i] \in 1 .. Cardinality(S)
  <2>1. IsFiniteSet(upTo(i)) /\ Cardinality(upTo(i)) =< Cardinality(S)
    BY FS_Subset
  <2>2. Cardinality(upTo(i)) \in Nat
    BY <2>1, FS_CardinalityType
  <2>3. Cardinality(upTo(i)) # 0
    BY <2>1, FS_EmptySet
  <2> QED BY <1>1, <2>1, <2>2, <2>3
<1>3. ASSUME NEW i \in S, NEW j \in S, rank[i] = rank[j] PROVE i =< j
  <2> SUFFICES ASSUME j < i PROVE FALSE
    OBVIOUS
  <2>0. i \in Int /\ j \in Int /\ \A k \in S : k \in Int
    OBVIOUS
  <2>1. upTo(j) \in SUBSET upTo(i) /\ i \in upTo(i) /\ i \notin upTo(j)
    <3>1. \A k \in S : k =< j => k =< i
      BY <2>0
    <3>2. i =< i /\ ~ (i =< j)
      BY <2>0
    <3> QED BY <3>1, <3>2, Zenon
  <2>2. upTo(i) = upTo(j)
    BY <1>2, <1>3, <2>1, FS_Subset
  <2> QED BY <2>1, <2>2
<1>4. \A i, j \in S : rank[i] = rank[j] => i = j
  BY <1>3
<1>5. rank \in Injection(S, 1 .. Cardinality(S))
  BY <1>2, <1>4 DEF Injection, IsInjective
<1>6. rank \in Surjection(S, 1 .. Cardinality(S))
  BY <1>1, <1>5, FS_Injection, FS_Interval
<1>7. \A k \in 1 .. Cardinality(S) : \E i \in S : rank[i] = k
  BY <1>6 DEF Surjection
<1> QED BY <1>1, <1>2, <1>4, <1>7

\* The first to the last of a finite set of numbers are its members, each once.
LEMMA NthFacts ==
  ASSUME NEW S \in SUBSET Int, IsFiniteSet(S)
  PROVE  /\ \A k \in 1 .. Cardinality(S) : Nth(S, k) \in S
         /\ \A k, l \in 1 .. Cardinality(S) : Nth(S, k) = Nth(S, l) => k = l
         /\ \A i \in S : \E k \in 1 .. Cardinality(S) : Nth(S, k) = i
<1> DEFINE n == Cardinality(S)
           rank(i) == Cardinality({j \in S : j =< i})
<1>1. /\ n \in Nat
      /\ \A i, j \in S : rank(i) = rank(j) => i = j
      /\ \A i \in S : rank(i) \in 1 .. n
      /\ \A k \in 1 .. n : \E i \in S : rank(i) = k
  BY Ranks
<1>2. ASSUME NEW k \in 1 .. n PROVE Nth(S, k) \in S /\ rank(Nth(S, k)) = k
  <2>1. \E i \in S : rank(i) = k
    BY <1>1
  <2> QED BY <2>1 DEF Nth
<1> HIDE DEF rank, n
<1>3. ASSUME NEW i \in S PROVE Nth(S, rank(i)) = i
  BY <1>1, <1>2
<1> QED BY <1>1, <1>2, <1>3 DEF n

\* The tabs at some places are those tabs, each once (filter, tabs.ts).
LEMMA AtPlacesSelects ==
  ASSUME NEW T, NEW ts \in Seq(T), NEW P
  PROVE  /\ IsFiniteSet(P \cap DOMAIN ts) /\ P \cap DOMAIN ts \in SUBSET Int
         /\ Cardinality(P \cap DOMAIN ts) \in Nat
         /\ AtPlaces(ts, P) \in Seq(T)
         /\ DOMAIN AtPlaces(ts, P) = 1 .. Cardinality(P \cap DOMAIN ts)
         /\ \A k \in DOMAIN AtPlaces(ts, P) : AtPlaces(ts, P)[k] = ts[Nth(P \cap DOMAIN ts, k)]
<1> DEFINE S == P \cap DOMAIN ts
           n == Cardinality(S)
<1>1. S \in SUBSET Int /\ IsFiniteSet(S)
  <2>1. DOMAIN ts = 1 .. Len(ts) /\ Len(ts) \in Nat
    BY LenProperties
  <2>2. IsFiniteSet(DOMAIN ts)
    BY <2>1, FS_Interval
  <2> QED BY <2>1, <2>2, FS_Subset
<1>2. n \in Nat
  BY <1>1, FS_CardinalityType
<1>3. AtPlaces(ts, P) = [k \in 1 .. n |-> ts[Nth(S, k)]]
  BY DEF AtPlaces
<1>4. \A k \in 1 .. n : ts[Nth(S, k)] \in T
  <2>1. \A k \in 1 .. n : Nth(S, k) \in S
    <3> HIDE DEF S
    <3> QED BY <1>1, NthFacts
  <2> QED BY <2>1, ElementOfSeq, LenProperties
<1>5. AtPlaces(ts, P) \in Seq(T)
  <2>1. AtPlaces(ts, P) \in [1 .. n -> T]
    BY <1>3, <1>4
  <2> HIDE DEF n
  <2> QED BY <1>2, <2>1
<1> QED BY <1>1, <1>2, <1>3, <1>5

\* Selecting tabs with distinct keys: no key twice, and just the keys selected.
LEMMA AtPlacesKeys ==
  ASSUME NEW ts \in Seq(TabRecord), NEW P,
         \A i, j \in P \cap DOMAIN ts : ts[i].key = ts[j].key => i = j
  PROVE  /\ AtPlaces(ts, P) \in Seq(TabRecord)
         /\ Unique(AtPlaces(ts, P))
         /\ Keys(AtPlaces(ts, P)) = {ts[i].key : i \in P \cap DOMAIN ts}
         /\ AtPlaces(ts, P) = <<>> <=> P \cap DOMAIN ts = {}
<1> DEFINE S == P \cap DOMAIN ts
           sel == AtPlaces(ts, P)
           n == Cardinality(S)
<1>1. /\ n \in Nat /\ IsFiniteSet(S) /\ sel \in Seq(TabRecord) /\ DOMAIN sel = 1 .. n
      /\ \A k \in DOMAIN sel : sel[k] = ts[Nth(S, k)]
  BY AtPlacesSelects
<1>2. /\ \A k \in 1 .. n : Nth(S, k) \in S
      /\ \A k, l \in 1 .. n : Nth(S, k) = Nth(S, l) => k = l
      /\ \A i \in S : \E k \in 1 .. n : Nth(S, k) = i
  <2>1. S \in SUBSET Int /\ IsFiniteSet(S)
    BY AtPlacesSelects
  <2> HIDE DEF S
  <2> QED BY <2>1, NthFacts
<1> HIDE DEF n, sel, S
<1>3. \A i, j \in S : ts[i].key = ts[j].key => i = j
  BY DEF S
<1>4. Unique(sel)
  BY <1>1, <1>2, <1>3 DEF Unique
<1>5. Keys(sel) = {ts[i].key : i \in S}
  BY <1>1, <1>2 DEF Keys
<1>6. sel = <<>> <=> S = {}
  <2>1. ASSUME S = {} PROVE sel = <<>>
    <3>1. n = 0
      BY <2>1, FS_EmptySet DEF n
    <3> QED BY <1>1, <3>1
  <2>2. ASSUME NEW i \in S PROVE sel # <<>>
    BY <1>1, <1>2
  <2> QED BY <2>1, <2>2
<1> QED BY <1>1, <1>4, <1>5, <1>6 DEF sel, S

\* The first tab, a tab by its key, and the pages tabs are of.
LEMMA TabFacts ==
  ASSUME NEW ts \in Seq(TabRecord)
  PROVE  /\ DOMAIN ts = 1 .. Len(ts) /\ Len(ts) \in Nat
         /\ \A i \in DOMAIN ts : ts[i] \in TabRecord
         /\ Keys(ts) \subseteq Menu
         /\ IF ts = <<>> THEN Keys(ts) = {} /\ KeyAt(ts, 1) = None ELSE KeyAt(ts, 1) \in Keys(ts)
         /\ \A key : IF key \in Keys(ts) THEN IndexOf(ts, key) \in DOMAIN ts /\ ts[IndexOf(ts, key)].key = key
                                         ELSE IndexOf(ts, key) = 0
<1>1. /\ DOMAIN ts = 1 .. Len(ts) /\ Len(ts) \in Nat
      /\ \A i \in DOMAIN ts : ts[i] \in TabRecord
  BY LenProperties, ElementOfSeq
<1>2. Keys(ts) \subseteq Menu
  BY <1>1 DEF Keys, TabRecord
<1>3. CASE ts = <<>>
  <2>1. DOMAIN ts = {}
    BY <1>1, <1>3
  <2>2. Keys(ts) = {} /\ KeyAt(ts, 1) = None
    BY <2>1 DEF Keys, KeyAt
  <2> QED BY <1>1, <1>2, <1>3, <2>2 DEF IndexOf
<1>4. CASE ts # <<>>
  <2>1. 1 \in DOMAIN ts
    BY <1>1, <1>4, EmptySeq
  <2>2. KeyAt(ts, 1) \in Keys(ts)
    BY <2>1 DEF Keys, KeyAt
  <2>3. ASSUME NEW key
        PROVE  IF key \in Keys(ts) THEN IndexOf(ts, key) \in DOMAIN ts /\ ts[IndexOf(ts, key)].key = key
                                   ELSE IndexOf(ts, key) = 0
    BY DEF IndexOf, Keys
  <2> QED BY <1>1, <1>2, <1>4, <2>2, <2>3
<1> QED BY <1>3, <1>4

\* A page that is opened has one tab, the active one (openTab, tabs.ts:258).
LEMMA OpenTab ==
  ASSUME NEW s, s.tabs \in Seq(TabRecord), Unique(s.tabs), NEW tab \in TabRecord
  PROVE  /\ Coherent(openTab(s, tab))
         /\ openTab(s, tab).tabs # <<>>
         /\ openTab(s, tab).activeKey = tab.key
<1> DEFINE ts == s.tabs
           new == openTab(s, tab).tabs
<1>1. DOMAIN ts = 1 .. Len(ts) /\ Len(ts) \in Nat /\ \A i \in DOMAIN ts : ts[i] \in TabRecord
  BY TabFacts
<1>2. CASE tab.key \in Keys(ts)
  <2>1. new = [i \in DOMAIN ts |-> IF ts[i].key = tab.key THEN Tab(tab.key, ts[i].affix \/ tab.affix) ELSE ts[i]]
    BY <1>2 DEF openTab
  <2>2. \A i \in DOMAIN ts : new[i] \in TabRecord /\ new[i].key = ts[i].key
    BY <1>1, <2>1 DEF TabRecord, Tab
  <2>3. new \in [1 .. Len(ts) -> TabRecord]
    BY <1>1, <2>1, <2>2
  <2>4. new \in Seq(TabRecord) /\ DOMAIN new = DOMAIN ts /\ Unique(new)
    BY <1>1, <2>2, <2>3 DEF Unique
  <2>5. tab.key \in Keys(new)
    BY <1>2, <2>2, <2>4 DEF Keys
  <2>6. new # <<>>
    BY <2>4, <2>5, TabFacts
  <2> QED BY <2>4, <2>5, <2>6 DEF openTab, Coherent
<1>3. CASE tab.key \notin Keys(ts)
  <2>1. new = Append(ts, tab)
    BY <1>3 DEF openTab
  <2>2. /\ new \in Seq(TabRecord)
        /\ DOMAIN new = 1 .. Len(ts) + 1
        /\ \A i \in 1 .. Len(ts) + 1 : new[i] = IF i = Len(ts) + 1 THEN tab ELSE ts[i]
    BY <2>1, <1>1, AppendProperties, LenProperties
  <2>3. \A i \in 1 .. Len(ts) : ts[i].key # tab.key
    BY <1>1, <1>3 DEF Keys
  <2>4. Unique(new)
    <3> SUFFICES ASSUME NEW i \in 1 .. Len(ts) + 1, NEW j \in 1 .. Len(ts) + 1, new[i].key = new[j].key
                 PROVE  i = j
      BY <2>2 DEF Unique
    <3>1. i = Len(ts) + 1 \/ (i \in 1 .. Len(ts) /\ new[i] = ts[i])
      BY <1>1, <2>2
    <3>2. j = Len(ts) + 1 \/ (j \in 1 .. Len(ts) /\ new[j] = ts[j])
      BY <1>1, <2>2
    <3>3. new[Len(ts) + 1] = tab
      BY <1>1, <2>2
    <3> QED BY <1>1, <2>3, <3>1, <3>2, <3>3 DEF Unique
  <2>5. tab.key \in Keys(new)
    BY <1>1, <2>2 DEF Keys
  <2>6. new # <<>>
    BY <2>2, <2>5, TabFacts
  <2> QED BY <2>2, <2>4, <2>5, <2>6 DEF openTab, Coherent
<1> QED BY <1>2, <1>3

\* Closing a tab (closeTab, tabs.ts:241).
LEMMA CloseTabCoherent ==
  ASSUME NEW s, Coherent(s), NEW key
  PROVE  Coherent(closeTab(s, key))
<1> DEFINE closed == IndexOf(s.tabs, key)
           ts == AtPlaces(s.tabs, DOMAIN s.tabs \ {closed})
<1>1. CASE closed = 0 \/ (closed > 0 /\ s.tabs[closed].affix)
  BY <1>1 DEF closeTab
<1>2. CASE ~ (closed = 0 \/ (closed > 0 /\ s.tabs[closed].affix))
  <2>1. closed \in DOMAIN s.tabs /\ s.tabs[closed].key = key
    BY <1>2, TabFacts DEF Coherent
  <2>2. /\ ts \in Seq(TabRecord) /\ Unique(ts)
        /\ Keys(ts) = {s.tabs[i].key : i \in (DOMAIN s.tabs \ {closed}) \cap DOMAIN s.tabs}
    BY AtPlacesKeys DEF Coherent, Unique
  <2>3. closeTab(s, key) = [tabs |-> ts,
                            activeKey |-> IF s.activeKey = key THEN nextActiveAfterClose(ts, closed)
                                          ELSE s.activeKey]
    BY <1>2 DEF closeTab
  <2>4. CASE s.activeKey = key
    <3>1. IF ts = <<>> THEN nextActiveAfterClose(ts, closed) = None
                       ELSE nextActiveAfterClose(ts, closed) \in Keys(ts)
      <4>1. IF ts = <<>> THEN DOMAIN ts = {} /\ KeyAt(ts, 1) = None ELSE KeyAt(ts, 1) \in Keys(ts)
        BY <2>2, TabFacts
      <4>2. \A i \in DOMAIN ts : ts[i].key \in Keys(ts)
        BY DEF Keys
      <4> HIDE DEF ts, closed
      <4>3. CASE ts = <<>>
        BY <4>1, <4>3 DEF nextActiveAfterClose
      <4>4. CASE ts # <<>>
        BY <4>1, <4>2, <4>4 DEF nextActiveAfterClose
      <4> QED BY <4>3, <4>4
    <3> QED BY <2>2, <2>3, <2>4, <3>1 DEF Coherent
  <2>5. CASE s.activeKey # key
    <3>1. s.activeKey \in Keys(s.tabs)
      BY <2>1, TabFacts DEF Coherent
    <3>2. s.activeKey \in Keys(ts)
      BY <2>1, <2>2, <2>5, <3>1 DEF Keys
    <3>3. ts # <<>>
      BY <2>2, <3>2, TabFacts
    <3> QED BY <2>2, <2>3, <2>5, <3>2, <3>3 DEF Coherent
  <2> QED BY <2>4, <2>5
<1> QED BY <1>1, <1>2

\* Keeping the tabs at some places, a tab of key k among them, with the active
\* tab if it is kept and k's otherwise.
LEMMA KeepCoherent ==
  ASSUME NEW s, Coherent(s), NEW P, NEW i \in P \cap DOMAIN s.tabs, NEW active,
         LET ts == AtPlaces(s.tabs, P)
         IN active = s.tabs[i].key \/ active = Active(s, ts, s.tabs[i].key)
  PROVE  Coherent([tabs |-> AtPlaces(s.tabs, P), activeKey |-> active])
<1> DEFINE ts == AtPlaces(s.tabs, P)
<1>1. /\ ts \in Seq(TabRecord) /\ Unique(ts)
      /\ Keys(ts) = {s.tabs[j].key : j \in P \cap DOMAIN s.tabs}
      /\ ts = <<>> <=> P \cap DOMAIN s.tabs = {}
  BY AtPlacesKeys DEF Coherent, Unique
<1>2. ts # <<>> /\ s.tabs[i].key \in Keys(ts)
  BY <1>1
<1>3. active \in Keys(ts)
  BY <1>2 DEF Active
<1> QED BY <1>1, <1>2, <1>3 DEF Coherent

\* Closing all tabs that are not pinned, but for the first if none is
\* (closeAll, tabs.ts:195).
LEMMA CloseAllCoherent ==
  ASSUME NEW s, Coherent(s)
  PROVE  Coherent(closeAll(s))
<1> DEFINE P == IF Affixed(s.tabs) # {} THEN Affixed(s.tabs) ELSE {1} \cap DOMAIN s.tabs
           ts == AtPlaces(s.tabs, P)
<1>1. closeAll(s) = [tabs |-> ts, activeKey |-> KeyAt(ts, 1)]
  BY DEF closeAll
<1>2. ts \in Seq(TabRecord) /\ Unique(ts)
  BY AtPlacesKeys DEF Coherent, Unique
<1>3. IF ts = <<>> THEN KeyAt(ts, 1) = None ELSE KeyAt(ts, 1) \in Keys(ts)
  BY <1>2, TabFacts
<1> QED BY <1>1, <1>2, <1>3 DEF Coherent

\* Closing the tabs on one side of a tab, or all others, but for the pinned
\* (closeLeft, closeRight, closeOthers, tabs.ts:204).
LEMMA CloseSomeCoherent ==
  ASSUME NEW s, Coherent(s), NEW key
  PROVE  /\ Coherent(closeLeft(s, key))
         /\ Coherent(closeRight(s, key))
         /\ key \in Keys(s.tabs) => Coherent(closeOthers(s, key))
<1> DEFINE target == IndexOf(s.tabs, key)
<1>1. /\ DOMAIN s.tabs = 1 .. Len(s.tabs) /\ Len(s.tabs) \in Nat
      /\ IF key \in Keys(s.tabs) THEN target \in DOMAIN s.tabs /\ s.tabs[target].key = key
                                 ELSE target = 0
  BY TabFacts DEF Coherent
<1>2. Coherent(closeLeft(s, key))
  <2> DEFINE P == Affixed(s.tabs) \cup target .. Len(s.tabs)
             ts == AtPlaces(s.tabs, P)
  <2>1. CASE target =< 1
    BY <2>1 DEF closeLeft
  <2>2. CASE ~ (target =< 1)
    <3>1. target \in P \cap DOMAIN s.tabs /\ s.tabs[target].key = key
      BY <1>1, <2>2
    <3>2. closeLeft(s, key) = [tabs |-> ts, activeKey |-> Active(s, ts, key)]
      BY <2>2 DEF closeLeft
    <3> HIDE DEF P, target
    <3>3. Coherent([tabs |-> ts, activeKey |-> Active(s, ts, key)])
      BY <3>1, KeepCoherent
    <3> QED BY <3>2, <3>3
  <2> QED BY <2>1, <2>2
<1>3. Coherent(closeRight(s, key))
  <2> DEFINE P == Affixed(s.tabs) \cup 1 .. target
             ts == AtPlaces(s.tabs, P)
  <2>1. CASE target = 0 \/ target = Len(s.tabs)
    BY <2>1 DEF closeRight
  <2>2. CASE ~ (target = 0 \/ target = Len(s.tabs))
    <3>1. target \in P \cap DOMAIN s.tabs /\ s.tabs[target].key = key
      BY <1>1, <2>2
    <3>2. closeRight(s, key) = [tabs |-> ts, activeKey |-> Active(s, ts, key)]
      BY <2>2 DEF closeRight
    <3> HIDE DEF P, target
    <3>3. Coherent([tabs |-> ts, activeKey |-> Active(s, ts, key)])
      BY <3>1, KeepCoherent
    <3> QED BY <3>2, <3>3
  <2> QED BY <2>1, <2>2
<1>4. ASSUME key \in Keys(s.tabs) PROVE Coherent(closeOthers(s, key))
  <2> DEFINE P == Affixed(s.tabs) \cup {i \in DOMAIN s.tabs : s.tabs[i].key = key}
             ts == AtPlaces(s.tabs, P)
  <2>1. target \in P \cap DOMAIN s.tabs /\ s.tabs[target].key = key
    BY <1>1, <1>4
  <2>2. closeOthers(s, key) = [tabs |-> ts, activeKey |-> IF key \in Keys(ts) THEN key ELSE KeyAt(ts, 1)]
    BY DEF closeOthers
  <2>3. key \in Keys(ts)
    BY <2>1, AtPlacesKeys DEF Coherent, Unique
  <2> HIDE DEF P, target
  <2>4. Coherent([tabs |-> ts, activeKey |-> key])
    BY <2>1, KeepCoherent
  <2> QED BY <2>2, <2>3, <2>4
<1> QED BY <1>2, <1>3, <1>4

\* Pinning a tab and unpinning it (toggleAffix, tabs.ts:299).
LEMMA ToggleAffixCoherent ==
  ASSUME NEW s, Coherent(s), NEW key
  PROVE  /\ Coherent(toggleAffix(s, key))
         /\ toggleAffix(s, key).activeKey = s.activeKey
         /\ toggleAffix(s, key).tabs = <<>> <=> s.tabs = <<>>
<1> DEFINE ts == s.tabs
           new == [i \in DOMAIN ts |-> IF ts[i].key = key THEN Tab(key, ~ts[i].affix) ELSE ts[i]]
<1>1. /\ DOMAIN ts = 1 .. Len(ts) /\ Len(ts) \in Nat /\ \A i \in DOMAIN ts : ts[i] \in TabRecord
      /\ ts \in Seq(TabRecord) /\ Unique(ts)
  BY TabFacts DEF Coherent
<1>2. s = [tabs |-> ts, activeKey |-> s.activeKey]
  BY DEF Coherent
<1>3. toggleAffix(s, key) = [tabs |-> new, activeKey |-> s.activeKey]
  BY <1>2 DEF toggleAffix
<1>4. \A i \in DOMAIN ts : new[i] \in TabRecord /\ new[i].key = ts[i].key
  BY <1>1 DEF TabRecord, Tab
<1>5. new \in [1 .. Len(ts) -> TabRecord]
  BY <1>1, <1>4
<1>6. new \in Seq(TabRecord) /\ DOMAIN new = DOMAIN ts
  BY <1>1, <1>5
<1> HIDE DEF new
<1>7. Unique(new) /\ Keys(new) = Keys(ts)
  BY <1>1, <1>4, <1>6 DEF Unique, Keys
<1>8. new = <<>> <=> ts = <<>>
  BY <1>1, <1>6, EmptySeq, TabFacts
<1> QED BY <1>3, <1>6, <1>7, <1>8 DEF Coherent

\* Taking an element out of a sequence.
LEMMA RemoveAtFacts ==
  ASSUME NEW T, NEW s \in Seq(T), NEW i \in 1 .. Len(s)
  PROVE  /\ RemoveAt(s, i) \in Seq(T)
         /\ Len(RemoveAt(s, i)) = Len(s) - 1
         /\ \A k \in 1 .. Len(s) - 1 : RemoveAt(s, i)[k] = IF k < i THEN s[k] ELSE s[k + 1]
<1> DEFINE a == SubSeq(s, 1, i - 1)
           b == SubSeq(s, i + 1, Len(s))
<1>1. Len(s) \in Nat /\ i \in Int /\ \A k \in 1 .. Len(s) : s[k] \in T
  BY LenProperties, ElementOfSeq
<1>2. /\ a \in Seq(T) /\ Len(a) = i - 1
      /\ \A k \in 1 .. i - 1 : a[k] = s[k]
  BY <1>1, SubSeqProperties
<1>3. /\ b \in Seq(T) /\ Len(b) = Len(s) - i
      /\ \A k \in 1 .. Len(s) - i : b[k] = s[i + k]
  BY <1>1, SubSeqProperties
<1> HIDE DEF a, b
<1>4. /\ a \o b \in Seq(T) /\ Len(a \o b) = Len(a) + Len(b)
      /\ \A k \in 1 .. Len(a) + Len(b) : (a \o b)[k] = IF k <= Len(a) THEN a[k] ELSE b[k - Len(a)]
  BY <1>2, <1>3, ConcatProperties
<1>5. \A k \in 1 .. Len(s) - 1 : (a \o b)[k] = IF k < i THEN s[k] ELSE s[k + 1]
  <2> SUFFICES ASSUME NEW k \in 1 .. Len(s) - 1
               PROVE  (a \o b)[k] = IF k < i THEN s[k] ELSE s[k + 1]
    OBVIOUS
  <2>1. CASE k < i
    BY <1>1, <1>2, <1>3, <1>4, <2>1
  <2>2. CASE ~ (k < i)
    <3>1. k - (i - 1) \in 1 .. Len(s) - i /\ i + (k - (i - 1)) = k + 1
      BY <1>1, <2>2
    <3>2. (a \o b)[k] = b[k - (i - 1)]
      BY <1>1, <1>2, <1>3, <1>4, <2>2
    <3>3. b[k - (i - 1)] = s[k + 1]
      BY <1>3, <3>1
    <3> QED BY <2>2, <3>2, <3>3
  <2> QED BY <2>1, <2>2
<1>6. RemoveAt(s, i) = a \o b
  BY DEF RemoveAt, a, b
<1>7. Len(a \o b) = Len(s) - 1
  BY <1>1, <1>2, <1>3, <1>4
<1> QED BY <1>4, <1>5, <1>6, <1>7

\* Putting an element into a sequence.
LEMMA InsertAtFacts ==
  ASSUME NEW T, NEW s \in Seq(T), NEW i \in 1 .. Len(s) + 1, NEW e \in T
  PROVE  /\ InsertAt(s, i, e) \in Seq(T)
         /\ Len(InsertAt(s, i, e)) = Len(s) + 1
         /\ \A k \in 1 .. Len(s) + 1 :
              InsertAt(s, i, e)[k] = IF k < i THEN s[k] ELSE IF k = i THEN e ELSE s[k - 1]
<1> DEFINE a == SubSeq(s, 1, i - 1)
           m == <<e>>
           b == SubSeq(s, i, Len(s))
<1>1. Len(s) \in Nat /\ i \in Int /\ \A k \in 1 .. Len(s) : s[k] \in T
  BY LenProperties, ElementOfSeq
<1>2. /\ a \in Seq(T) /\ Len(a) = i - 1
      /\ \A k \in 1 .. i - 1 : a[k] = s[k]
  BY <1>1, SubSeqProperties
<1>3. /\ b \in Seq(T) /\ Len(b) = Len(s) - i + 1
      /\ \A k \in 1 .. Len(s) - i + 1 : b[k] = s[i + k - 1]
  BY <1>1, SubSeqProperties
<1>4. m \in Seq(T) /\ Len(m) = 1 /\ m[1] = e
  OBVIOUS
<1> HIDE DEF a, b, m
<1>5. /\ a \o m \in Seq(T) /\ Len(a \o m) = i
      /\ \A k \in 1 .. i : (a \o m)[k] = IF k < i THEN s[k] ELSE e
  <2>1. /\ a \o m \in Seq(T) /\ Len(a \o m) = Len(a) + Len(m)
        /\ \A k \in 1 .. Len(a) + Len(m) : (a \o m)[k] = IF k <= Len(a) THEN a[k] ELSE m[k - Len(a)]
    BY <1>2, <1>4, ConcatProperties
  <2> QED BY <1>1, <1>2, <1>4, <2>1
<1> DEFINE am == a \o m
<1> HIDE DEF am
<1>6. /\ am \o b \in Seq(T) /\ Len(am \o b) = Len(am) + Len(b)
      /\ \A k \in 1 .. Len(am) + Len(b) : (am \o b)[k] = IF k <= Len(am) THEN am[k] ELSE b[k - Len(am)]
  <2>1. am \in Seq(T) /\ b \in Seq(T)
    BY <1>3, <1>5 DEF am
  <2> QED BY <2>1, ConcatProperties
<1>7. ASSUME NEW k \in 1 .. Len(s) + 1
      PROVE  (am \o b)[k] = IF k < i THEN s[k] ELSE IF k = i THEN e ELSE s[k - 1]
  <2>1. CASE k =< i
    BY <1>1, <1>3, <1>5, <1>6, <2>1 DEF am
  <2>2. CASE ~ (k =< i)
    <3>1. k - i \in 1 .. Len(s) - i + 1 /\ i + (k - i) - 1 = k - 1
      BY <1>1, <2>2
    <3>2. (am \o b)[k] = b[k - i]
      BY <1>1, <1>3, <1>5, <1>6, <2>2 DEF am
    <3>3. b[k - i] = s[k - 1]
      BY <1>3, <3>1
    <3> QED BY <1>1, <2>2, <3>2, <3>3
  <2> QED BY <1>1, <2>1, <2>2
<1>8. InsertAt(s, i, e) = am \o b
  BY DEF InsertAt, a, b, m, am
<1>9. Len(am \o b) = Len(s) + 1
  BY <1>1, <1>3, <1>5, <1>6 DEF am
<1> QED BY <1>6, <1>7, <1>8, <1>9

\* Dragging a tab (reorderTabs, tabs.ts:276).
LEMMA ReorderCoherent ==
  ASSUME NEW s, Coherent(s), NEW from, NEW to
  PROVE  /\ Coherent(reorderTabs(s, from, to))
         /\ reorderTabs(s, from, to).activeKey = s.activeKey
         /\ reorderTabs(s, from, to).tabs = <<>> <=> s.tabs = <<>>
<1> DEFINE ts == s.tabs
           moved == RemoveAt(ts, from)
           new == InsertAt(moved, to, ts[from])
           n == Len(ts)
           old(k) == IF k < to THEN (IF k < from THEN k ELSE k + 1)
                     ELSE IF k = to THEN from
                     ELSE IF k - 1 < from THEN k - 1 ELSE k
<1>1. CASE ~ ({from, to} \subseteq DOMAIN ts /\ ~ts[to].affix)
  BY <1>1 DEF reorderTabs
<1>2. CASE {from, to} \subseteq DOMAIN ts /\ ~ts[to].affix
  <2>1. /\ DOMAIN ts = 1 .. n /\ n \in Nat /\ \A i \in DOMAIN ts : ts[i] \in TabRecord
        /\ ts \in Seq(TabRecord) /\ Unique(ts) /\ from \in 1 .. n /\ to \in 1 .. n
    BY <1>2, TabFacts DEF Coherent
  <2>2. s = [tabs |-> ts, activeKey |-> s.activeKey]
    BY DEF Coherent
  <2>3. reorderTabs(s, from, to) = [tabs |-> new, activeKey |-> s.activeKey]
    BY <1>2, <2>2 DEF reorderTabs
  <2>4. /\ moved \in Seq(TabRecord) /\ Len(moved) = n - 1
        /\ \A k \in 1 .. n - 1 : moved[k] = IF k < from THEN ts[k] ELSE ts[k + 1]
    BY <2>1, RemoveAtFacts
  <2> HIDE DEF moved
  <2>5. /\ new \in Seq(TabRecord) /\ Len(new) = n
        /\ \A k \in 1 .. n : new[k] = IF k < to THEN moved[k] ELSE IF k = to THEN ts[from] ELSE moved[k - 1]
    <3>1. ts[from] \in TabRecord /\ to \in 1 .. Len(moved) + 1 /\ Len(moved) + 1 = n
      BY <2>1, <2>4
    <3>2. /\ new \in Seq(TabRecord) /\ Len(new) = Len(moved) + 1
          /\ \A k \in 1 .. Len(moved) + 1 :
               new[k] = IF k < to THEN moved[k] ELSE IF k = to THEN ts[from] ELSE moved[k - 1]
      <4> DEFINE e == ts[from]
      <4> HIDE DEF e
      <4>1. moved \in Seq(TabRecord) /\ to \in 1 .. Len(moved) + 1 /\ e \in TabRecord
        BY <2>4, <3>1 DEF e
      <4>2. /\ InsertAt(moved, to, e) \in Seq(TabRecord)
            /\ Len(InsertAt(moved, to, e)) = Len(moved) + 1
            /\ \A k \in 1 .. Len(moved) + 1 :
                 InsertAt(moved, to, e)[k] = IF k < to THEN moved[k] ELSE IF k = to THEN e ELSE moved[k - 1]
        BY <4>1, InsertAtFacts
      <4> QED BY <4>2 DEF e
    <3> QED BY <3>1, <3>2
  <2>6. DOMAIN new = 1 .. n
    BY <2>5, LenProperties
  <2> HIDE DEF new, n, ts
  <2>7. \A k \in 1 .. n : old(k) \in 1 .. n /\ new[k] = ts[old(k)]
    <3> SUFFICES ASSUME NEW k \in 1 .. n PROVE old(k) \in 1 .. n /\ new[k] = ts[old(k)]
      OBVIOUS
    <3>1. CASE k < to
      <4>1. k \in 1 .. n - 1 /\ new[k] = moved[k]
        BY <2>1, <2>5, <3>1
      <4> QED BY <2>1, <2>4, <3>1, <4>1
    <3>2. CASE k = to
      BY <2>1, <2>5, <3>2
    <3>3. CASE k > to
      <4>1. k - 1 \in 1 .. n - 1 /\ new[k] = moved[k - 1] /\ (k - 1) + 1 = k
        BY <2>1, <2>5, <3>3
      <4>2. moved[k - 1] = IF k - 1 < from THEN ts[k - 1] ELSE ts[k]
        BY <2>4, <4>1
      <4> QED BY <2>1, <3>3, <4>1, <4>2
    <3> QED BY <2>1, <3>1, <3>2, <3>3
  <2>8. \A k, l \in 1 .. n : old(k) = old(l) => k = l
    BY <2>1
  <2>9. \A i \in 1 .. n : \E k \in 1 .. n : old(k) = i
    <3> SUFFICES ASSUME NEW i \in 1 .. n PROVE \E k \in 1 .. n : old(k) = i
      OBVIOUS
    <3> DEFINE j == IF i < from THEN i ELSE i - 1
               k == IF i = from THEN to ELSE IF j < to THEN j ELSE j + 1
    <3>1. k \in 1 .. n /\ old(k) = i
      BY <2>1
    <3> QED BY <3>1
  <2> HIDE DEF old
  <2>10. Unique(new)
    BY <2>1, <2>6, <2>7, <2>8 DEF Unique
  <2>11. Keys(new) = Keys(ts)
    <3>1. \A i \in 1 .. n : \E k \in 1 .. n : new[k].key = ts[i].key
      BY <2>7, <2>9
    <3>2. \A k \in 1 .. n : \E i \in 1 .. n : new[k].key = ts[i].key
      BY <2>7
    <3>3. DOMAIN ts = 1 .. n
      BY <2>1
    <3>4. \A key : key \in Keys(new) <=> \E k \in 1 .. n : new[k].key = key
      BY <2>6 DEF Keys
    <3>5. \A key : key \in Keys(ts) <=> \E k \in 1 .. n : ts[k].key = key
      BY <3>3 DEF Keys
    <3> QED BY <3>1, <3>2, <3>4, <3>5
  <2>12. new = <<>> <=> ts = <<>>
    BY <2>1, <2>5, EmptySeq DEF n
  <2> QED BY <2>3, <2>5, <2>10, <2>11, <2>12 DEF Coherent, ts
<1> QED BY <1>1, <1>2

\* What is stored, if anything: the tabs and the active one.
Stored == [tabs : Seq(TabRecord), activeKey : Menu \cup {None}]

\* Whatever was stored, the store starts with coherent tabs (readStoredTabs and
\* createTabsStore, tabs.ts:77, tabs.ts:183).
LEMMA CreateCoherent ==
  ASSUME NEW stored \in Stored \cup {None}, NEW persist
  PROVE  Coherent(createTabsStore(stored, persist))
<1>1. Coherent([tabs |-> initialTabs, activeKey |-> DefaultPath])
  <2> DEFINE first == Tab(DefaultPath, TRUE)
  <2>1. first \in TabRecord /\ first.key = DefaultPath
    BY PathsAssumption DEF TabRecord, Tab
  <2> HIDE DEF first
  <2>2. <<first>> \in Seq(TabRecord) /\ DOMAIN <<first>> = 1 .. 1 /\ <<first>>[1] = first /\ <<first>> # <<>>
    BY <2>1
  <2>3. Unique(<<first>>) /\ DefaultPath \in Keys(<<first>>)
    BY <2>1, <2>2 DEF Unique, Keys
  <2>4. initialTabs = <<first>>
    BY DEF initialTabs, first
  <2> QED BY <2>2, <2>3, <2>4 DEF Coherent
<1>2. ASSUME readStoredTabs(stored) # None
      PROVE  Coherent(readStoredTabs(stored))
  <2> DEFINE ts == uniqueTabs(stored.tabs)
             P == {i \in DOMAIN stored.tabs : \A j \in 1 .. i - 1 : stored.tabs[j].key # stored.tabs[i].key}
  <2>1. stored # None /\ stored \in Stored
    BY <1>2 DEF readStoredTabs
  <2>2. stored.tabs \in Seq(TabRecord)
    BY <2>1 DEF Stored
  <2>3. DOMAIN stored.tabs = 1 .. Len(stored.tabs) /\ Len(stored.tabs) \in Nat
    BY <2>2, TabFacts
  <2>4. \A i, j \in P \cap DOMAIN stored.tabs : stored.tabs[i].key = stored.tabs[j].key => i = j
    <3> SUFFICES ASSUME NEW i \in P, NEW j \in P, stored.tabs[i].key = stored.tabs[j].key, i # j PROVE FALSE
      OBVIOUS
    <3>1. i \in Int /\ j \in Int /\ i >= 1 /\ j >= 1
      BY <2>3
    <3>2. i \in 1 .. j - 1 \/ j \in 1 .. i - 1
      BY <3>1
    <3> QED BY <3>2
  <2>5. ts \in Seq(TabRecord) /\ Unique(ts)
    <3> HIDE DEF P
    <3>1. AtPlaces(stored.tabs, P) \in Seq(TabRecord) /\ Unique(AtPlaces(stored.tabs, P))
      BY <2>2, <2>4, AtPlacesKeys
    <3> QED BY <3>1 DEF uniqueTabs, P
  <2>6. ts # <<>> /\ readStoredTabs(stored) = [tabs |-> ts, activeKey |-> Active(stored, ts, KeyAt(ts, 1))]
    BY <1>2, <2>1 DEF readStoredTabs
  <2> HIDE DEF ts
  <2>7. Active(stored, ts, KeyAt(ts, 1)) \in Keys(ts)
    BY <2>5, <2>6, TabFacts DEF Active
  <2> QED BY <2>5, <2>6, <2>7 DEF Coherent
<1> QED BY <1>1, <1>2 DEF createTabsStore

\* The default page first, then the others, each once
\* (resolveInitialWorkspaceTabs, base-layout.tsx:141).
LEMMA InitialWorkspaceTabs ==
  ASSUME NEW ts \in Seq(TabRecord), Unique(ts)
  PROVE  /\ resolveInitialWorkspaceTabs(ts) \in Seq(TabRecord)
         /\ Unique(resolveInitialWorkspaceTabs(ts))
         /\ resolveInitialWorkspaceTabs(ts) # <<>>
<1> DEFINE first == Tab(DefaultPath, TRUE)
           P == {i \in DOMAIN ts : ts[i].key # DefaultPath}
           others == AtPlaces(ts, P)
           all == <<first>> \o others
<1>1. first \in TabRecord /\ first.key = DefaultPath
  BY PathsAssumption DEF TabRecord, Tab
<1>2. /\ others \in Seq(TabRecord) /\ Unique(others)
      /\ Keys(others) = {ts[i].key : i \in P \cap DOMAIN ts}
  <2> HIDE DEF P
  <2> QED BY AtPlacesKeys DEF Unique
<1>3. DefaultPath \notin Keys(others)
  BY <1>2
<1> HIDE DEF first, others
<1>4. /\ all \in Seq(TabRecord) /\ Len(all) = 1 + Len(others) /\ Len(others) \in Nat
      /\ all[1] = first
      /\ \A k \in 2 .. 1 + Len(others) : all[k] = others[k - 1]
  <2>1. <<first>> \in Seq(TabRecord) /\ Len(<<first>>) = 1 /\ <<first>>[1] = first /\ Len(others) \in Nat
    BY <1>1, <1>2, LenProperties
  <2>2. /\ all \in Seq(TabRecord) /\ Len(all) = Len(<<first>>) + Len(others)
        /\ \A k \in 1 .. Len(<<first>>) + Len(others) :
             all[k] = IF k <= Len(<<first>>) THEN <<first>>[k] ELSE others[k - Len(<<first>>)]
    BY <1>2, <2>1, ConcatProperties
  <2> QED BY <2>1, <2>2
<1> HIDE DEF all
<1>5. DOMAIN all = 1 .. 1 + Len(others) /\ DOMAIN others = 1 .. Len(others)
  BY <1>2, <1>4, LenProperties
<1>6. Unique(all)
  <2> SUFFICES ASSUME NEW k \in DOMAIN all, NEW l \in DOMAIN all, all[k].key = all[l].key PROVE k = l
    BY DEF Unique
  <2>1. \A m \in 2 .. 1 + Len(others) : m - 1 \in DOMAIN others /\ all[m] = others[m - 1] /\ all[m].key # DefaultPath
    BY <1>3, <1>4, <1>5 DEF Keys
  <2>2. k = 1 \/ k \in 2 .. 1 + Len(others)
    BY <1>4, <1>5
  <2>3. l = 1 \/ l \in 2 .. 1 + Len(others)
    BY <1>4, <1>5
  <2>4. CASE k = 1 \/ l = 1
    BY <1>1, <1>4, <2>1, <2>2, <2>3, <2>4
  <2>5. CASE k \in 2 .. 1 + Len(others) /\ l \in 2 .. 1 + Len(others)
    <3>1. k - 1 = l - 1
      BY <1>2, <2>1, <2>5 DEF Unique
    <3> QED BY <1>4, <2>5, <3>1
  <2> QED BY <2>2, <2>3, <2>4, <2>5
<1>7. resolveInitialWorkspaceTabs(ts) = all
  BY DEF resolveInitialWorkspaceTabs, initialTabs, all, others, first
<1> QED BY <1>4, <1>6, <1>7

\* The tabs of the bar are tabs (getVisibleTabs, tabbar.tsx:353).
LEMMA VisibleTabs ==
  ASSUME NEW ts \in Seq(TabRecord), NEW p, NEW maxCount \in Int
  PROVE  /\ getVisibleTabs(ts, p, maxCount) \in Seq(TabRecord)
         /\ Keys(getVisibleTabs(ts, p, maxCount)) \subseteq Keys(ts)
<1> DEFINE latest == SubSeq(ts, Len(ts) - maxCount + 1, Len(ts))
<1>1. /\ DOMAIN ts = 1 .. Len(ts) /\ Len(ts) \in Nat
      /\ \A i \in DOMAIN ts : ts[i] \in TabRecord
  BY TabFacts
<1>2. CASE maxCount =< 0 \/ Len(ts) =< maxCount
  <2>1. getVisibleTabs(ts, p, maxCount) = ts
    BY <1>2 DEF getVisibleTabs
  <2> QED BY <2>1
<1>3. CASE ~ (maxCount =< 0 \/ Len(ts) =< maxCount)
  <2>1. /\ latest \in Seq(TabRecord) /\ Len(latest) = maxCount
        /\ \A i \in 1 .. maxCount : latest[i] = ts[Len(ts) - maxCount + i]
    <3>1. \A i \in Len(ts) - maxCount + 1 .. Len(ts) : ts[i] \in TabRecord
      BY <1>1, <1>3
    <3>2. /\ latest \in Seq(TabRecord)
          /\ Len(latest) = IF Len(ts) - maxCount + 1 <= Len(ts) THEN Len(ts) - (Len(ts) - maxCount + 1) + 1 ELSE 0
          /\ \A i \in 1 .. Len(ts) - (Len(ts) - maxCount + 1) + 1 : latest[i] = ts[Len(ts) - maxCount + 1 + i - 1]
      BY <1>1, <3>1, SubSeqProperties
    <3> QED BY <1>1, <1>3, <3>2
  <2> HIDE DEF latest
  <2>2. DOMAIN latest = 1 .. maxCount
    BY <2>1, LenProperties
  <2>3. \A i \in DOMAIN latest : \E j \in DOMAIN ts : latest[i] = ts[j]
    <3> SUFFICES ASSUME NEW i \in 1 .. maxCount PROVE \E j \in DOMAIN ts : latest[i] = ts[j]
      BY <2>2
    <3>1. Len(ts) - maxCount + i \in DOMAIN ts
      BY <1>1, <1>3
    <3> QED BY <2>1, <3>1
  <2>4. Keys(latest) \subseteq Keys(ts)
    BY <2>3 DEF Keys
  <2>5. CASE p \in Keys(latest) \/ p \notin Keys(ts)
    <3>1. getVisibleTabs(ts, p, maxCount) = latest
      BY <1>3, <2>5 DEF getVisibleTabs, latest
    <3> QED BY <2>1, <2>4, <3>1
  <2>6. CASE ~ (p \in Keys(latest) \/ p \notin Keys(ts))
    <3> DEFINE own == ts[IndexOf(ts, p)]
               bar == Append(Tail(latest), own)
    <3>1. getVisibleTabs(ts, p, maxCount) = bar
      BY <1>3, <2>6 DEF getVisibleTabs, latest
    <3>2. own \in TabRecord /\ own.key \in Keys(ts)
      BY <1>1, <2>6, TabFacts
    <3>3. /\ Tail(latest) \in Seq(TabRecord) /\ Len(Tail(latest)) = maxCount - 1
          /\ \A i \in 1 .. maxCount - 1 : Tail(latest)[i] = latest[i + 1]
      BY <1>3, <2>1, HeadTailProperties
    <3> HIDE DEF own
    <3>4. /\ bar \in Seq(TabRecord) /\ Len(bar) = maxCount
          /\ \A i \in 1 .. maxCount : bar[i] = IF i = maxCount THEN own ELSE latest[i + 1]
      <4> DEFINE tail == Tail(latest)
      <4> HIDE DEF tail
      <4>1. /\ Append(tail, own) \in Seq(TabRecord)
            /\ Len(Append(tail, own)) = Len(tail) + 1
            /\ \A i \in 1 .. Len(tail) + 1 : Append(tail, own)[i] = IF i <= Len(tail) THEN tail[i] ELSE own
        BY <3>2, <3>3, AppendProperties DEF tail
      <4> QED BY <1>3, <3>3, <4>1 DEF tail
    <3> HIDE DEF bar
    <3>5. DOMAIN bar = 1 .. maxCount
      BY <3>4, LenProperties
    <3>6. \A i \in DOMAIN bar : bar[i].key \in Keys(ts)
      <4> SUFFICES ASSUME NEW i \in 1 .. maxCount PROVE bar[i].key \in Keys(ts)
        BY <3>5
      <4>1. CASE i = maxCount
        BY <3>2, <3>4, <4>1
      <4>2. CASE i # maxCount
        <5>1. i + 1 \in DOMAIN latest /\ bar[i] = latest[i + 1]
          BY <2>2, <3>4, <4>2
        <5> QED BY <2>4, <5>1 DEF Keys
      <4> QED BY <4>1, <4>2
    <3>7. Keys(bar) \subseteq Keys(ts)
      BY <3>6 DEF Keys
    <3> QED BY <3>1, <3>4, <3>7
  <2> QED BY <2>5, <2>6
<1> QED BY <1>2, <1>3

(***************************************************************************)
(* The preferences.                                                        *)
(***************************************************************************)

SP == INSTANCE PreferencesProofs
        WITH Fields <- AdminFields, Dom <- AdminDom, Default <- DEFAULT_PREFERENCES,
             Numbers <- AdminNumbers, Low <- AdminLow, High <- AdminHigh,
             Accepted <- AdminAccepted

\* The kind of value each field takes (AdminPreferences, preferences.ts:39).
LEMMA RawValues ==
  /\ \A f \in Toggles : f \in AdminFields /\ SP!Raw(f) = BOOLEAN
  /\ \A f \in DOMAIN Options : f \in AdminFields /\ SP!Raw(f) = Options[f]
  /\ \A f \in AdminNumbers : f \in AdminFields /\ SP!Raw(f) = Int
  /\ \A f \in DOMAIN AdminTheme : f \in AdminFields /\ SP!Raw(f) = AdminTheme[f]
<1>1. DOMAIN Options = {"layout", "colorMode", "contentCompact", "transitionName",
         "appPreferencesButtonPosition", "headerMode", "appLocale", "appTimezone",
         "breadcrumbStyleType", "appWatermarkContent"}
  BY DEF Options, Picked, Selected, Segmented, Texts, Joined
<1>2. DOMAIN AdminTheme = {"themeBuiltinType", "themeColorPrimary"}
  BY DEF AdminTheme
<1>3. /\ DOMAIN Options \cap Toggles = {} /\ DOMAIN Options \cap AdminNumbers = {}
      /\ AdminNumbers \cap Toggles = {}
  BY <1>1 DEF Toggles, OnDefaults, OffDefaults, AdminNumbers
<1>4. /\ DOMAIN AdminTheme \cap Toggles = {} /\ DOMAIN AdminTheme \cap AdminNumbers = {}
      /\ DOMAIN AdminTheme \cap DOMAIN Options = {}
  BY <1>1, <1>2 DEF Toggles, OnDefaults, OffDefaults, AdminNumbers
<1>5. \A f \in Toggles : AdminDom[f] = BOOLEAN
  BY DEF AdminDom, Joined
<1>6. \A f \in DOMAIN Options : AdminDom[f] = Options[f]
  BY <1>3 DEF AdminDom, Joined
<1>7. \A f \in DOMAIN AdminTheme : AdminDom[f] = AdminTheme[f]
  BY <1>4 DEF AdminDom, Joined
<1> QED BY <1>3, <1>4, <1>5, <1>6, <1>7 DEF SP!Raw, AdminFields

\* The store's assumption about its constants is the one made of these
\* preferences.
LEMMA DefaultsValid == SP!DefaultsAreValid
  BY DefaultsAssumption DEF SP!DefaultsAreValid, Store!DefaultsAreValid

\* A patch hands each field a value of its kind.
Proper(patch) == \A f \in DOMAIN patch : f \in AdminFields => patch[f] \in SP!Raw(f)

\* Settled preferences hold a value of the right kind in every field.
LEMMA SettledValues ==
  ASSUME SP!Settled
  PROVE  /\ \A f \in Toggles : prefs[f] \in BOOLEAN
         /\ \A f \in DOMAIN Options : prefs[f] \in Options[f]
         /\ \A f \in AdminNumbers : prefs[f] \in Int
  BY RawValues DEF SP!Settled

\* A patch of one field.
LEMMA OnlyIsProper ==
  ASSUME NEW f, NEW v, f \in AdminFields => v \in SP!Raw(f)
  PROVE  Proper(Only(f, v))
  BY DEF Proper, Only

\* What the switches of the sheet hand over (preferences-sections.tsx).
LEMMA TogglePatchIsProper ==
  ASSUME SP!Settled, NEW f \in Toggles
  PROVE  Proper(TogglePatch(prefs, f))
<1>1. /\ \A g \in Toggles : prefs[g] \in BOOLEAN /\ SP!Raw(g) = BOOLEAN
      /\ SP!Raw("appWatermarkContent") = Options["appWatermarkContent"]
      /\ prefs["appWatermarkContent"] \in Options["appWatermarkContent"]
  <2>1. "appWatermarkContent" \in DOMAIN Options
    BY DEF Options, Picked, Selected, Segmented, Texts, Joined
  <2> QED BY <2>1, RawValues, SettledValues
<1>2. Options["appWatermarkContent"] = {"", "name", "other"}
  BY DEF Options, Picked, Selected, Segmented, Texts, Joined
<1>3. /\ {"themeSemiDarkSidebar", "themeSemiDarkSidebarSub", "appWatermark", "sidebarCollapsedButton",
          "sidebarFixedButton", "transitionEnable", "animationEnable"} \subseteq Toggles
  BY DEF Toggles, OnDefaults, OffDefaults
<1>0. ASSUME NEW patch, DOMAIN patch \subseteq Toggles, \A g \in DOMAIN patch : patch[g] \in BOOLEAN
      PROVE  Proper(patch)
  BY <1>0, <1>1 DEF Proper
<1>4. CASE f = "themeSemiDarkSidebar"
  <2> DEFINE patch == DarkSidebar(prefs, ~prefs[f])
             sub == IF ~prefs[f] THEN prefs.themeSemiDarkSidebarSub ELSE FALSE
  <2>1. sub \in BOOLEAN
    BY <1>1, <1>3, Zenon
  <2>2. patch = [themeSemiDarkSidebar |-> ~prefs[f], themeSemiDarkSidebarSub |-> sub]
    BY DEF DarkSidebar
  <2>3. \A x \in BOOLEAN, y \in BOOLEAN :
          Proper([themeSemiDarkSidebar |-> x, themeSemiDarkSidebarSub |-> y])
    BY <1>1, <1>3 DEF Proper
  <2>4. Proper(patch)
    <3>1. (~prefs[f]) \in BOOLEAN
      OBVIOUS
    <3> HIDE DEF sub, patch
    <3> QED BY <2>1, <2>2, <2>3, <3>1, Zenon
  <2>5. TogglePatch(prefs, f) = DarkSidebar(prefs, ~prefs[f])
    BY <1>4 DEF TogglePatch
  <2> QED BY <2>4, <2>5
<1>5. CASE f = "appWatermark"
  <2> DEFINE patch == Watermark(prefs, ~prefs[f])
             texts == {"", "name", "other"}
             text  == IF prefs[f] THEN "" ELSE IF prefs.appWatermarkContent = "" THEN "name"
                      ELSE prefs.appWatermarkContent
  <2>1. text \in texts
    <3>1. prefs.appWatermarkContent \in texts
      BY <1>1, <1>2
    <3> QED BY <3>1
  <2>2. patch = [appWatermark |-> ~prefs[f], appWatermarkContent |-> text]
    BY DEF Watermark
  <2>3. \A x \in BOOLEAN, y \in texts : Proper([appWatermark |-> x, appWatermarkContent |-> y])
    <3>1. SP!Raw("appWatermark") = BOOLEAN /\ SP!Raw("appWatermarkContent") = texts
      BY <1>1, <1>2, <1>3
    <3> HIDE DEF texts
    <3> QED BY <3>1 DEF Proper
  <2>4. Proper(patch)
    <3>1. (~prefs[f]) \in BOOLEAN
      OBVIOUS
    <3> HIDE DEF text, texts, patch
    <3> QED BY <2>1, <2>2, <2>3, <3>1, Zenon
  <2>5. TogglePatch(prefs, f) = Watermark(prefs, ~prefs[f])
    BY <1>5 DEF TogglePatch
  <2> QED BY <2>4, <2>5
<1>6. CASE f \in {"sidebarCollapsedButton", "sidebarFixedButton"}
  <2> DEFINE patch == SidebarButtons(prefs, f)
  <2>1. TogglePatch(prefs, f) = patch
    BY <1>6 DEF TogglePatch
  <2>2. DOMAIN patch \subseteq Toggles
    BY <1>3 DEF SidebarButtons
  <2>3. \A g \in DOMAIN patch : patch[g] \in BOOLEAN
    <3> SUFFICES ASSUME NEW g \in {"sidebarCollapsedButton", "sidebarFixedButton"}
                 PROVE  patch[g] \in BOOLEAN
      BY DEF SidebarButtons
    <3>1. patch[g] = IF g = f THEN ~prefs[g] ELSE prefs[g]
      BY DEF SidebarButtons
    <3>2. prefs[g] \in BOOLEAN /\ (~prefs[g]) \in BOOLEAN
      BY <1>1, <1>3
    <3> QED BY <3>1, <3>2, Zenon
  <2> QED BY <1>0, <2>1, <2>2, <2>3
<1>7. CASE f = "transitionEnable"
  <2> DEFINE patch == [g \in {"transitionEnable", "animationEnable"} |-> ~prefs[f]]
  <2>1. TogglePatch(prefs, f) = patch
    BY <1>7 DEF TogglePatch
  <2>2. DOMAIN patch \subseteq Toggles
    BY <1>3
  <2>3. \A g \in DOMAIN patch : patch[g] \in BOOLEAN
    BY Zenon
  <2> QED BY <1>0, <2>1, <2>2, <2>3
<1>8. CASE f \notin {"themeSemiDarkSidebar", "appWatermark", "sidebarCollapsedButton",
                     "sidebarFixedButton", "transitionEnable"}
  <2>1. TogglePatch(prefs, f) = Only(f, ~prefs[f])
    BY <1>8 DEF TogglePatch
  <2>2. \A v \in BOOLEAN : Proper(Only(f, v))
    BY <1>1, OnlyIsProper
  <2>3. Proper(Only(f, ~prefs[f]))
    <3>1. (~prefs[f]) \in BOOLEAN
      OBVIOUS
    <3> QED BY <2>2, <3>1, Zenon
  <2> QED BY <2>1, <2>3
<1> QED BY <1>4, <1>5, <1>6, <1>7, <1>8

\* What the number controls hand over: always a number (NumberField).
LEMMA NumberPatchIsProper ==
  ASSUME SP!Settled, NEW f \in AdminNumbers, NEW patch \in NumberPatches(prefs, f)
  PROVE  Proper(patch)
<1>1. prefs[f] \in Int /\ SP!Raw(f) = Int
  BY RawValues, SettledValues
<1>2. \A v \in Int : Proper(Only(f, v))
  BY <1>1, OnlyIsProper
<1>3. AdminLow[f] \in Int /\ ControlHigh(f) \in Int /\ Step(f) \in Int
  BY DEF AdminNumbers, AdminLow, AdminHigh, ControlHigh, Step
<1> DEFINE within(v) == IF v < AdminLow[f] THEN AdminLow[f] ELSE IF v > ControlHigh(f) THEN ControlHigh(f) ELSE v
<1>4. CASE f = "themeRadius"
  <2>1. PICK v \in Radii : patch = Only(f, v)
    BY <1>4 DEF NumberPatches
  <2> QED BY <1>2, <2>1 DEF Radii
<1>5. CASE f = "themeFontSize"
  <2>1. patch = Only(f, prefs[f] - 1) \/ patch = Only(f, prefs[f] + 1)
    BY <1>5 DEF NumberPatches
  <2> QED BY <1>1, <1>2, <2>1
<1>6. CASE f # "themeRadius" /\ f # "themeFontSize"
  <2>1. PICK v \in {prefs[f] - Step(f), prefs[f] + Step(f)} \cup Typed : patch = Only(f, within(v))
    BY <1>6 DEF NumberPatches
  <2>2. v \in Int
    <3>1. prefs[f] - Step(f) \in Int /\ prefs[f] + Step(f) \in Int
      BY <1>1, <1>3
    <3> QED BY <2>1, <3>1, TypedAssumption
  <2>3. within(v) \in Int
    BY <1>3, <2>2
  <2> QED BY <1>2, <2>1, <2>3
<1> QED BY <1>4, <1>5, <1>6

\* Whatever control of the sheet is used (preferences-sections.tsx).
LEMMA SheetPatchIsProper ==
  ASSUME SP!Settled, NEW F, NEW patch \in SheetPatches(prefs, F)
  PROVE  Proper(patch)
<1> DEFINE live == F \ Disabled(prefs)
<1>1. \/ \E f \in live \cap Toggles : patch = TogglePatch(prefs, f)
      \/ \E f \in live \cap DOMAIN Options : \E v \in Options[f] : patch = Only(f, v)
      \/ \E f \in live \cap AdminNumbers : patch \in NumberPatches(prefs, f)
      \/ patch \in ThemePatches
  <2>1. \/ patch \in SwitchPatches(prefs, live) \/ patch \in PickerPatches(live)
        \/ patch \in RangePatches(prefs, live) \/ patch \in ColourPatches(live)
    BY DEF SheetPatches
  <2> HIDE DEF live
  <2> QED BY <2>1, Zenon DEF SwitchPatches, PickerPatches, RangePatches, ColourPatches
<1>2. CASE \E f \in live \cap Toggles : patch = TogglePatch(prefs, f)
  BY <1>2, TogglePatchIsProper
<1>3. CASE \E f \in live \cap DOMAIN Options : \E v \in Options[f] : patch = Only(f, v)
  BY <1>3, OnlyIsProper, RawValues
<1>4. CASE \E f \in live \cap AdminNumbers : patch \in NumberPatches(prefs, f)
  BY <1>4, NumberPatchIsProper
<1>5. CASE patch \in ThemePatches
  <2>1. /\ SP!Raw("themeBuiltinType") = BuiltinThemes
        /\ SP!Raw("themeColorPrimary") = AdminTheme.themeColorPrimary
    <3>1. "themeBuiltinType" \in DOMAIN AdminTheme /\ "themeColorPrimary" \in DOMAIN AdminTheme
          /\ AdminTheme["themeBuiltinType"] = BuiltinThemes
      BY DEF AdminTheme
    <3> QED BY <3>1, RawValues
  <2>2. CASE \E theme \in BuiltinThemes : patch = Only("themeBuiltinType", theme)
    BY <2>1, <2>2, OnlyIsProper
  <2>3. CASE \E colour \in AdminTheme.themeColorPrimary :
               patch = [themeBuiltinType |-> "custom", themeColorPrimary |-> colour]
    BY <2>1, <2>3 DEF Proper, BuiltinThemes
  <2> QED BY <1>5, <2>2, <2>3 DEF ThemePatches
<1> QED BY <1>1, <1>2, <1>3, <1>4, <1>5

(***************************************************************************)
(* What a step of the shell can do to the tabs, the preferences and the    *)
(* lock.                                                                   *)
(***************************************************************************)

Place == <<path, session, lockVars, scenario>>

\* Neither the tabs nor the preferences nor the lock are touched.
Still == UNCHANGED <<tabVars, prefVars, Place>>

\* Preferences are set or reset, and the stored tabs follow `tabbarPersist'.
Changes ==
  /\ Store!resetPreferences \/ \E patch : Proper(patch) /\ Store!setPreferences(patch)
  /\ PersistEffect(prefs')
  /\ UNCHANGED Place

\* A page is shown.
Visits ==
  /\ Mounted
  /\ \E p \in Menu \cup {Browser} : Go(p, current)
  /\ UNCHANGED <<prefVars, session, lockVars, scenario>>

\* The tab bar is used: tabs are chosen, closed, pinned or dragged.
Arranges ==
  \/ ClickTab \/ CloseTab \/ CloseLeftTabs \/ CloseRightTabs \/ CloseOtherTabs \/ CloseAllTabs
  \/ ToggleTabPin \/ DropTab

\* A patch by a control is a change.
LEMMA SetChanges ==
  ASSUME NEW patch, Proper(patch), Set(patch), UNCHANGED Place
  PROVE  Changes
  BY DEF Set, Changes

\* The controls outside the sheet hand over proper patches (base-layout.tsx).
LEMMA ShellPatches ==
  ASSUME SP!Settled
  PROVE  /\ \A v \in ThemeModes : Proper(Only("colorMode", v))
         /\ \A v \in Options.appLocale : Proper(Only("appLocale", v))
         /\ \A v \in Options.appTimezone : Proper(Only("appTimezone", v))
         /\ \A v \in BOOLEAN : Proper(Only("sidebarCollapsed", v))
         /\ prefs.sidebarCollapsed \in BOOLEAN
<1>1. /\ {"colorMode", "appLocale", "appTimezone"} \subseteq DOMAIN Options
      /\ Options["colorMode"] = ThemeModes
  BY DEF Options, Picked, Selected, Segmented, Texts, Joined
<1>2. "sidebarCollapsed" \in Toggles
  BY DEF Toggles, OffDefaults
<1>3. /\ SP!Raw("colorMode") = ThemeModes
      /\ SP!Raw("appLocale") = Options["appLocale"]
      /\ SP!Raw("appTimezone") = Options["appTimezone"]
      /\ SP!Raw("sidebarCollapsed") = BOOLEAN
  BY <1>1, <1>2, RawValues
<1>4. \A f, v : v \in SP!Raw(f) => Proper(Only(f, v))
  BY OnlyIsProper
<1> QED BY <1>2, <1>3, <1>4, SettledValues

\* Every step of the shell is of one of these kinds.
LEMMA StepKinds ==
  ASSUME SP!Settled, [Next]_vars
  PROVE  \/ Still \/ Changes \/ Visits \/ Arranges \/ WriteTabs
         \/ LockScreen \/ UnlockScreen \/ LoggedOut \/ SessionLost \/ SessionRenewed
         \/ LogIn \/ Reload \/ ReloadLogin
<1>1. ASSUME NEW p \in Menu,
             \/ NavigateFromSidebar(p) \/ NavigateFromMixedSidebar(p)
             \/ NavigateFromHeader(p) \/ NavigateFromSearch(p)
      PROVE  Visits
  BY <1>1 DEF NavigateFromSidebar, NavigateFromMixedSidebar, NavigateFromHeader, NavigateFromSearch,
              MenuNode, MenuUnchanged, Usable, Visits
<1>2. ASSUME NEW p \in Menu \cup {Browser}, FollowLink(p) PROVE Visits
  BY <1>2 DEF FollowLink, Usable, Visits
<1>3. CASE ChangePreference
  <2>1. PICK patch \in SheetPatches(prefs, scenario.fields) : Set(patch)
    BY <1>3 DEF ChangePreference
  <2>2. UNCHANGED Place
    BY <1>3 DEF ChangePreference, ShellUnchanged, Place
  <2> QED BY <2>1, <2>2, SheetPatchIsProper, SetChanges
<1>4. CASE ResetPreferences
  BY <1>4 DEF ResetPreferences, ShellUnchanged, Place, Changes
<1>5. CASE ToggleTheme
  <2>1. UNCHANGED Place
    BY <1>5 DEF ToggleTheme, HeaderTool, ShellUnchanged, Place
  <2>2. \E v \in ThemeModes : Set(Only("colorMode", v))
    BY <1>5 DEF ToggleTheme, ThemeModes
  <2> QED BY <2>1, <2>2, ShellPatches, SetChanges
<1>6. CASE ChooseLocale
  <2>1. UNCHANGED Place
    BY <1>6 DEF ChooseLocale, HeaderTool, ShellUnchanged, Place
  <2>2. \E v \in Options.appLocale : Set(Only("appLocale", v))
    BY <1>6 DEF ChooseLocale
  <2> QED BY <2>1, <2>2, ShellPatches, SetChanges
<1>7. CASE ChooseTimezone
  <2>1. UNCHANGED Place
    BY <1>7 DEF ChooseTimezone, HeaderTool, ShellUnchanged, Place
  <2>2. \E v \in Options.appTimezone : Set(Only("appTimezone", v))
    BY <1>7 DEF ChooseTimezone
  <2> QED BY <2>1, <2>2, ShellPatches, SetChanges
<1>8. CASE ToggleSidebar
  <2>1. UNCHANGED Place
    BY <1>8 DEF ToggleSidebar, ShellUnchanged, Place
  <2>2. CASE mobile
    BY <1>8, <2>1, <2>2 DEF ToggleSidebar, Still
  <2>3. CASE ~mobile
    <3>1. Set(Only("sidebarCollapsed", ~prefs.sidebarCollapsed))
      BY <1>8, <2>3 DEF ToggleSidebar
    <3>2. \E v \in BOOLEAN : Set(Only("sidebarCollapsed", v))
      <4>1. (~prefs.sidebarCollapsed) \in BOOLEAN
        OBVIOUS
      <4> QED BY <3>1, <4>1, Zenon
    <3> QED BY <2>1, <3>2, ShellPatches, SetChanges
  <2> QED BY <2>2, <2>3
<1>9. CASE EnterSidebar \/ LeaveSidebar
  <2>1. UNCHANGED Place
    BY <1>9 DEF EnterSidebar, LeaveSidebar, ShellUnchanged, Place
  <2>2. \E v \in BOOLEAN : Set(Only("sidebarCollapsed", v))
    BY <1>9, Zenon DEF EnterSidebar, LeaveSidebar
  <2> QED BY <2>1, <2>2, ShellPatches, SetChanges
<1>10. CASE ResizeSidebar
  <2>1. UNCHANGED Place
    BY <1>10 DEF ResizeSidebar, ShellUnchanged, Place
  <2>2. \E patch \in NumberPatches(prefs, "sidebarWidth") : Set(patch)
    BY <1>10 DEF ResizeSidebar
  <2>3. "sidebarWidth" \in AdminNumbers
    BY DEF AdminNumbers
  <2> QED BY <2>1, <2>2, <2>3, NumberPatchIsProper, SetChanges
<1>11. CASE ClearCacheAndLogout
  BY <1>11 DEF ClearCacheAndLogout, Place, Changes
<1>12. CASE CloseDrawer \/ ToggleMaximize \/ ResizeWindow \/ OpenPreferences \/ CloseOverlay
            \/ PressEscape \/ Logout
  BY <1>12 DEF CloseDrawer, ToggleMaximize, ResizeWindow, OpenPreferences, CloseOverlay,
               PressEscape, Logout, ShellUnchanged, Place, Still
<1>13. CASE OpenSearch \/ OpenLock
  BY <1>13 DEF OpenSearch, OpenLock, Offered, ShellUnchanged, Place, Still
<1>14. CASE UNCHANGED vars
  BY <1>14 DEF vars, Place, Still
<1> QED BY <1>1, <1>2, <1>3, <1>4, <1>5, <1>6, <1>7, <1>8, <1>9, <1>10, <1>11, <1>12, <1>13, <1>14
        DEF Next, Arranges

\* A control's patch is one the store takes: what it names beside the fields has
\* no effect (normalizePreferences).
LEMMA SetIsStoreStep ==
  ASSUME NEW patch, Proper(patch), Store!setPreferences(patch)
  PROVE  SP!PreferencesNext
<1> DEFINE S == {f \in DOMAIN patch : f \in AdminFields}
           known == [f \in S |-> patch[f]]
<1>1. SP!setPreferences(patch)
  BY DEF SP!setPreferences, Store!setPreferences, SP!normalizePreferences, Store!normalizePreferences,
         SP!NormalValue, Store!NormalValue, SP!Clamp, Store!Clamp,
         SP!diffFromDefaultPreferences, Store!diffFromDefaultPreferences
<1>2. SP!normalizePreferences(known, prefs) = SP!normalizePreferences(patch, prefs)
  BY DEF SP!normalizePreferences
<1>3. SP!setPreferences(known)
  BY <1>1, <1>2 DEF SP!setPreferences
<1>4. S \in SUBSET AdminFields /\ \A f \in S : known[f] \in SP!Raw(f)
  BY DEF Proper
<1>5. known \in [S -> UNION {SP!Raw(f) : f \in S}]
  BY <1>4
<1> QED BY <1>3, <1>4, <1>5 DEF SP!PreferencesNext

\* Every step of the shell is one of the preference store, or leaves it alone.
LEMMA StoreSteps == SP!Settled /\ [Next]_vars => [SP!PreferencesNext]_(SP!prefVars)
<1> SUFFICES ASSUME SP!Settled, [Next]_vars PROVE [SP!PreferencesNext]_(SP!prefVars)
  OBVIOUS
<1>1. ASSUME UNCHANGED prefVars PROVE UNCHANGED SP!prefVars
  BY <1>1 DEF prefVars, SP!prefVars
<1>2. ASSUME Store!resetPreferences PROVE SP!PreferencesNext
  BY <1>2 DEF Store!resetPreferences, SP!resetPreferences, SP!diffFromDefaultPreferences,
              Store!diffFromDefaultPreferences, SP!PreferencesNext
<1>3. ASSUME Store!ReloadPreferences PROVE SP!PreferencesNext
  <2>1. SP!ReloadPreferences
    BY <1>3 DEF Store!ReloadPreferences, SP!ReloadPreferences, Store!ReadStored, SP!ReadStored,
                SP!normalizePreferences, Store!normalizePreferences, SP!NormalValue,
                Store!NormalValue, SP!Clamp, Store!Clamp
  <2> QED BY <2>1 DEF SP!PreferencesNext
<1>4. ASSUME Changes PROVE SP!PreferencesNext
  BY <1>2, <1>4, SetIsStoreStep DEF Changes
<1>5. ASSUME Arranges \/ WriteTabs \/ LockScreen \/ UnlockScreen \/ LoggedOut \/ SessionLost
             \/ SessionRenewed \/ LogIn
      PROVE  UNCHANGED prefVars
  BY <1>5 DEF Arranges, ClickTab, CloseTab, CloseLeftTabs, CloseRightTabs, CloseOtherTabs, CloseAllTabs,
              ToggleTabPin, DropTab, TabUnchanged, WriteTabs, LockScreen, UnlockScreen, LoggedOut,
              SessionLost, SessionRenewed, LogIn
<1>6. ASSUME Reload \/ ReloadLogin PROVE Store!ReloadPreferences
  BY <1>6 DEF Reload, ReloadLogin
<1>7. ASSUME Still \/ Visits PROVE UNCHANGED prefVars
  BY <1>7 DEF Still, Visits
<1> QED BY StepKinds, <1>1, <1>3, <1>4, <1>5, <1>6, <1>7

\* Every step leaves the preferences settled.
LEMMA SettledKept == SP!Settled /\ [Next]_vars => SP!Settled'
  BY StoreSteps, DefaultsValid, SP!SettledInductive

(***************************************************************************)
(* The lock.                                                               *)
(***************************************************************************)

\* A screen that must stay locked is locked in session storage, and on display
\* wherever the shell is.
LockInv ==
  /\ locked \in BOOLEAN /\ storedLock \in BOOLEAN /\ mustUnlock \in BOOLEAN
  /\ mustUnlock => storedLock
  /\ StaysLocked

\* Every step keeps what must stay locked locked (lockScreen, unlockScreen).
LEMMA LockKept == SP!Settled /\ LockInv /\ [Next]_vars => LockInv'
<1> SUFFICES ASSUME SP!Settled, LockInv, [Next]_vars PROVE LockInv'
  OBVIOUS
<1>1. ASSUME UNCHANGED lockVars, Mounted' => Mounted PROVE LockInv'
  BY <1>1 DEF LockInv, StaysLocked, lockVars
<1>2. CASE Still \/ Changes
  BY <1>1, <1>2 DEF Still, Changes, Place, Mounted
<1>3. CASE Visits
  BY <1>1, <1>3 DEF Visits
<1>4. CASE Arranges
  <2>1. UNCHANGED lockVars /\ Mounted
    BY <1>4 DEF Arranges, ClickTab, CloseTab, CloseLeftTabs, CloseRightTabs, CloseOtherTabs,
                CloseAllTabs, ToggleTabPin, DropTab, TabUnchanged, TabBar, Usable
  <2> QED BY <1>1, <2>1
<1>5. CASE WriteTabs
  BY <1>1, <1>5 DEF WriteTabs, Mounted
<1>6. CASE LockScreen \/ UnlockScreen
  BY <1>6 DEF LockInv, StaysLocked, LockScreen, UnlockScreen
<1>7. CASE LoggedOut
  BY <1>7 DEF LockInv, StaysLocked, LoggedOut
<1>8. CASE SessionLost
  BY <1>1, <1>8 DEF SessionLost, Mounted
<1>9. CASE SessionRenewed
  BY <1>1, <1>9 DEF SessionRenewed, ShellUnchanged, Mounted
<1>10. CASE LogIn
  BY <1>10 DEF LockInv, StaysLocked, LogIn, Mount
<1>11. CASE Reload
  BY <1>11 DEF LockInv, StaysLocked, Reload, Mount
<1>12. CASE ReloadLogin
  BY <1>12 DEF LockInv, StaysLocked, ReloadLogin, Mounted
<1> QED BY StepKinds, <1>2, <1>3, <1>4, <1>5, <1>6, <1>7, <1>8, <1>9, <1>10, <1>11, <1>12

(***************************************************************************)
(* The layout.                                                             *)
(***************************************************************************)

LayoutTyped ==
  /\ open \subseteq {"search", "lock", "preferences"}
  /\ \A flag \in {maximized, mobile, openMobile, hovered, leaving} : flag \in BOOLEAN

\* Every step keeps the flags and the overlays within their types.
LEMMA LayoutKept == LayoutTyped /\ [Next]_vars => LayoutTyped'
<1> SUFFICES ASSUME LayoutTyped, [Next]_vars PROVE LayoutTyped'
  OBVIOUS
<1> USE DEF LayoutTyped
<1>1. ASSUME UNCHANGED <<open, layoutVars, leaving>> PROVE LayoutTyped'
  BY <1>1 DEF layoutVars
<1>2. ASSUME NEW p \in Menu,
             \/ NavigateFromSidebar(p) \/ NavigateFromMixedSidebar(p)
             \/ NavigateFromHeader(p) \/ NavigateFromSearch(p)
      PROVE  LayoutTyped'
  BY <1>2 DEF NavigateFromSidebar, NavigateFromMixedSidebar, NavigateFromHeader, NavigateFromSearch,
              MenuUnchanged, layoutVars
<1>3. ASSUME NEW p \in Menu \cup {Browser}, FollowLink(p) PROVE LayoutTyped'
  BY <1>1, <1>3 DEF FollowLink
<1>4. CASE Arranges
  BY <1>1, <1>4 DEF Arranges, ClickTab, CloseTab, CloseLeftTabs, CloseRightTabs, CloseOtherTabs,
                    CloseAllTabs, ToggleTabPin, DropTab, TabUnchanged
<1>5. CASE \/ WriteTabs \/ ChangePreference \/ ResetPreferences \/ ToggleTheme \/ ChooseLocale
           \/ ChooseTimezone \/ ResizeSidebar \/ SessionRenewed
  BY <1>1, <1>5 DEF WriteTabs, ChangePreference, ResetPreferences, ToggleTheme, ChooseLocale,
                    ChooseTimezone, HeaderTool, ResizeSidebar, SessionRenewed, ShellUnchanged
<1>6. CASE \/ ToggleSidebar \/ CloseDrawer \/ EnterSidebar \/ LeaveSidebar \/ ToggleMaximize
           \/ ResizeWindow
  BY <1>6 DEF ToggleSidebar, CloseDrawer, EnterSidebar, LeaveSidebar, ToggleMaximize, ResizeWindow,
              ShellUnchanged
<1>7. CASE \/ OpenPreferences \/ OpenSearch \/ OpenLock \/ CloseOverlay \/ PressEscape
  BY <1>7 DEF OpenPreferences, OpenSearch, OpenLock, Offered, CloseOverlay, PressEscape,
              ShellUnchanged, layoutVars
<1>8. CASE \/ LockScreen \/ UnlockScreen \/ Logout \/ ClearCacheAndLogout \/ LoggedOut \/ SessionLost
  BY <1>8 DEF LockScreen, UnlockScreen, Logout, ClearCacheAndLogout, LoggedOut, SessionLost, layoutVars
<1>9. CASE LogIn \/ Reload \/ ReloadLogin
  BY <1>9 DEF LogIn, Reload, ReloadLogin, Mount
<1>10. CASE UNCHANGED vars
  BY <1>1, <1>10 DEF vars
<1> QED BY <1>2, <1>3, <1>4, <1>5, <1>6, <1>7, <1>8, <1>9, <1>10 DEF Next, Arranges

(***************************************************************************)
(* The tabs and the page shown.                                            *)
(***************************************************************************)

\* The store of tabs is coherent, so is what it has stored, and the page of the
\* menu that is shown is the active tab.
TabInv ==
  /\ Coherent(current)
  /\ storedTabs \in Stored \cup {None}
  /\ writeTimer \in BOOLEAN /\ session \in BOOLEAN
  /\ path \in Menu \cup {Browser, Login}
  /\ scenario \in Scenarios
  /\ Mounted /\ path \in Menu /\ tabs # <<>> => activeKey = path
  /\ StoredAsChosen

\* A coherent state of the store may be stored.
LEMMA CoherentIsStorable ==
  ASSUME NEW s, Coherent(s)
  PROVE  s \in Stored
<1>1. /\ s = [tabs |-> s.tabs, activeKey |-> s.activeKey] /\ s.tabs \in Seq(TabRecord)
      /\ s.activeKey \in Menu \cup {None}
  BY TabFacts DEF Coherent
<1> QED BY <1>1 DEF Stored

\* A page of the menu gets a tab, which is the active one.
LEMMA ShownPageHasTab ==
  ASSUME NEW s, Coherent(s), NEW p
  PROVE  /\ Coherent(ShowPath(s, p))
         /\ p \in Menu => ShowPath(s, p).activeKey = p
<1>1. CASE p \in Menu
  <2>1. Tab(p, p = DefaultPath) \in TabRecord /\ Tab(p, p = DefaultPath).key = p
    BY <1>1 DEF Tab, TabRecord
  <2>2. /\ Coherent(openTab(s, Tab(p, p = DefaultPath)))
        /\ openTab(s, Tab(p, p = DefaultPath)).activeKey = p
    BY <2>1, OpenTab DEF Coherent
  <2> QED BY <1>1, <2>2 DEF ShowPath
<1>2. CASE p \notin Menu
  BY <1>2 DEF ShowPath
<1> QED BY <1>1, <1>2

\* The store becomes s: the tabs are written later or what was stored is gone.
LEMMA TabsBecomeKeeps ==
  ASSUME TabInv, NEW s, Coherent(s), TabsBecome(s), UNCHANGED <<prefs, scenario>>,
         session' \in BOOLEAN, path' \in Menu \cup {Browser, Login},
         Mounted' /\ path' \in Menu /\ s.tabs # <<>> => s.activeKey = path'
  PROVE  TabInv'
<1>1. tabs' = s.tabs /\ activeKey' = s.activeKey
  BY DEF TabsBecome
<1>2. Coherent(current)'
  <2>1. current' = s
    BY <1>1 DEF current, Coherent
  <2> QED BY <2>1 DEF Coherent, Unique, Keys, TabRecord
<1>3. /\ writeTimer' \in BOOLEAN
      /\ storedTabs' = storedTabs \/ storedTabs' = None
      /\ StoredAsChosen'
  BY DEF TabsBecome, StoredAsChosen
<1> QED BY <1>1, <1>2, <1>3 DEF TabInv, Stored, TabRecord

\* Nothing of the store changes, and the shell is where it was, if mounted.
LEMMA TabsKept ==
  ASSUME TabInv, UNCHANGED <<tabVars, prefs, scenario>>,
         session' \in BOOLEAN, path' \in Menu \cup {Browser, Login},
         Mounted' => Mounted /\ (path' \in Menu => path' = path)
  PROVE  TabInv'
<1>1. UNCHANGED <<tabs, activeKey, storedTabs, writeTimer>>
  BY DEF tabVars
<1>2. UNCHANGED current
  BY <1>1 DEF current
<1>3. StoredAsChosen'
  BY <1>1, <1>2 DEF TabInv, StoredAsChosen
<1> QED BY <1>1, <1>2, <1>3 DEF TabInv, Coherent, Unique, Keys, TabRecord, Stored

\* A page is shown over the store s, which is as it was or has p active.
LEMMA GoKeeps ==
  ASSUME TabInv, Mounted, NEW s, Coherent(s), NEW p \in Menu \cup {Browser}, Go(p, s),
         s = current \/ s.activeKey = p, UNCHANGED <<prefs, session, scenario>>
  PROVE  TabInv'
<1>1. path' = p /\ session' \in BOOLEAN /\ path' \in Menu \cup {Browser, Login}
  BY DEF Go, TabInv
<1>2. CASE p # path /\ p \in Menu
  <2>1. TabsBecome(ShowPath(s, p))
    BY <1>2 DEF Go
  <2> QED BY <1>1, <1>2, <2>1, ShownPageHasTab, TabsBecomeKeeps
<1>3. CASE ~ (p # path /\ p \in Menu) /\ s # current
  <2>1. TabsBecome(s)
    BY <1>3 DEF Go
  <2> QED BY <1>1, <1>3, <2>1, TabsBecomeKeeps
<1>4. CASE ~ (p # path /\ p \in Menu) /\ s = current
  <2>1. UNCHANGED tabVars
    BY <1>4 DEF Go
  <2> QED BY <1>1, <1>4, <2>1, TabsKept
<1> QED BY <1>2, <1>3, <1>4

\* The store has become s, and the page of its active tab is shown.
LEMMA SyncKeeps ==
  ASSUME TabInv, Mounted, NEW s, Coherent(s), syncActiveTab(s),
         UNCHANGED <<prefs, session, scenario>>
  PROVE  TabInv'
<1>1. CASE s.activeKey = None
  <2>1. TabsBecome(s) /\ path' = path
    BY <1>1 DEF syncActiveTab
  <2>2. s.tabs = <<>>
    BY <1>1, TabFacts, PathsAssumption DEF Coherent
  <2>3. session' \in BOOLEAN /\ path' \in Menu \cup {Browser, Login}
    BY <2>1 DEF TabInv
  <2> QED BY <2>1, <2>2, <2>3, TabsBecomeKeeps
<1>2. CASE s.activeKey # None
  <2>1. Go(s.activeKey, s)
    BY <1>2 DEF syncActiveTab
  <2>2. s.activeKey \in Menu
    BY <1>2, TabFacts DEF Coherent
  <2> QED BY <2>1, <2>2, GoKeeps
<1> QED BY <1>1, <1>2

\* The switch of `tabbarPersist' decides over what is stored.
LEMMA PersistKeeps ==
  ASSUME TabInv, prefs.tabbarPersist \in BOOLEAN, prefs'.tabbarPersist \in BOOLEAN,
         PersistEffect(prefs'), UNCHANGED <<path, session, scenario>>
  PROVE  TabInv'
<1>1. /\ UNCHANGED <<tabs, activeKey, writeTimer>>
      /\ storedTabs' = IF prefs'.tabbarPersist = prefs.tabbarPersist THEN storedTabs
                       ELSE IF prefs'.tabbarPersist THEN current ELSE None
  BY DEF PersistEffect
<1>2. UNCHANGED <<current, Mounted>>
  BY <1>1 DEF current, Mounted
<1>3. storedTabs' \in Stored \cup {None}
  BY <1>1, CoherentIsStorable DEF TabInv
<1>4. StoredAsChosen'
  <2>1. CASE prefs'.tabbarPersist = prefs.tabbarPersist
    BY <1>1, <1>2, <2>1 DEF TabInv, StoredAsChosen
  <2>2. CASE prefs'.tabbarPersist # prefs.tabbarPersist
    BY <1>1, <1>2, <2>2 DEF StoredAsChosen
  <2> QED BY <2>1, <2>2
<1> QED BY <1>1, <1>2, <1>3, <1>4 DEF TabInv, Coherent, Unique, Keys, TabRecord, Stored

\* The shell is mounted over coherent tabs.
LEMMA MountKeeps ==
  ASSUME NEW s, Coherent(s), NEW p \in Menu \cup {Browser, Login}, NEW persist,
         persist \in BOOLEAN, persist = prefs'.tabbarPersist, Mount(s, p, persist),
         session' \in BOOLEAN, scenario' \in Scenarios
  PROVE  TabInv'
<1> DEFINE merged == resolveInitialWorkspaceTabs(s.tabs)
           first == [tabs |-> merged, activeKey |-> resolveInitialActiveKey(s, merged, p)]
           shown == ShowPath(first, p)
<1>1. merged \in Seq(TabRecord) /\ Unique(merged) /\ merged # <<>>
  BY InitialWorkspaceTabs DEF Coherent
<1>2. Coherent(first)
  <2> HIDE DEF merged
  <2>1. KeyAt(merged, 1) \in Keys(merged)
    BY <1>1, TabFacts
  <2>2. resolveInitialActiveKey(s, merged, p) \in Keys(merged)
    BY <2>1 DEF resolveInitialActiveKey, Active
  <2> QED BY <1>1, <2>2 DEF Coherent
<1> HIDE DEF first, merged
<1>3. Coherent(shown) /\ (p \in Menu => shown.activeKey = p)
  BY <1>2, ShownPageHasTab
<1>4. /\ tabs' = shown.tabs /\ activeKey' = shown.activeKey
      /\ storedTabs' = IF persist THEN shown ELSE None
      /\ writeTimer' = persist
      /\ path' = p
  BY DEF Mount, shown, first, merged
<1> HIDE DEF shown
<1>5. current' = shown
  BY <1>3, <1>4 DEF current, Coherent
<1>6. Coherent(current)'
  BY <1>3, <1>5 DEF Coherent, Unique, Keys, TabRecord
<1>7. (storedTabs \in Stored \cup {None})'
  <2>1. storedTabs' \in Stored \cup {None}
    BY <1>3, <1>4, CoherentIsStorable
  <2> QED BY <2>1 DEF Stored, TabRecord
<1>8. StoredAsChosen'
  BY <1>4, <1>5 DEF StoredAsChosen
<1> QED BY <1>3, <1>4, <1>6, <1>7, <1>8 DEF TabInv

\* The tab bar shows tabs of the store, and a click, a close, a pin or a drag
\* leaves the store coherent.
LEMMA ArrangesKeeps ==
  ASSUME SP!Settled, TabInv, Arranges
  PROVE  TabInv'
<1>1. /\ Coherent(current) /\ tabs \in Seq(TabRecord) /\ current.tabs = tabs
      /\ current.activeKey = activeKey
  BY DEF TabInv, Coherent, current
<1>2. \A i \in DOMAIN visible : visible[i].key \in Keys(tabs) /\ visible[i].key \in Menu
  <2>1. prefs.tabbarMaxCount \in Int
    BY SettledValues DEF AdminNumbers
  <2>2. Keys(visible) \subseteq Keys(tabs)
    BY <1>1, <2>1, VisibleTabs DEF visible
  <2>3. \A i \in DOMAIN visible : visible[i].key \in Keys(visible)
    BY DEF Keys
  <2>4. Keys(tabs) \subseteq Menu
    BY <1>1, TabFacts
  <2> QED BY <2>2, <2>3, <2>4
<1>3. Mounted /\ UNCHANGED <<prefs, session, scenario>>
  BY DEF Arranges, ClickTab, CloseTab, CloseLeftTabs, CloseRightTabs, CloseOtherTabs, CloseAllTabs,
         ToggleTabPin, DropTab, TabUnchanged, TabBar, Usable, prefVars
<1>4. CASE ClickTab
  <2>1. PICK i \in DOMAIN visible : Go(visible[i].key, current)
    BY <1>4 DEF ClickTab
  <2> QED BY <1>1, <1>2, <1>3, <2>1, GoKeeps
<1>5. CASE CloseTab
  <2>1. PICK i \in DOMAIN visible : syncActiveTab(closeTab(current, visible[i].key))
    BY <1>5 DEF CloseTab
  <2> QED BY <1>1, <1>3, <2>1, CloseTabCoherent, SyncKeeps
<1>6. CASE CloseLeftTabs
  <2>1. PICK i \in DOMAIN visible : syncActiveTab(closeLeft(current, visible[i].key))
    BY <1>6 DEF CloseLeftTabs
  <2> QED BY <1>1, <1>3, <2>1, CloseSomeCoherent, SyncKeeps
<1>7. CASE CloseRightTabs
  <2>1. PICK i \in DOMAIN visible : syncActiveTab(closeRight(current, visible[i].key))
    BY <1>7 DEF CloseRightTabs
  <2> QED BY <1>1, <1>3, <2>1, CloseSomeCoherent, SyncKeeps
<1>8. CASE CloseOtherTabs
  <2>1. PICK i \in DOMAIN visible : syncActiveTab(closeOthers(current, visible[i].key))
    BY <1>8 DEF CloseOtherTabs
  <2>2. Coherent(closeOthers(current, visible[i].key))
    BY <1>1, <1>2, CloseSomeCoherent
  <2> QED BY <1>3, <2>1, <2>2, SyncKeeps
<1>9. CASE CloseAllTabs
  <2>1. syncActiveTab(closeAll(current))
    BY <1>9 DEF CloseAllTabs
  <2> QED BY <1>1, <1>3, <2>1, CloseAllCoherent, SyncKeeps
<1>10. CASE ToggleTabPin
  <2>1. PICK i \in DOMAIN visible : TabsBecome(toggleAffix(current, visible[i].key))
    BY <1>10 DEF ToggleTabPin
  <2>2. path' = path
    BY <1>10 DEF ToggleTabPin
  <2> DEFINE s == toggleAffix(current, visible[i].key)
  <2>3. Coherent(s) /\ s.activeKey = activeKey /\ (s.tabs = <<>> <=> tabs = <<>>)
    BY <1>1, ToggleAffixCoherent
  <2> HIDE DEF s
  <2>4. TabsBecome(s)
    BY <2>1 DEF s
  <2> QED BY <1>3, <2>2, <2>3, <2>4, TabsBecomeKeeps DEF TabInv, Mounted
<1>11. CASE DropTab
  <2>1. PICK i \in DOMAIN visible, j \in DOMAIN visible :
          TabsBecome(reorderTabs(current, IndexOf(tabs, visible[i].key), IndexOf(tabs, visible[j].key)))
    BY <1>11 DEF DropTab
  <2>2. path' = path
    BY <1>11 DEF DropTab
  <2> DEFINE s == reorderTabs(current, IndexOf(tabs, visible[i].key), IndexOf(tabs, visible[j].key))
  <2>3. Coherent(s) /\ s.activeKey = activeKey /\ (s.tabs = <<>> <=> tabs = <<>>)
    BY <1>1, ReorderCoherent
  <2> HIDE DEF s
  <2>4. TabsBecome(s)
    BY <2>1 DEF s
  <2> QED BY <1>3, <2>2, <2>3, <2>4, TabsBecomeKeeps DEF TabInv, Mounted
<1> QED BY <1>4, <1>5, <1>6, <1>7, <1>8, <1>9, <1>10, <1>11 DEF Arranges

\* Every step keeps the tabs coherent and the shown page's tab active.
LEMMA TabsInductive == SP!Settled /\ TabInv /\ [Next]_vars => TabInv'
<1> SUFFICES ASSUME SP!Settled, TabInv, [Next]_vars PROVE TabInv'
  OBVIOUS
<1>1. prefs.tabbarPersist \in BOOLEAN /\ prefs'.tabbarPersist \in BOOLEAN
  <2>1. "tabbarPersist" \in Toggles /\ "tabbarPersist" \in AdminFields /\ AdminDom["tabbarPersist"] = BOOLEAN
        /\ "tabbarPersist" \notin AdminNumbers
    BY DEF Toggles, OnDefaults, AdminFields, AdminDom, Joined, AdminNumbers
  <2>2. SP!Settled'
    BY SettledKept
  <2>3. prefs'["tabbarPersist"] \in BOOLEAN
    BY <2>1, <2>2 DEF SP!Settled, SP!Raw
  <2> QED BY <2>1, <2>3, SettledValues
<1>2. Coherent(current) /\ session \in BOOLEAN /\ path \in Menu \cup {Browser, Login} /\ scenario \in Scenarios
  BY DEF TabInv
<1>3. CASE Still
  BY <1>2, <1>3, TabsKept DEF Still, Place, prefVars, Mounted
<1>4. CASE Changes
  BY <1>1, <1>4, PersistKeeps DEF Changes, Place
<1>5. CASE Visits
  BY <1>2, <1>5, GoKeeps DEF Visits, prefVars
<1>6. CASE Arranges
  BY <1>6, ArrangesKeeps
<1>7. CASE WriteTabs
  <2>1. /\ UNCHANGED <<tabs, activeKey, prefs, path, session, scenario, current, Mounted>>
        /\ writeTimer' = FALSE
        /\ storedTabs' = IF prefs.tabbarPersist THEN current ELSE storedTabs
    BY <1>7 DEF WriteTabs, prefVars, current, Mounted
  <2>2. storedTabs' \in Stored \cup {None}
    BY <2>1, CoherentIsStorable DEF TabInv
  <2>3. StoredAsChosen'
    BY <2>1 DEF TabInv, StoredAsChosen
  <2> QED BY <2>1, <2>2, <2>3 DEF TabInv, Coherent, Unique, Keys, TabRecord, Stored
<1>8. CASE LockScreen \/ UnlockScreen
  <2>1. UNCHANGED <<tabVars, prefs, path, session, scenario>>
    BY <1>8 DEF LockScreen, UnlockScreen, prefVars
  <2> QED BY <1>2, <2>1, TabsKept DEF Mounted
<1>9. CASE LoggedOut
  <2>1. /\ TabsBecome(closeAll(current)) /\ path' = Login /\ session' = FALSE
        /\ UNCHANGED <<prefs, scenario>>
    BY <1>9 DEF LoggedOut, prefVars
  <2> QED BY <1>2, <2>1, CloseAllCoherent, TabsBecomeKeeps DEF Mounted
<1>10. CASE SessionLost
  BY <1>10, TabsKept DEF SessionLost, prefVars, Mounted
<1>11. CASE SessionRenewed
  <2>1. UNCHANGED <<prefs, path, session, scenario>> /\ Mounted
    BY <1>11 DEF SessionRenewed, ShellUnchanged, prefVars
  <2>2. CASE path \in Menu
    <3>1. TabsBecome(ShowPath(current, path))
      BY <1>11, <2>2 DEF SessionRenewed
    <3> QED BY <1>2, <2>1, <2>2, <3>1, ShownPageHasTab, TabsBecomeKeeps
  <2>3. CASE path \notin Menu
    <3>1. UNCHANGED tabVars
      BY <1>11, <2>3 DEF SessionRenewed
    <3> QED BY <1>2, <2>1, <3>1, TabsKept DEF Mounted
  <2> QED BY <2>2, <2>3
<1>12. CASE LogIn
  <2>1. /\ Mount(current, DefaultPath, prefs.tabbarPersist) /\ session' = TRUE
        /\ UNCHANGED <<prefs, scenario>>
    BY <1>12 DEF LogIn, prefVars
  <2>2. prefs.tabbarPersist = prefs'.tabbarPersist /\ DefaultPath \in Menu
    BY <2>1, PathsAssumption
  <2> QED BY <1>1, <1>2, <2>1, <2>2, MountKeeps
<1>13. CASE Reload
  <2>1. PICK p \in scenario.pages \cup {path} :
          Mount(createTabsStore(storedTabs, prefs'.tabbarPersist), p, prefs'.tabbarPersist)
    BY <1>13 DEF Reload
  <2>2. p \in Menu \cup {Browser, Login}
    BY <1>2, PathsAssumption
  <2>3. session' \in BOOLEAN /\ scenario' \in Scenarios
    BY <1>2, <1>13 DEF Reload
  <2>4. Coherent(createTabsStore(storedTabs, prefs'.tabbarPersist))
    BY CreateCoherent DEF TabInv
  <2> QED BY <1>1, <2>1, <2>2, <2>3, <2>4, MountKeeps
<1>14. CASE ReloadLogin
  <2> DEFINE s == createTabsStore(storedTabs, prefs'.tabbarPersist)
  <2>1. Coherent(s)
    BY CreateCoherent DEF TabInv
  <2>2. tabs' = s.tabs /\ activeKey' = s.activeKey
    BY <1>14 DEF ReloadLogin
  <2> HIDE DEF s
  <2>3. Coherent(current)'
    <3>1. current' = s
      BY <2>1, <2>2 DEF current, Coherent
    <3> QED BY <2>1, <3>1 DEF Coherent, Unique, Keys, TabRecord
  <2>4. /\ writeTimer' = FALSE /\ UNCHANGED <<storedTabs, path, session, scenario>> /\ ~Mounted'
    BY <1>14 DEF ReloadLogin, Mounted
  <2> QED BY <2>3, <2>4 DEF TabInv, StoredAsChosen, Stored, TabRecord
<1> QED BY StepKinds, <1>3, <1>4, <1>5, <1>6, <1>7, <1>8, <1>9, <1>10, <1>11, <1>12, <1>13, <1>14

(***************************************************************************)
(* The theorems.                                                           *)
(***************************************************************************)

\* What is true of the shell in every state.
ShellInv == SP!Settled /\ TabInv /\ LockInv /\ LayoutTyped

\* The shell starts so: one pinned tab, stored, and the default preferences.
LEMMA ShellInvInit == Init => ShellInv
<1> SUFFICES ASSUME Init PROVE ShellInv
  OBVIOUS
<1>1. SP!Settled
  <2>1. prefs = DEFAULT_PREFERENCES /\ storedPrefs = SP!diffFromDefaultPreferences(DEFAULT_PREFERENCES)
    BY DEF Init, Store!createPreferenceStore, Store!diffFromDefaultPreferences, SP!diffFromDefaultPreferences
  <2> QED BY <2>1, DefaultsValid, SP!DefaultsSettle
<1>2. TabInv
  <2>1. Coherent([tabs |-> initialTabs, activeKey |-> DefaultPath])
    <3>1. Coherent(createTabsStore(None, FALSE))
      BY CreateCoherent
    <3> QED BY <3>1 DEF createTabsStore
  <2>2. current = [tabs |-> initialTabs, activeKey |-> DefaultPath]
    BY DEF Init, current
  <2>3. storedTabs = current /\ current \in Stored
    BY <2>1, <2>2, CoherentIsStorable DEF Init
  <2>4. prefs.tabbarPersist = TRUE
    <3>1. prefs = DEFAULT_PREFERENCES
      BY DEF Init, Store!createPreferenceStore
    <3> QED BY <3>1 DEF DEFAULT_PREFERENCES, Joined, Toggles, OnDefaults
  <2> QED BY <2>1, <2>2, <2>3, <2>4, PathsAssumption DEF Init, TabInv, StoredAsChosen
<1>3. LockInv
  BY DEF Init, LockInv, StaysLocked
<1>4. LayoutTyped
  BY DEF Init, LayoutTyped
<1> QED BY <1>1, <1>2, <1>3, <1>4 DEF ShellInv

\* The invariant holds of every behaviour.
LEMMA ShellInvariant == Spec => []ShellInv
<1>1. ShellInv /\ [Next]_vars => ShellInv'
  BY SettledKept, TabsInductive, LockKept, LayoutKept DEF ShellInv
<1> QED BY <1>1, ShellInvInit, PTL DEF Spec

\* The variables of the shell keep their types: no tab is ever of a page that is
\* not in the menu, and no overlay but the three is shown.
THEOREM ShellTypeCorrect == Spec => []TypeOK
<1>1. ShellInv => TypeOK
  <2> SUFFICES ASSUME ShellInv PROVE TypeOK
    OBVIOUS
  <2>1. Coherent(current) /\ current.tabs = tabs /\ current.activeKey = activeKey
    BY DEF ShellInv, TabInv, current
  <2>2. tabs \in Seq(TabRecord) /\ activeKey \in Menu \cup {None}
    BY <2>1, TabFacts DEF Coherent
  <2> QED BY <2>2 DEF ShellInv, TabInv, LockInv, LayoutTyped, TypeOK, Stored, TabRecord
<1> QED BY <1>1, ShellInvariant, PTL

\* However tabs are opened, closed, pinned, dragged, hidden, stored and read
\* back, in any number and over any menu, the page of the menu that is shown
\* has one tab, and it is the active one (tabs.ts, base-layout.tsx).
THEOREM ShownPageIsActive == Spec => []PageHasActiveTab
<1>1. ShellInv => PageHasActiveTab
  <2> SUFFICES ASSUME ShellInv, Mounted, path \in Menu, tabs # <<>>
               PROVE  activeKey = path /\
                      \E i \in DOMAIN tabs : \A j \in DOMAIN tabs : tabs[j].key = path <=> j = i
    BY DEF PageHasActiveTab
  <2>1. Coherent(current) /\ current.tabs = tabs /\ current.activeKey = activeKey /\ activeKey = path
    BY DEF ShellInv, TabInv, current
  <2>2. Unique(tabs) /\ path \in Keys(tabs)
    BY <2>1 DEF Coherent
  <2>3. PICK i \in DOMAIN tabs : tabs[i].key = path
    BY <2>2 DEF Keys
  <2>4. \A j \in DOMAIN tabs : tabs[j].key = path <=> j = i
    BY <2>2, <2>3 DEF Unique
  <2> QED BY <2>1, <2>4
<1> QED BY <1>1, ShellInvariant, PTL

\* Once the debounce has run what is stored is what is shown, and with
\* persistence off nothing is (tabs.ts:306, tabs.ts:319).
THEOREM TabsAreStoredAsChosen == Spec => []StoredAsChosen
<1>1. ShellInv => StoredAsChosen
  BY DEF ShellInv, TabInv
<1> QED BY <1>1, ShellInvariant, PTL

\* A locked screen stays locked through reloads, a lost session and another
\* login (lock-screen.ts).
THEOREM LockedStaysLocked == Spec => []StaysLocked
<1>1. ShellInv => StaysLocked
  BY DEF ShellInv, LockInv
<1> QED BY <1>1, ShellInvariant, PTL

\* The button of the preference sheet that is placed automatically is shown, in
\* every layout (resolvePreferencesButtonPlacement, base-layout.tsx).
THEOREM ButtonIsShown == Spec => []AutomaticButtonIsShown
<1>1. AutomaticButtonIsShown
  BY DEF AutomaticButtonIsShown, PreferencesButtonShown, resolvePreferencesButtonPlacement
<1> QED BY <1>1, PTL

\* Every control of the shell hands the store values of the fields' kinds, so
\* that a window loaded again has the preferences it had (preferences.ts:256).
THEOREM ShellPreferencesRoundTrip == Spec => []RoundTrip
<1>1. SP!Settled => RoundTrip
  BY SP!SettledRoundTrip
     DEF RoundTrip, Store!RoundTrip, SP!RoundTrip, SP!ReadStored, Store!ReadStored,
         SP!normalizePreferences, Store!normalizePreferences, SP!NormalValue, Store!NormalValue,
         SP!Clamp, Store!Clamp
<1> QED BY <1>1, ShellInvariant, PTL DEF ShellInv

\* The shell uses the preference store as it is specified: whichever control, reset,
\* logout or reload it was, what happened to the preferences and their entry of
\* local storage is one call of the store, with values of the kinds it expects
\* (base-layout.tsx, preferences-sections.tsx).
THEOREM ShellUsesThePreferenceStore == Spec => SP!PreferencesSpec
<1>1. Init => SP!createPreferenceStore
  BY DEF Init, Store!createPreferenceStore, SP!createPreferenceStore,
         Store!diffFromDefaultPreferences, SP!diffFromDefaultPreferences
<1>2. ShellInv /\ [Next]_vars => [SP!PreferencesNext]_(SP!prefVars)
  BY StoreSteps DEF ShellInv
<1> QED BY <1>1, <1>2, ShellInvariant, PTL DEF Spec, SP!PreferencesSpec

\* So no control, reset, logout or reload of the shell puts a width, a number or a
\* choice outside the limits of the store.
THEOREM ShellPreferencesNormalized == Spec => []SP!Normalized
<1>1. SP!PreferencesSpec => []SP!Normalized
  BY DefaultsValid, SP!PreferencesNormalized
<1> QED BY <1>1, ShellUsesThePreferenceStore, PTL
=============================================================================
