-------------------------- MODULE TaskRegistryProofs --------------------------
(***************************************************************************)
(* Proofs about TaskRegistry: type correctness, the exclusion rule of      *)
(* package task and the refinement of exclusive ownership, for any number  *)
(* of callers and any requests that satisfy RequestAssumption.             *)
(***************************************************************************)
EXTENDS TaskRegistry, TLAPS

\* Holders hold resources that somebody may ask for, and only while registered.
HeldWasRequested ==
    \A t \in Task : holders[t].resources \subseteq AllResources

\* The inductive invariant.
IInv == /\ TypeOK
        /\ HeldWasRequested
        /\ RegisteredIffGranted
        /\ MutualExclusion

-------------------------------------------------------------------------------

(***************************************************************************)
(* The conflict test does not depend on who came first: conflicts(a, b) in *)
(* task.go answers the same with its arguments swapped.                    *)
(***************************************************************************)
LEMMA ConflictsSymmetric ==
    ASSUME NEW a, NEW b PROVE conflicts(a, b) <=> conflicts(b, a)
BY DEF conflicts

\* Whatever is asked for is a well-formed resource.
LEMMA RequestedAreResources == AllResources \subseteq Resource
BY RequestAssumption DEF AllResources

\* Every requested resource covers points only.
LEMMA CoversPoints ==
    ASSUME NEW r \in AllResources PROVE Covers(r) \subseteq Point
<1>1. r \in Resource
  BY RequestedAreResources
<1>2. ASSUME NEW s \in AllResources, s.target # None
      PROVE  s.target \in Target
  BY <1>2, RequestedAreResources DEF Resource
<1>. QED
  BY <1>1, <1>2 DEF Covers, Point, Resource

(***************************************************************************)
(* The string comparisons of conflicts are exactly "some point is covered  *)
(* by both": this is where targets must name their instance.               *)
(***************************************************************************)
LEMMA ConflictIffOverlap ==
    ASSUME NEW a \in AllResources, NEW b \in AllResources
    PROVE  conflicts(a, b) <=> Covers(a) \cap Covers(b) # {}
<1>1. /\ a \in Resource /\ b \in Resource
      /\ AllResources \subseteq Resource
  BY RequestedAreResources
<1>2. \A r \in AllResources : /\ r.instance \in Instance \cup {None}
                              /\ r.target \in Target \cup {None}
  BY <1>1 DEF Resource
<1>3. \A i \in Instance : i \notin Target /\ i # None
  BY RequestAssumption
<1>4. ASSUME NEW r \in AllResources, NEW s \in AllResources,
             r.kind = s.kind, r.target # None, r.target = s.target
      PROVE  r.instance = s.instance
  BY <1>4, RequestAssumption
<1>5. CASE a.target # None /\ b.target # None
  <2>1. /\ Covers(a) = {<<a.kind, a.target>>}
        /\ Covers(b) = {<<b.kind, b.target>>}
    BY <1>5 DEF Covers
  <2>2. conflicts(a, b) <=> a.kind = b.kind /\ a.target = b.target
    BY <1>5 DEF conflicts
  <2>3. <<a.kind, a.target>> = <<b.kind, b.target>>
           <=> a.kind = b.kind /\ a.target = b.target
    OBVIOUS
  <2>. QED
    BY <2>1, <2>2, <2>3
<1>6. ASSUME NEW x \in AllResources, NEW y \in AllResources,
             x.target # None, y.target = None
      PROVE  conflicts(x, y) <=> Covers(x) \cap Covers(y) # {}
  <2>1. CASE y.instance = None
    BY <1>6, <2>1 DEF conflicts, Covers
  <2>2. CASE y.instance # None
    <3>1. Covers(x) = {<<x.kind, x.target>>}
      BY <1>6 DEF Covers
    <3>2. \A k, p : <<k, p>> \in Covers(y) <=>
              \/ k = y.kind /\ p = y.instance
              \/ \E s \in AllResources :
                    /\ s.kind = y.kind /\ s.instance = y.instance
                    /\ s.target # None /\ k = y.kind /\ p = s.target
      BY <1>6, <2>2 DEF Covers
    <3>3. x.target # y.instance
      BY <1>2, <1>3, <1>6, <2>2
    <3>4. conflicts(x, y) <=> x.kind = y.kind /\ x.instance = y.instance
      BY <1>6, <2>2 DEF conflicts
    <3>5. ASSUME conflicts(x, y) PROVE <<x.kind, x.target>> \in Covers(y)
      BY <3>2, <3>4, <3>5, <1>6
    <3>6. ASSUME <<x.kind, x.target>> \in Covers(y) PROVE conflicts(x, y)
      <4>1. PICK s \in AllResources :
                /\ s.kind = y.kind /\ s.instance = y.instance
                /\ s.target # None /\ x.kind = y.kind /\ x.target = s.target
        BY <3>2, <3>3, <3>6
      <4>. QED
        BY <4>1, <3>4, <1>4, <1>6
    <3>. QED
      BY <3>1, <3>5, <3>6
  <2>. QED
    BY <2>1, <2>2
<1>7. CASE a.target # None /\ b.target = None
  BY <1>6, <1>7
<1>8. CASE a.target = None /\ b.target # None
  BY <1>6, <1>8, ConflictsSymmetric
<1>9. CASE a.target = None /\ b.target = None
  <2>1. CASE a.instance = None \/ b.instance = None
    BY <1>9, <2>1 DEF conflicts, Covers
  <2>2. CASE a.instance # None /\ b.instance # None
    <3>1. conflicts(a, b) <=> a.kind = b.kind /\ a.instance = b.instance
      BY <1>9, <2>2 DEF conflicts
    <3>2. ASSUME conflicts(a, b)
          PROVE  <<a.kind, a.instance>> \in Covers(a) \cap Covers(b)
      BY <1>9, <2>2, <3>1, <3>2 DEF Covers
    <3>3. ASSUME NEW p \in Covers(a) \cap Covers(b) PROVE conflicts(a, b)
      <4>1. \/ p = <<a.kind, a.instance>>
            \/ \E s \in AllResources :
                  /\ s.kind = a.kind /\ s.instance = a.instance
                  /\ s.target # None /\ p = <<a.kind, s.target>>
        BY <1>9, <2>2, <3>3 DEF Covers
      <4>2. \/ p = <<b.kind, b.instance>>
            \/ \E s \in AllResources :
                  /\ s.kind = b.kind /\ s.instance = b.instance
                  /\ s.target # None /\ p = <<b.kind, s.target>>
        BY <1>9, <2>2, <3>3 DEF Covers
      <4>3. a.instance \in Instance /\ b.instance \in Instance
        BY <1>2, <2>2
      <4>. QED
        BY <4>1, <4>2, <4>3, <1>2, <1>3, <1>4, <3>1
    <3>. QED
      BY <3>2, <3>3
  <2>. QED
    BY <2>1, <2>2
<1>. QED
  BY <1>5, <1>7, <1>8, <1>9

-------------------------------------------------------------------------------

\* A request's parts, and what makes a granted holder different from none.
LEMMA RequestFacts ==
    ASSUME NEW q \in Request
    PROVE  /\ q.model \in Model /\ q.model # None
           /\ q.resources \subseteq AllResources
           /\ q.resources \subseteq Resource
BY RequestAssumption DEF AllResources

\* The registry starts empty.
LEMMA InitInv == Init => IInv
BY RequestAssumption
DEF Init, IInv, TypeOK, HeldWasRequested, RegisteredIffGranted,
    MutualExclusion, Registered, NotHeld

\* Every action of the registry preserves the invariant.
LEMMA NextInv == IInv /\ [Next]_vars => IInv'
<1>. SUFFICES ASSUME IInv, [Next]_vars PROVE IInv'
  OBVIOUS
<1>. USE DEF IInv
<1>1. ASSUME NEW t \in Task, NEW q \in Request, Acquire(t, q) PROVE IInv'
  <2>. USE <1>1
  <2>0. /\ q.model \in Model /\ q.model # None
        /\ q.resources \subseteq AllResources /\ q.resources \subseteq Resource
    BY RequestFacts
  <2>1. /\ holders'[t] = [model |-> q.model, resources |-> q.resources,
                          runID |-> None]
        /\ \A s \in Task \ {t} : holders'[s] = holders[s]
        /\ phase'[t] = "granted"
        /\ \A s \in Task \ {t} : phase'[s] = phase[s]
    BY DEF Acquire, TypeOK
  <2>2. TypeOK'
    BY <2>0 DEF Acquire, TypeOK, Holder, NotHeld
  <2>3. HeldWasRequested'
    BY <2>0, <2>1 DEF HeldWasRequested
  <2>4. holders'[t] # NotHeld
    BY <2>0, <2>1 DEF NotHeld
  <2>5. RegisteredIffGranted'
    BY <2>1, <2>4 DEF RegisteredIffGranted, Registered, NotHeld
  <2>6. Registered' = Registered \cup {t}
    BY <2>1, <2>4 DEF Registered, NotHeld
  <2>7. \A s \in Registered : \A a \in q.resources, b \in holders[s].resources :
            ~ conflicts(a, b)
    BY DEF Acquire, Conflicting
  <2>8. MutualExclusion'
    <3>. SUFFICES ASSUME NEW s \in Registered', NEW u \in Registered', s # u,
                         NEW a \in holders'[s].resources,
                         NEW b \in holders'[u].resources
                  PROVE  ~ conflicts(a, b)
      BY DEF MutualExclusion
    <3>0. s \in Task /\ u \in Task
      BY DEF Registered
    <3>1. CASE s = t
      BY <3>0, <3>1, <2>1, <2>6, <2>7
    <3>2. CASE u = t
      BY <3>0, <3>2, <2>1, <2>6, <2>7, ConflictsSymmetric
    <3>3. CASE s # t /\ u # t
      BY <3>0, <3>3, <2>1, <2>6 DEF MutualExclusion
    <3>. QED
      BY <3>1, <3>2, <3>3
  <2>. QED
    BY <2>2, <2>3, <2>5, <2>8
<1>2. ASSUME NEW t \in Task, NEW q \in Request, Refuse(t, q) PROVE IInv'
  <2>. USE <1>2
  <2>1. holders' = holders /\ phase[t] = "new"
        /\ phase' = [phase EXCEPT ![t] = "refused"]
    BY DEF Refuse
  <2>. QED
    BY <2>1 DEF TypeOK, HeldWasRequested, RegisteredIffGranted,
                MutualExclusion, Registered, NotHeld
<1>3. ASSUME NEW t \in Task, BindRunID(t) PROVE IInv'
  <2>. USE <1>3
  <2>1. /\ phase' = phase
        /\ \A s \in Task : /\ holders'[s].model = holders[s].model
                           /\ holders'[s].resources = holders[s].resources
        /\ \A s \in Task : holders'[s] = NotHeld <=> holders[s] = NotHeld
        /\ TypeOK'
    <3>1. CASE t \notin Registered
      BY <3>1 DEF BindRunID, TypeOK
    <3>2. CASE t \in Registered
      <4>1. holders' = [holders EXCEPT ![t] = [@ EXCEPT !.runID = t]]
        BY <3>2 DEF BindRunID
      <4>2. holders[t] \in Holder
        BY <3>2 DEF TypeOK, Registered
      <4>3. /\ holders'[t].model = holders[t].model
            /\ holders'[t].resources = holders[t].resources
            /\ holders'[t] \in Holder
        BY <4>1, <4>2 DEF Holder, TypeOK
      <4>4. holders'[t] # NotHeld /\ holders[t] # NotHeld
        BY <4>2, <4>3, RequestAssumption DEF Holder, NotHeld
      <4>. QED
        BY <4>1, <4>3, <4>4 DEF BindRunID, TypeOK
    <3>. QED
      BY <3>1, <3>2
  <2>2. Registered' = Registered
    BY <2>1 DEF Registered, NotHeld
  <2>3. RegisteredIffGranted' /\ HeldWasRequested'
    BY <2>1, <2>2 DEF RegisteredIffGranted, HeldWasRequested
  <2>4. MutualExclusion'
    BY <2>1, <2>2 DEF MutualExclusion, Registered
  <2>. QED
    BY <2>1, <2>3, <2>4
<1>4. ASSUME NEW t \in Task, Release(t) PROVE IInv'
  <2>. USE <1>4
  <2>1. /\ holders'[t] = NotHeld
        /\ \A s \in Task \ {t} : holders'[s] = holders[s]
        /\ phase'[t] = "released"
        /\ \A s \in Task \ {t} : phase'[s] = phase[s]
    BY DEF Release, TypeOK
  <2>2. TypeOK'
    BY DEF Release, TypeOK
  <2>3. Registered' = Registered \ {t}
    BY <2>1 DEF Registered, NotHeld
  <2>4. HeldWasRequested' /\ RegisteredIffGranted'
    BY <2>1, <2>3 DEF HeldWasRequested, RegisteredIffGranted, NotHeld
  <2>5. MutualExclusion'
    BY <2>1, <2>3 DEF MutualExclusion, Registered
  <2>. QED
    BY <2>2, <2>4, <2>5
<1>5. CASE UNCHANGED vars
  BY <1>5 DEF vars, TypeOK, HeldWasRequested, RegisteredIffGranted,
              MutualExclusion, Registered, NotHeld
<1>. QED
  BY <1>1, <1>2, <1>3, <1>4, <1>5 DEF Next

\* IInv holds in every reachable state.
THEOREM Invariance == Spec => []IInv
BY InitInv, NextInv, PTL DEF Spec

(***************************************************************************)
(* The registry's state keeps its shape, whatever the callers do.          *)
(***************************************************************************)
THEOREM TypeCorrect == Spec => []TypeOK
<1>1. IInv => TypeOK
  BY DEF IInv
<1>. QED
  BY <1>1, Invariance, PTL

(***************************************************************************)
(* task.go, package comment: no two running tasks hold resources that      *)
(* exclude each other, for any number of callers and any requests.         *)
(***************************************************************************)
THEOREM Exclusion == Spec => []MutualExclusion
<1>1. IInv => MutualExclusion
  BY DEF IInv
<1>. QED
  BY <1>1, Invariance, PTL

(***************************************************************************)
(* No lock is lost before its release and none outlives it.                *)
(***************************************************************************)
THEOREM NoLockLostOrLeaked == Spec => []RegisteredIffGranted
<1>1. IInv => RegisteredIffGranted
  BY DEF IInv
<1>. QED
  BY <1>1, Invariance, PTL

-------------------------------------------------------------------------------
(* The refinement of ExclusiveOwnership.                                     *)

\* The refinement mapping, pointwise: a point's owner is the one who covers it.
OwnerIsCoverer ==
    \A p \in Point :
        /\ \A t \in Task : Owner[p] = t <=> p \in OwnedPoints(t)
        /\ Owner[p] = None <=> \A t \in Task : p \notin OwnedPoints(t)

\* Different holders cover different points.
LEMMA OwnedApart ==
    ASSUME IInv, NEW s \in Task, NEW t \in Task, s # t
    PROVE  OwnedPoints(s) \cap OwnedPoints(t) = {}
<1>. SUFFICES ASSUME NEW p, p \in OwnedPoints(s), p \in OwnedPoints(t)
              PROVE  FALSE
  OBVIOUS
<1>1. PICK a \in holders[s].resources : p \in Covers(a)
  BY DEF OwnedPoints, CoveredBy
<1>2. PICK b \in holders[t].resources : p \in Covers(b)
  BY DEF OwnedPoints, CoveredBy
<1>3. a \in AllResources /\ b \in AllResources
  BY DEF IInv, HeldWasRequested
<1>4. conflicts(a, b)
  BY <1>1, <1>2, <1>3, ConflictIffOverlap
<1>5. s \in Registered /\ t \in Registered
  BY <1>1, <1>2 DEF Registered, NotHeld
<1>. QED
  BY <1>4, <1>5 DEF IInv, MutualExclusion

\* So the CHOOSE of Owner has one candidate at most.
LEMMA CovererOwns == IInv => OwnerIsCoverer
<1>. SUFFICES ASSUME IInv, NEW p \in Point
              PROVE  /\ \A t \in Task : Owner[p] = t <=> p \in OwnedPoints(t)
                     /\ Owner[p] = None <=>
                           \A t \in Task : p \notin OwnedPoints(t)
  BY DEF OwnerIsCoverer
<1>1. None \notin Task
  BY RequestAssumption
<1>2. CASE \E t \in Task : p \in OwnedPoints(t)
  <2>1. Owner[p] = CHOOSE t \in Task : p \in OwnedPoints(t)
    BY <1>2 DEF Owner
  <2>2. Owner[p] \in Task /\ p \in OwnedPoints(Owner[p])
    BY <1>2, <2>1
  <2>. QED
    BY <1>1, <1>2, <2>2, OwnedApart
<1>3. CASE \A t \in Task : p \notin OwnedPoints(t)
  BY <1>1, <1>3 DEF Owner
<1>. QED
  BY <1>2, <1>3

\* The initial registry is the initial ownership.
LEMMA InitRefines == Init => Ownership!Init
BY DEF Init, Ownership!Init, Owner, OwnedPoints, CoveredBy, NotHeld

\* Two owner functions that agree on every point are equal.
LEMMA OwnerIsFunction == /\ Owner = [p \in Point |-> Owner[p]]
                         /\ Owner' = [p \in Point |-> Owner'[p]]
BY DEF Owner

\* Every step of the registry takes or gives points, or changes no owner.
LEMMA NextRefines ==
    IInv /\ OwnerIsCoverer /\ OwnerIsCoverer' /\ [Next]_vars
        => [Ownership!Next]_Owner
<1>. SUFFICES ASSUME IInv, OwnerIsCoverer, OwnerIsCoverer', [Next]_vars
              PROVE  [Ownership!Next]_Owner
  OBVIOUS
<1>0. None \notin Task
  BY RequestAssumption
<1>1. ASSUME NEW p \in Point
      PROVE  /\ \A t \in Task : Owner[p] = t <=> p \in OwnedPoints(t)
             /\ \A t \in Task : Owner'[p] = t <=> p \in OwnedPoints(t)'
             /\ Owner[p] \in Task \cup {None}
             /\ Owner'[p] \in Task \cup {None}
  BY DEF OwnerIsCoverer
<1>2. ASSUME \A t \in Task : OwnedPoints(t)' = OwnedPoints(t)
      PROVE  Owner' = Owner
  <2>1. \A p \in Point : Owner'[p] = Owner[p]
    BY <1>0, <1>1, <1>2
  <2>. QED
    BY <2>1, OwnerIsFunction
<1>3. ASSUME \A t \in Task : holders'[t].resources = holders[t].resources
      PROVE  [Ownership!Next]_Owner
  BY <1>2, <1>3 DEF OwnedPoints, CoveredBy
<1>4. ASSUME NEW t \in Task, NEW q \in Request, Acquire(t, q)
      PROVE  Ownership!Next
  <2>. DEFINE claim == CoveredBy(q.resources)
  <2>1. q.resources \subseteq AllResources
    BY RequestFacts
  <2>2. claim \subseteq Point
    BY <2>1, CoversPoints DEF CoveredBy
  <2>3. /\ holders'[t].resources = q.resources
        /\ \A s \in Task \ {t} : holders'[s] = holders[s]
        /\ holders[t].resources = {}
    BY <1>4 DEF Acquire, IInv, TypeOK, Registered, NotHeld
  <2>4. /\ OwnedPoints(t)' = claim
        /\ OwnedPoints(t) = {}
        /\ \A s \in Task \ {t} : OwnedPoints(s)' = OwnedPoints(s)
    BY <2>3 DEF OwnedPoints, CoveredBy
  <2>5. ASSUME NEW p \in claim, NEW s \in Task PROVE p \notin OwnedPoints(s)
    <3>. SUFFICES ASSUME p \in OwnedPoints(s) PROVE FALSE
      OBVIOUS
    <3>1. PICK a \in q.resources : p \in Covers(a)
      BY DEF CoveredBy
    <3>2. PICK b \in holders[s].resources : p \in Covers(b)
      BY DEF OwnedPoints, CoveredBy
    <3>3. a \in AllResources /\ b \in AllResources
      BY <2>1 DEF IInv, HeldWasRequested
    <3>4. conflicts(a, b)
      BY <3>1, <3>2, <3>3, ConflictIffOverlap
    <3>5. s \in Registered
      BY <3>2 DEF Registered, NotHeld
    <3>. QED
      BY <1>4, <3>4, <3>5 DEF Acquire, Conflicting
  <2>6. \A p \in claim : Owner[p] = None
    BY <1>1, <2>2, <2>5
  <2>7. \A p \in Point : Owner'[p] = IF p \in claim THEN t ELSE Owner[p]
    <3>. TAKE p \in Point
    <3>1. CASE p \in claim
      BY <1>1, <2>4, <3>1
    <3>2. CASE p \notin claim
      BY <1>0, <1>1, <2>4, <3>2
    <3>. QED
      BY <3>1, <3>2
  <2>8. Owner' = [p \in Point |-> IF p \in claim THEN t ELSE Owner[p]]
    BY <2>7, OwnerIsFunction
  <2>9. claim \in Claims
    BY DEF Claims
  <2>. QED
    BY <2>6, <2>8, <2>9 DEF Ownership!Next, Ownership!Take
<1>5. ASSUME NEW t \in Task, Release(t) PROVE Ownership!Next
  <2>1. /\ holders'[t].resources = {}
        /\ \A s \in Task \ {t} : holders'[s] = holders[s]
    BY <1>5 DEF Release, IInv, TypeOK, NotHeld
  <2>2. /\ OwnedPoints(t)' = {}
        /\ \A s \in Task \ {t} : OwnedPoints(s)' = OwnedPoints(s)
    BY <2>1 DEF OwnedPoints, CoveredBy
  <2>3. \A p \in Point : Owner'[p] = IF Owner[p] = t THEN None ELSE Owner[p]
    <3>. TAKE p \in Point
    <3>1. CASE Owner[p] = t
      <4>1. \A s \in Task \ {t} : p \notin OwnedPoints(s)
        BY <1>1, <3>1
      <4>. QED
        BY <1>1, <2>2, <3>1, <4>1
    <3>2. CASE Owner[p] # t
      BY <1>0, <1>1, <2>2, <3>2
    <3>. QED
      BY <3>1, <3>2
  <2>4. Owner' = [p \in Point |-> IF Owner[p] = t THEN None ELSE Owner[p]]
    BY <2>3, OwnerIsFunction
  <2>. QED
    BY <2>4 DEF Ownership!Next, Ownership!Give
<1>6. ASSUME NEW t \in Task, NEW q \in Request, Refuse(t, q)
      PROVE  [Ownership!Next]_Owner
  BY <1>3, <1>6 DEF Refuse
<1>7. ASSUME NEW t \in Task, BindRunID(t) PROVE [Ownership!Next]_Owner
  <2>1. \A s \in Task : holders'[s].resources = holders[s].resources
    BY <1>7 DEF BindRunID, IInv, TypeOK, Holder, NotHeld
  <2>. QED
    BY <1>3, <2>1
<1>8. CASE UNCHANGED vars
  BY <1>3, <1>8 DEF vars
<1>. QED
  BY <1>4, <1>5, <1>6, <1>7, <1>8 DEF Next

(***************************************************************************)
(* The registry implements exclusive ownership of points, whatever the     *)
(* requests: no pairwise conflict test is missing, none is too many.       *)
(***************************************************************************)
THEOREM Refinement == Spec => ImplementsOwnership
<1>1. IInv => OwnerIsCoverer
  BY CovererOwns
<1>2. Init => Ownership!Init
  BY InitRefines
<1>3. IInv /\ OwnerIsCoverer /\ OwnerIsCoverer' /\ [Next]_vars
         => [Ownership!Next]_Owner
  BY NextRefines
<1>. QED
  BY <1>1, <1>2, <1>3, Invariance, PTL
  DEF Spec, ImplementsOwnership, Ownership!Spec
===============================================================================
