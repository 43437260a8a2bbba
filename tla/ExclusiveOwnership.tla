-------------------------- MODULE ExclusiveOwnership --------------------------
(***************************************************************************)
(* What package task promises the rest of GoBackup, with no registry in    *)
(* sight: everything a backup can touch is a point (a model's temporary    *)
(* directory, one database, the root of one instance), every point has at  *)
(* most one owner, and a task takes all the points it asks for in one step *)
(* or none of them.                                                        *)
(***************************************************************************)
CONSTANTS Task,     \* the backup attempts
          Point,    \* what can be owned
          Claim,    \* the sets of points a task may ask for
          Nobody    \* the owner of a free point

VARIABLE owner

TypeOK == owner \in [Point -> Task \cup {Nobody}]

Init == owner = [p \in Point |-> Nobody]

\* A task takes a set of free points, all at once.
Take(t, claim) ==
    /\ \A p \in claim : owner[p] = Nobody
    /\ owner' = [p \in Point |-> IF p \in claim THEN t ELSE owner[p]]

\* A task gives back everything it owns, and nothing else.
Give(t) == owner' = [p \in Point |-> IF owner[p] = t THEN Nobody ELSE owner[p]]

Next == \E t \in Task : Give(t) \/ \E claim \in Claim : Take(t, claim)

Spec == Init /\ [][Next]_owner
===============================================================================
