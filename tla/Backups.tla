-------------------------------- MODULE Backups --------------------------------
(***************************************************************************)
(* What backing up promises a user, with no stages, locks or records in    *)
(* sight: a trigger starts a backup of a model, unless one that excludes   *)
(* it is running, and then nothing happens; a backup that was started      *)
(* runs, alone among those it excludes, and ends once, in success or       *)
(* failure.                                                                *)
(***************************************************************************)
CONSTANTS Job,            \* the triggers
          Model,
          Excludes(_, _)  \* whether backups of two models may not run together

VARIABLE state

Waiting == [is |-> "waiting"]
Refused == [is |-> "refused"]
Running(m) == [is |-> "running", model |-> m]
Ended(m, outcome) == [is |-> "ended", model |-> m, outcome |-> outcome]

InTheWay(m) == {j \in Job : state[j].is = "running" /\ Excludes(m, state[j].model)}

Init == state = [j \in Job |-> Waiting]

Start(j, m) ==
    /\ state[j] = Waiting
    /\ InTheWay(m) = {}
    /\ state' = [state EXCEPT ![j] = Running(m)]

Refuse(j, m) ==
    /\ state[j] = Waiting
    /\ InTheWay(m) # {}
    /\ state' = [state EXCEPT ![j] = Refused]

End(j) ==
    /\ state[j].is = "running"
    /\ \E outcome \in {"success", "failure"} :
          state' = [state EXCEPT ![j] = Ended(state[j].model, outcome)]

Next == \E j \in Job : End(j) \/ \E m \in Model : Start(j, m) \/ Refuse(j, m)

Spec == Init /\ [][Next]_state
===============================================================================
