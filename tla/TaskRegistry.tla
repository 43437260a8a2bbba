----------------------------- MODULE TaskRegistry -----------------------------
(***************************************************************************)
(* Package task (task/task.go): the registry of running backups.  One      *)
(* mutex guards the map, so every exported function is one action.  A      *)
(* caller registers a set of resources under a fresh token, may attach the *)
(* id of its run record later, and calls the release function any number   *)
(* of times, at any moment after it was handed out.                        *)
(***************************************************************************)
EXTENDS FiniteSets

CONSTANTS Task,       \* callers' tokens; lock.go makes a fresh one per attempt
          Model,      \* model names
          Instance,   \* instance identifiers, e.g. mysql://172.16.0.5:3306
          Target,     \* target identifiers, e.g. mysql://172.16.0.5:3306/venus
          Request,    \* what callers ask for: a model and its resources
          None        \* the empty string of Resource.Instance and .Target

KindModel    == "model"
KindDatabase == "database"
Kind         == {KindModel, KindDatabase}

Resource == [kind     : Kind,
             instance : Instance \cup {None},
             target   : Target \cup {None}]

AllResources == UNION {q.resources : q \in Request}

\* A target string starts with the string of its instance (resource.go), so
\* equal targets come with equal instances; no string is both.
ASSUME RequestAssumption ==
    /\ Request \subseteq [model : Model, resources : SUBSET Resource]
    /\ None \notin Instance \cup Target \cup Task \cup Model
    /\ Instance \cap Target = {}
    /\ \A a, b \in AllResources :
          a.kind = b.kind /\ a.target # None /\ a.target = b.target
             => a.instance = b.instance

VARIABLES holders,   \* registry.holders: what is registered under each token
          phase      \* how far each caller is: new, granted, refused, released

vars == <<holders, phase>>

Holder == [model : Model, resources : SUBSET Resource, runID : {None} \cup Task]

NotHeld == [model |-> None, resources |-> {}, runID |-> None]

TypeOK ==
    /\ holders \in [Task -> Holder \cup {NotHeld}]
    /\ phase \in [Task -> {"new", "granted", "refused", "released"}]

\* The tokens that are keys of registry.holders.
Registered == {t \in Task : holders[t] # NotHeld}

\* Mutant of conflicts: all_databases is forgotten, only targets are compared.
conflictsByTarget(a, b) ==
    /\ a.kind = b.kind
    /\ a.target # None
    /\ a.target = b.target

(***************************************************************************)
(* Two resources exclude each other when they name the same target, or     *)
(* when one of them stands for a whole instance and the other is on it.    *)
(***************************************************************************)
conflicts(a, b) ==
    /\ a.kind = b.kind
    /\ \/ /\ a.target # None
          /\ a.target = b.target
       \/ /\ None \in {a.target, b.target}
          /\ a.instance # None
          /\ a.instance = b.instance

\* Mutant of Conflicting: only the models are compared.
ConflictingModels(resources) ==
    \E t \in Registered : \E r \in resources, held \in holders[t].resources :
        r.kind = KindModel /\ conflicts(r, held)

\* task.Check reports a conflict with some holder.
Conflicting(resources) ==
    \E t \in Registered : \E r \in resources, held \in holders[t].resources :
        conflicts(r, held)

-------------------------------------------------------------------------------

Init ==
    /\ holders = [t \in Task |-> NotHeld]
    /\ phase = [t \in Task |-> "new"]

\* Acquire: all resources are free, the task is registered with all of them.
Acquire(t, q) ==
    /\ phase[t] = "new"
    /\ t \notin Registered
    /\ ~ Conflicting(q.resources)
    /\ holders' = [holders EXCEPT ![t] = [model     |-> q.model,
                                          resources |-> q.resources,
                                          runID     |-> None]]
    /\ phase' = [phase EXCEPT ![t] = "granted"]

\* Acquire: a *ConflictError, and nothing is registered.
Refuse(t, q) ==
    /\ phase[t] = "new"
    /\ Conflicting(q.resources)
    /\ phase' = [phase EXCEPT ![t] = "refused"]
    /\ UNCHANGED holders

\* Mutant of BindRunID: the holder is written back without looking it up.
BindRunIDBlindly(t) ==
    /\ phase[t] \in {"granted", "released"}
    /\ holders' = [holders EXCEPT ![t].runID = t]
    /\ UNCHANGED phase

\* BindRunID: only a holder that is still registered is touched.
BindRunID(t) ==
    /\ phase[t] \in {"granted", "released"}
    /\ holders' = IF t \in Registered
                  THEN [holders EXCEPT ![t].runID = t]
                  ELSE holders
    /\ UNCHANGED phase

\* The release function, called again after the first time too.
Release(t) ==
    /\ phase[t] \in {"granted", "released"}
    /\ holders' = [holders EXCEPT ![t] = NotHeld]
    /\ phase' = [phase EXCEPT ![t] = "released"]

Next ==
    \E t \in Task :
        \/ \E q \in Request : Acquire(t, q) \/ Refuse(t, q)
        \/ BindRunID(t)
        \/ Release(t)

Spec == Init /\ [][Next]_vars

-------------------------------------------------------------------------------

(***************************************************************************)
(* No two registered tasks hold resources that exclude each other, whoever *)
(* came first and whatever was released in between: the rule the package   *)
(* comment of task.go states.                                              *)
(***************************************************************************)
MutualExclusion ==
    \A s, t \in Registered : s # t =>
        \A a \in holders[s].resources, b \in holders[t].resources :
            ~ conflicts(a, b)

(***************************************************************************)
(* A token is in the registry from its grant to its first release and at   *)
(* no other time: nothing a caller does late (a second release, BindRunID  *)
(* after the release) loses a lock or leaves one behind for good.          *)
(***************************************************************************)
RegisteredIffGranted == \A t \in Task : t \in Registered <=> phase[t] = "granted"

(***************************************************************************)
(* The points of ExclusiveOwnership: a target is a point, an instance has  *)
(* a root point of its own.  A resource with a target covers that target,  *)
(* one without covers the root and every target known on the instance.     *)
(***************************************************************************)
Point == Kind \X (Instance \cup Target)

Covers(r) ==
    IF r.target # None
    THEN {<<r.kind, r.target>>}
    ELSE IF r.instance # None
    THEN {<<r.kind, r.instance>>} \cup
         {<<r.kind, s.target>> :
             s \in {x \in AllResources : /\ x.kind = r.kind
                                         /\ x.instance = r.instance
                                         /\ x.target # None}}
    ELSE {}

CoveredBy(resources) == UNION {Covers(r) : r \in resources}

Claims == {CoveredBy(q.resources) : q \in Request}

OwnedPoints(t) == CoveredBy(holders[t].resources)

Owner == [p \in Point |->
             IF \E t \in Task : p \in OwnedPoints(t)
             THEN CHOOSE t \in Task : p \in OwnedPoints(t)
             ELSE None]

Ownership == INSTANCE ExclusiveOwnership
                 WITH Claim <- Claims, Nobody <- None, owner <- Owner

(***************************************************************************)
(* The pairwise conflict test over registered holders implements exclusive *)
(* ownership of points: Acquire takes free points only, release gives back *)
(* exactly the releasing task's points.                                    *)
(***************************************************************************)
ImplementsOwnership == Ownership!Spec
===============================================================================
