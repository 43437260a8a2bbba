------------------------------ MODULE BackupLocks ------------------------------
(***************************************************************************)
(* How a backup chooses what to lock (model/lock.go, database/resource.go) *)
(* on top of the registry of task.go.  The resources are computed from the *)
(* viper settings of the databases when the backup starts; the dumper's    *)
(* init() then writes its defaults (host, port) into those same settings,  *)
(* which later backups of the model read until the configuration is loaded *)
(* again.                                                                  *)
(*                                                                         *)
(* A database configuration is a record:                                   *)
(*   name, type      its key under "databases" and its type                *)
(*   address         socket, uri, endpoints or path, in that order         *)
(*   host, port      as written in the file                                *)
(*   all_databases   a Boolean; database, the database to dump             *)
(*   exclusive_key   the hand-made mutual exclusion group                  *)
(* where None stands for a key that is not in the file.                    *)
(***************************************************************************)
EXTENDS Naturals, Sequences, FiniteSets

CONSTANTS Task,         \* backup attempts of the daemon: schedule and web
          Databases,    \* the databases of every model: [Model -> SUBSET ...]
          DefaultHost,  \* what init() sets, by type
          DefaultPort,
          MaxReloads,   \* bound on configuration reloads
          None

Model == DOMAIN Databases

DbConfig == UNION {Databases[m] : m \in Model}

ASSUME LocksAssumption ==
    /\ MaxReloads \in Nat
    /\ \A cfg \in DbConfig :
          /\ DOMAIN cfg = {"name", "type", "address", "host", "port",
                            "all_databases", "database", "exclusive_key"}
          /\ cfg.type \in DOMAIN DefaultHost \cap DOMAIN DefaultPort

VARIABLES holders, phase,  \* the registry, see TaskRegistry
          generation,      \* how often the configuration was loaded
          defaulted,       \* <<model, database>> whose settings init() has seen
          started          \* by task: the generation its settings belong to

vars == <<holders, phase, generation, defaulted, started>>

-------------------------------------------------------------------------------
(* The settings, as viper answers for them.                                *)

WithDefaults(cfg) ==
    [cfg EXCEPT !.host = IF @ = None THEN DefaultHost[cfg.type] ELSE @,
                !.port = IF @ = None THEN DefaultPort[cfg.type] ELSE @]

\* What GetString answers: the written value, or a default once it was set.
Settings(m, cfg) == IF <<m, cfg>> \in defaulted THEN WithDefaults(cfg) ELSE cfg

\* The first of address, host:port, host and the configuration's own name.
instanceName(cfg) ==
    CASE cfg.address # None                    -> <<cfg.address>>
      [] cfg.address = None /\ cfg.host # None ->
            IF cfg.port # None THEN <<cfg.host, cfg.port>> ELSE <<cfg.host>>
      [] OTHER                                 -> <<cfg.name>>

\* Mutant of targetName: all_databases is not looked at.
targetNameAlways(cfg) == cfg.database

targetName(cfg) == IF cfg.all_databases THEN None ELSE cfg.database

Identity(cfg) == <<cfg.type>> \o instanceName(cfg)

DatabaseResource(cfg) ==
    IF cfg.exclusive_key # None
    THEN [kind     |-> "database",
          instance |-> None,
          target   |-> << <<"exclusive">>, cfg.exclusive_key>>]
    ELSE [kind     |-> "database",
          instance |-> Identity(cfg),
          target   |-> IF targetName(cfg) = None THEN None
                       ELSE <<Identity(cfg), targetName(cfg)>>]

ModelResource(m) ==
    [kind |-> "model", instance |-> None, target |-> << <<"model">>, m>>]

\* Mutant of RequestOf: only the databases are locked, not the model.
RequestOfDatabases(m, dbs) ==
    [model |-> m, resources |-> {DatabaseResource(d) : d \in dbs}]

RequestOf(m, dbs) ==
    [model     |-> m,
     resources |-> {ModelResource(m)} \cup {DatabaseResource(d) : d \in dbs}]

\* What a backup of m started now asks the registry for.
runResources(m) == RequestOf(m, {Settings(m, cfg) : cfg \in Databases[m]})

AllSettings == DbConfig \cup {WithDefaults(cfg) : cfg \in DbConfig}

AllResources ==
    {DatabaseResource(d) : d \in AllSettings} \cup {ModelResource(m) : m \in Model}

\* The empty string is no name that is put together from others.
ASSUME NamesAssumption ==
    /\ None \notin Model
    /\ \A m \in Model : None # << <<"model">>, m>>
    /\ \A d \in AllSettings :
          None \notin {Identity(d), <<Identity(d), d.database>>,
                      << <<"exclusive">>, d.exclusive_key>>}

\* The string of an instance is not that of a target, which begins with the string
\* of its instance and goes on.
ASSUME IdentitiesAssumption ==
    /\ None \notin Task
    /\ \A d, e \in AllSettings :
          Identity(d) \notin {<<Identity(e), e.database>>, << <<"exclusive">>, e.exclusive_key>>}
    /\ \A d \in AllSettings, m \in Model : Identity(d) # << <<"model">>, m>>

Registry == INSTANCE TaskRegistry
    WITH Instance <- {r.instance : r \in AllResources} \ {None},
         Target   <- {r.target : r \in AllResources} \ {None},
         Request  <- UNION {{RequestOf(m, dbs) : dbs \in SUBSET AllSettings} :
                               m \in Model}

TypeOK ==
    /\ Registry!TypeOK
    /\ generation \in 0..MaxReloads
    /\ defaulted \subseteq Model \X DbConfig
    /\ started \in [Task -> 0..MaxReloads]

-------------------------------------------------------------------------------

Init ==
    /\ Registry!Init
    /\ generation = 0
    /\ defaulted = {}
    /\ started = [t \in Task |-> 0]

\* acquireRunLock succeeds; the run keeps the settings it was started with.
Start(t, m) ==
    /\ Registry!Acquire(t, runResources(m))
    /\ started' = [started EXCEPT ![t] = generation]
    /\ UNCHANGED <<generation, defaulted>>

\* acquireRunLock reports a conflict: the scheduler skips, the web answers 409.
Skip(t, m) ==
    /\ Registry!Refuse(t, runResources(m))
    /\ UNCHANGED <<generation, defaulted, started>>

\* database.Run reaches cfg: init() writes the defaults into its settings.
InitDatabase(t, cfg) ==
    /\ phase[t] = "granted"
    /\ cfg \in Databases[holders[t].model]
    /\ defaulted' = IF started[t] = generation
                    THEN defaulted \cup {<<holders[t].model, cfg>>}
                    ELSE defaulted
    /\ UNCHANGED <<holders, phase, generation, started>>

\* The backup ends, after whatever databases it got to, and releases.
Finish(t) ==
    /\ phase[t] = "granted"
    /\ Registry!Release(t)
    /\ UNCHANGED <<generation, defaulted, started>>

\* loadConfig builds new settings; running backups keep the old ones.
Reload ==
    /\ generation < MaxReloads
    /\ generation' = generation + 1
    /\ defaulted' = {}
    /\ UNCHANGED <<holders, phase, started>>

Next ==
    \/ \E t \in Task :
          \/ \E m \in Model : Start(t, m) \/ Skip(t, m)
          \/ \E cfg \in DbConfig : InitDatabase(t, cfg)
          \/ Finish(t)
    \/ Reload

Spec == Init /\ [][Next]_vars

-------------------------------------------------------------------------------

Running == {t \in Task : phase[t] = "granted"}

DumpedBy(t) == Databases[holders[t].model]

(***************************************************************************)
(* One model is never backed up twice at a time (task.go, package comment, *)
(* second rule: the runs would share a temporary directory).               *)
(***************************************************************************)
ModelExclusion ==
    \A s, t \in Running : s # t => holders[s].model # holders[t].model

\* Where the dumper of cfg connects to and what it reads there.
Server(cfg) ==
    IF cfg.address # None THEN <<cfg.type, cfg.address>>
    ELSE <<cfg.type, WithDefaults(cfg).host, WithDefaults(cfg).port>>

\* Whether the dumper of cfg reads all there is on its server.
Everything(cfg) == cfg.all_databases \/ cfg.database = None

SameDatabase(a, b) ==
    /\ Server(a) = Server(b)
    /\ Everything(a) \/ Everything(b) \/ a.database = b.database

\* An exclusive_key declares an environment, whatever the types are.
SameEnvironment(a, b) ==
    SameDatabase(a, b) \/ (a.exclusive_key # None /\ a.exclusive_key = b.exclusive_key)

(***************************************************************************)
(* One database environment is never in two running backups (task.go,      *)
(* package comment, first rule): same type, same server and same database, *)
(* or all_databases on either side; or the same exclusive_key, whatever    *)
(* the types (resource.go, comment of Resources).                          *)
(***************************************************************************)
EnvironmentExclusion ==
    \A s, t \in Running : s # t =>
        \A a \in DumpedBy(s), b \in DumpedBy(t) : ~ SameEnvironment(a, b)
===============================================================================
