--------------------------- MODULE BackupLocksProofs ---------------------------
(***************************************************************************)
(* Proofs about BackupLocks, for any models, databases and attempts: one   *)
(* model is never backed up twice at a time, and neither is one database   *)
(* environment, where the configuration writes out the servers of the      *)
(* databases that overlap.                                                 *)
(* And the backups use the registry as it is specified, so that what is    *)
(* proved of it holds of them.                                             *)
(***************************************************************************)
EXTENDS BackupLocks, TLAPS

\* What dumpers of cfg may have been told when its backup started.
SettingsOf(cfg) == {cfg, WithDefaults(cfg)}

\* What the registry remembers of attempt t: nothing, or a model.
Shape ==
    /\ holders \in [Task -> {Registry!NotHeld} \cup
                            [model : Model, resources : SUBSET AllResources, runID : {None}]]
    /\ phase \in [Task -> {"new", "granted", "refused", "released"}]
    /\ defaulted \subseteq Model \X DbConfig

\* A running backup holds its model and each of its databases, by the settings
\* it was started with.
HoldsItAll ==
    \A t \in Running :
        /\ holders[t].model \in Model
        /\ ModelResource(holders[t].model) \in holders[t].resources
        /\ \A cfg \in Databases[holders[t].model] :
              \E d \in SettingsOf(cfg) : DatabaseResource(d) \in holders[t].resources

\* Running backups are registered, and hold nothing that conflicts.
Apart ==
    \A s \in Running :
        /\ holders[s] # Registry!NotHeld
        /\ \A t \in Running \ {s} :
              \A a \in holders[s].resources, b \in holders[t].resources :
                  ~ Registry!conflicts(a, b)

IInv == Shape /\ HoldsItAll /\ Apart

-------------------------------------------------------------------------------

\* The conflict test does not depend on who came first.
LEMMA ConflictsSymmetric ==
    ASSUME NEW a, NEW b PROVE Registry!conflicts(a, b) <=> Registry!conflicts(b, a)
BY DEF Registry!conflicts

\* A resource that is a model conflicts with itself.
LEMMA ModelConflicts ==
    ASSUME NEW m \in Model
    PROVE  Registry!conflicts(ModelResource(m), ModelResource(m))
BY NamesAssumption DEF ModelResource, Registry!conflicts

\* What a backup asks for names its model and covers each of its databases.
LEMMA RunResources ==
    ASSUME NEW m \in Model
    PROVE  /\ runResources(m).model = m
           /\ runResources(m).resources \subseteq AllResources
           /\ ModelResource(m) \in runResources(m).resources
           /\ \A cfg \in Databases[m] :
                 \E d \in SettingsOf(cfg) : DatabaseResource(d) \in runResources(m).resources
<1>1. /\ runResources(m).model = m
      /\ runResources(m).resources
            = {ModelResource(m)} \cup {DatabaseResource(d) : d \in {Settings(m, cfg) : cfg \in Databases[m]}}
    BY DEF runResources, RequestOf
<1>2. \A cfg \in Databases[m] : Settings(m, cfg) \in SettingsOf(cfg)
    BY DEF Settings, SettingsOf
<1>3. \A cfg \in Databases[m] : cfg \in DbConfig
    BY DEF DbConfig, Model
<1>4. \A cfg \in Databases[m] : Settings(m, cfg) \in AllSettings
    BY <1>2, <1>3 DEF SettingsOf, AllSettings
<1>5. runResources(m).resources \subseteq AllResources
    BY <1>1, <1>4 DEF AllResources
<1>. QED
    BY <1>1, <1>2, <1>5

\* The registry starts empty.
LEMMA InitIInv == Init => IInv
<1>. SUFFICES ASSUME Init PROVE IInv
    OBVIOUS
<1>1. Shape /\ Running = {}
    BY DEF Init, Registry!Init, Shape, Running
<1>. QED
    BY <1>1 DEF IInv, HoldsItAll, Apart

\* A step that changes neither the registry nor who runs.
LEMMA RegistryKept ==
    ASSUME IInv, UNCHANGED <<holders, phase>>, defaulted' \subseteq Model \X DbConfig
    PROVE  IInv'
BY DEF IInv, Shape, HoldsItAll, Apart, Running

\* A backup starts only if what it asks for conflicts with nothing held.
LEMMA StartIInv ==
    ASSUME IInv, NEW t \in Task, NEW m \in Model, Start(t, m)
    PROVE  IInv'
<1>. DEFINE q == runResources(m)
           held == [model |-> q.model, resources |-> q.resources, runID |-> None]
<1>1. /\ phase[t] = "new" /\ ~ Registry!Conflicting(q.resources)
      /\ holders' = [holders EXCEPT ![t] = held]
      /\ phase' = [phase EXCEPT ![t] = "granted"]
      /\ defaulted' = defaulted
    BY DEF Start, Registry!Acquire
<1>2. held \in [model : Model, resources : SUBSET AllResources, runID : {None}]
    BY RunResources
<1>3. Shape'
    BY <1>1, <1>2 DEF IInv, Shape
<1>4. /\ \A s \in Task : /\ holders'[s] = IF s = t THEN held ELSE holders[s]
                         /\ phase'[s] = IF s = t THEN "granted" ELSE phase[s]
      /\ Running' = Running \cup {t} /\ t \notin Running
    BY <1>1 DEF IInv, Shape, Running
<1>5. held.model = m /\ held.resources = q.resources
    BY RunResources
<1>6. HoldsItAll'
    BY <1>4, <1>5, RunResources DEF IInv, HoldsItAll, Running
<1>7. held # Registry!NotHeld
    BY <1>5, NamesAssumption DEF Registry!NotHeld
<1>8. \A s \in Running : \A a \in q.resources, b \in holders[s].resources : ~ Registry!conflicts(a, b)
    BY <1>1 DEF IInv, Apart, Registry!Conflicting, Registry!Registered, Running
<1>9. Apart'
    <2>. SUFFICES ASSUME NEW s \in Running'
                  PROVE  /\ holders'[s] # Registry!NotHeld
                         /\ \A u \in Running' \ {s} :
                               \A a \in holders'[s].resources, b \in holders'[u].resources :
                                   ~ Registry!conflicts(a, b)
        BY DEF Apart, Registry!NotHeld, Registry!conflicts
    <2>1. s \in Task /\ \A u \in Running' : u \in Task
        BY DEF Running
    <2>2. CASE s = t
        BY <1>4, <1>5, <1>7, <1>8, <2>1, <2>2
    <2>3. CASE s # t
        <3>1. s \in Running /\ holders'[s] = holders[s]
            BY <1>4, <2>1, <2>3
        <3>2. ASSUME NEW u \in Running' \ {s}, NEW a \in holders'[s].resources,
                     NEW b \in holders'[u].resources
              PROVE  ~ Registry!conflicts(a, b)
            <4>1. CASE u = t
                BY <1>4, <1>5, <1>8, <2>1, <3>1, <4>1, ConflictsSymmetric
            <4>2. CASE u # t
                BY <1>4, <2>1, <3>1, <4>2 DEF IInv, Apart
            <4>. QED
                BY <4>1, <4>2
        <3>. QED
            BY <3>1, <3>2 DEF IInv, Apart
    <2>. QED
        BY <2>2, <2>3
<1>. QED
    BY <1>3, <1>6, <1>9 DEF IInv

\* Every step keeps the invariant.
LEMMA NextIInv == IInv /\ [Next]_vars => IInv'
<1>. SUFFICES ASSUME IInv, [Next]_vars PROVE IInv'
    OBVIOUS
<1>1. ASSUME NEW t \in Task, NEW m \in Model, Start(t, m) PROVE IInv'
    BY <1>1, StartIInv
<1>2. ASSUME NEW t \in Task, NEW m \in Model, Skip(t, m) PROVE IInv'
    <2>1. /\ phase[t] = "new" /\ phase' = [phase EXCEPT ![t] = "refused"]
          /\ UNCHANGED <<holders, defaulted>>
        BY <1>2 DEF Skip, Registry!Refuse
    <2>2. Shape' /\ Running' = Running
        BY <2>1 DEF IInv, Shape, Running
    <2>. QED
        BY <2>1, <2>2 DEF IInv, HoldsItAll, Apart
<1>3. ASSUME NEW t \in Task, NEW cfg \in DbConfig, InitDatabase(t, cfg) PROVE IInv'
    <2>1. /\ UNCHANGED <<holders, phase>>
          /\ t \in Running
          /\ defaulted' \subseteq defaulted \cup {<<holders[t].model, cfg>>}
        BY <1>3 DEF InitDatabase, Running
    <2>2. defaulted' \subseteq Model \X DbConfig
        BY <2>1 DEF IInv, Shape, HoldsItAll
    <2>. QED
        BY <2>1, <2>2, RegistryKept
<1>4. ASSUME NEW t \in Task, Finish(t) PROVE IInv'
    <2>1. /\ holders' = [holders EXCEPT ![t] = Registry!NotHeld]
          /\ phase' = [phase EXCEPT ![t] = "released"]
          /\ defaulted' = defaulted
        BY <1>4 DEF Finish, Registry!Release
    <2>2. Shape'
        BY <2>1 DEF IInv, Shape
    <2>3. /\ Running' = Running \ {t}
          /\ \A s \in Running' : holders'[s] = holders[s]
        BY <2>1 DEF IInv, Shape, Running
    <2>. QED
        BY <2>2, <2>3 DEF IInv, HoldsItAll, Apart, Registry!NotHeld, Registry!conflicts
<1>5. CASE Reload
    BY <1>5, RegistryKept DEF Reload
<1>6. CASE UNCHANGED vars
    BY <1>6, RegistryKept DEF vars, IInv, Shape
<1>. QED
    BY <1>1, <1>2, <1>3, <1>4, <1>5, <1>6 DEF Next

\* The invariant holds of every behaviour.
LEMMA SpecIInv == Spec => []IInv
BY InitIInv, NextIInv, PTL DEF Spec

-------------------------------------------------------------------------------

(***************************************************************************)
(* One model is never backed up twice at a time, for any configuration,    *)
(* whatever dumpers write into the settings and whenever they are loaded   *)
(* again (task.go, package comment, second rule).                          *)
(***************************************************************************)
THEOREM OneBackupOfAModel == Spec => []ModelExclusion
<1>1. IInv => ModelExclusion
    <2>. SUFFICES ASSUME IInv, NEW s \in Running, NEW t \in Running, s # t,
                         holders[s].model = holders[t].model
                  PROVE  FALSE
        BY DEF ModelExclusion
    <2>. DEFINE m == holders[s].model
    <2>1. /\ m \in Model
          /\ ModelResource(m) \in holders[s].resources
          /\ ModelResource(m) \in holders[t].resources
        BY DEF IInv, HoldsItAll
    <2>. QED
        BY <2>1, ModelConflicts DEF IInv, Apart
<1>. QED
    BY <1>1, SpecIInv, PTL

-------------------------------------------------------------------------------

\* The server of cfg is written out: an address, or a host and a port.
ServerWritten(cfg) == cfg.address # None \/ (cfg.host # None /\ cfg.port # None)

\* What a configuration must say for its environments to be told apart: where
\* two databases overlap, both or neither are in an exclusive_key group, and
\* if neither is, their servers are written out.
OverlapsAreWrittenOut ==
    \A a, b \in DbConfig : SameEnvironment(a, b) =>
        /\ a.exclusive_key = b.exclusive_key
        /\ a.exclusive_key = None => ServerWritten(a) /\ ServerWritten(b)

\* Servers are told apart part by part.
LEMMA Tuples ==
    /\ \A x, y, u, v : <<x, y>> = <<u, v>> => x = u /\ y = v
    /\ \A x, y, z, u, v, w : <<x, y, z>> = <<u, v, w>> => x = u /\ y = v /\ z = w
    /\ \A x, y, u, v, w : <<x, y>> # <<u, v, w>>
<1>1. \A x, y, u, v : <<x, y>> = <<u, v>> => x = u /\ y = v
    OBVIOUS
<1>2. \A x, y, z, u, v, w : <<x, y, z>> = <<u, v, w>> => x = u /\ y = v /\ z = w
    OBVIOUS
<1>3. ASSUME NEW x, NEW y, NEW u, NEW v, NEW w PROVE <<x, y>> # <<u, v, w>>
    <2>1. Len(<<x, y>>) = 2 /\ Len(<<u, v, w>>) = 3
        OBVIOUS
    <2>. QED
        BY <2>1
<1>. QED
    BY <1>1, <1>2, <1>3

\* The defaults change nothing but the host and the port.
LEMMA WithDefaultsFields ==
    ASSUME NEW cfg \in DbConfig, NEW d \in SettingsOf(cfg)
    PROVE  /\ d.type = cfg.type /\ d.address = cfg.address /\ d.name = cfg.name
           /\ d.all_databases = cfg.all_databases /\ d.database = cfg.database
           /\ d.exclusive_key = cfg.exclusive_key
           /\ cfg.host # None => d.host = cfg.host
           /\ cfg.port # None => d.port = cfg.port
           /\ d \in AllSettings
<1>1. DOMAIN cfg = {"name", "type", "address", "host", "port",
                    "all_databases", "database", "exclusive_key"}
    BY LocksAssumption
<1>2. d \in AllSettings
    BY DEF SettingsOf, AllSettings
<1>. QED
    BY <1>1, <1>2 DEF SettingsOf, WithDefaults

\* Databases on one written-out server have one identity.
LEMMA SameIdentity ==
    ASSUME NEW a \in DbConfig, NEW b \in DbConfig, Server(a) = Server(b),
           ServerWritten(a), ServerWritten(b),
           NEW d \in SettingsOf(a), NEW e \in SettingsOf(b)
    PROVE  Identity(d) = Identity(e)
<1>1. /\ a \in SettingsOf(a) /\ b \in SettingsOf(b)
      /\ WithDefaults(a) \in SettingsOf(a) /\ WithDefaults(b) \in SettingsOf(b)
    BY DEF SettingsOf
<1>2. CASE a.address # None
    <2>1. Server(a) = <<a.type, a.address>>
        BY <1>2 DEF Server
    <2>2. b.address # None
        <3>. SUFFICES ASSUME b.address = None PROVE FALSE
            OBVIOUS
        <3>1. Server(b) = <<b.type, WithDefaults(b).host, WithDefaults(b).port>>
            BY DEF Server
        <3>2. <<a.type, a.address>> = <<b.type, WithDefaults(b).host, WithDefaults(b).port>>
            BY Zenon, <2>1, <3>1
        <3>. QED
            BY Zenon, <3>2, Tuples
    <2>3. Server(b) = <<b.type, b.address>>
        BY <2>2 DEF Server
    <2>4. a.type = b.type /\ a.address = b.address
        <3>1. <<a.type, a.address>> = <<b.type, b.address>>
            BY Zenon, <2>1, <2>3
        <3>. QED
            BY Zenon, <3>1, Tuples
    <2>5. instanceName(d) = <<a.address>> /\ instanceName(e) = <<b.address>>
        BY <1>2, <2>2, WithDefaultsFields DEF instanceName
    <2>. QED
        BY <2>4, <2>5, WithDefaultsFields DEF Identity
<1>3. CASE a.address = None
    <2>1. Server(a) = <<a.type, WithDefaults(a).host, WithDefaults(a).port>>
        BY <1>3 DEF Server
    <2>2. b.address = None
        <3>. SUFFICES ASSUME b.address # None PROVE FALSE
            OBVIOUS
        <3>1. Server(b) = <<b.type, b.address>>
            BY DEF Server
        <3>2. <<b.type, b.address>> = <<a.type, WithDefaults(a).host, WithDefaults(a).port>>
            BY Zenon, <2>1, <3>1
        <3>. QED
            BY Zenon, <3>2, Tuples
    <2>3. Server(b) = <<b.type, WithDefaults(b).host, WithDefaults(b).port>>
        BY <2>2 DEF Server
    <2>4. /\ a.host # None /\ a.port # None /\ b.host # None /\ b.port # None
        BY <1>3, <2>2 DEF ServerWritten
    <2>5. /\ a.type = b.type /\ WithDefaults(a).host = WithDefaults(b).host
          /\ WithDefaults(a).port = WithDefaults(b).port
        <3>1. <<a.type, WithDefaults(a).host, WithDefaults(a).port>>
                = <<b.type, WithDefaults(b).host, WithDefaults(b).port>>
            BY Zenon, <2>1, <2>3
        <3>. QED
            BY Zenon, <3>1, Tuples
    <2>6. /\ WithDefaults(a).host = a.host /\ WithDefaults(a).port = a.port
          /\ WithDefaults(b).host = b.host /\ WithDefaults(b).port = b.port
        BY <1>1, <2>4, WithDefaultsFields
    <2>7. instanceName(d) = <<a.host, a.port>> /\ instanceName(e) = <<b.host, b.port>>
        BY <1>3, <2>2, <2>4, WithDefaultsFields DEF instanceName
    <2>. QED
        BY <2>5, <2>6, <2>7, WithDefaultsFields DEF Identity
<1>. QED
    BY <1>2, <1>3

\* Databases of one environment conflict, whichever of their settings are read.
LEMMA SameEnvironmentConflicts ==
    ASSUME OverlapsAreWrittenOut, NEW a \in DbConfig, NEW b \in DbConfig, SameEnvironment(a, b),
           NEW d \in SettingsOf(a), NEW e \in SettingsOf(b)
    PROVE  Registry!conflicts(DatabaseResource(d), DatabaseResource(e))
<1>. DEFINE r == DatabaseResource(d)
           s == DatabaseResource(e)
<1>1. /\ d.exclusive_key = a.exclusive_key /\ e.exclusive_key = b.exclusive_key
      /\ d.database = a.database /\ e.database = b.database
      /\ d.all_databases = a.all_databases /\ e.all_databases = b.all_databases
      /\ d \in AllSettings /\ e \in AllSettings
    BY WithDefaultsFields
<1>2. a.exclusive_key = b.exclusive_key
    BY DEF OverlapsAreWrittenOut
<1>3. CASE a.exclusive_key # None
    <2>1. /\ r.kind = "database" /\ s.kind = "database"
          /\ r.target = << <<"exclusive">>, a.exclusive_key>>
          /\ s.target = << <<"exclusive">>, a.exclusive_key>>
        BY <1>1, <1>2, <1>3 DEF DatabaseResource
    <2>2. r.target # None
        BY <1>1, <2>1, NamesAssumption
    <2>. QED
        BY <2>1, <2>2 DEF Registry!conflicts
<1>4. CASE a.exclusive_key = None
    <2>1. ServerWritten(a) /\ ServerWritten(b)
        BY <1>4 DEF OverlapsAreWrittenOut
    <2>2. SameDatabase(a, b)
        BY <1>2, <1>4 DEF SameEnvironment
    <2>3. Identity(d) = Identity(e) /\ Identity(d) # None
        BY <1>1, <2>1, <2>2, SameIdentity, NamesAssumption DEF SameDatabase
    <2>4. /\ r.kind = "database" /\ s.kind = "database"
          /\ r.instance = Identity(d) /\ s.instance = Identity(e)
          /\ r.target = IF targetName(d) = None THEN None ELSE <<Identity(d), targetName(d)>>
          /\ s.target = IF targetName(e) = None THEN None ELSE <<Identity(e), targetName(e)>>
        BY <1>1, <1>2, <1>4 DEF DatabaseResource
    <2>5. CASE Everything(a) \/ Everything(b)
        <3>1. targetName(d) = None \/ targetName(e) = None
            BY <1>1, <2>5 DEF Everything, targetName
        <3>. QED
            BY <2>3, <2>4, <3>1 DEF Registry!conflicts
    <2>6. CASE ~ Everything(a) /\ ~ Everything(b)
        <3>1. targetName(d) = a.database /\ targetName(e) = a.database /\ a.database # None
            BY <1>1, <2>2, <2>6 DEF Everything, targetName, SameDatabase
        <3>2. r.target = <<Identity(d), d.database>> /\ s.target = r.target
            BY <1>1, <2>3, <2>4, <3>1
        <3>3. r.target # None
            BY <1>1, <3>2, NamesAssumption
        <3>. QED
            BY <2>4, <3>2, <3>3 DEF Registry!conflicts
    <2>. QED
        BY <2>5, <2>6
<1>. QED
    BY <1>3, <1>4

(***************************************************************************)
(* One database environment is never in two running backups, for any       *)
(* configuration that writes out the servers where databases overlap: the  *)
(* first rule of task.go and the groups of resource.go.  The hypothesis is *)
(* what the port left out breaks.                                          *)
(***************************************************************************)
THEOREM OneBackupOfAnEnvironment ==
    ASSUME OverlapsAreWrittenOut
    PROVE  Spec => []EnvironmentExclusion
<1>1. IInv => EnvironmentExclusion
    <2>. SUFFICES ASSUME IInv, NEW s \in Running, NEW t \in Running, s # t,
                         NEW a \in DumpedBy(s), NEW b \in DumpedBy(t), SameEnvironment(a, b)
                  PROVE  FALSE
        BY DEF EnvironmentExclusion
    <2>1. holders[s].model \in Model /\ holders[t].model \in Model
        BY DEF IInv, HoldsItAll
    <2>2. a \in DbConfig /\ b \in DbConfig
        BY <2>1 DEF DumpedBy, DbConfig, Model
    <2>3. PICK d \in SettingsOf(a) : DatabaseResource(d) \in holders[s].resources
        BY DEF IInv, HoldsItAll, DumpedBy
    <2>4. PICK e \in SettingsOf(b) : DatabaseResource(e) \in holders[t].resources
        BY DEF IInv, HoldsItAll, DumpedBy
    <2>5. Registry!conflicts(DatabaseResource(d), DatabaseResource(e))
        BY <2>2, SameEnvironmentConflicts
    <2>. QED
        BY <2>3, <2>4, <2>5 DEF IInv, Apart
<1>. QED
    BY <1>1, SpecIInv, PTL

-------------------------------------------------------------------------------
(* The backups and the registry.                                           *)

\* The registry with what is proved of it.
TR == INSTANCE TaskRegistryProofs
    WITH Instance <- {r.instance : r \in AllResources} \ {None},
         Target   <- {r.target : r \in AllResources} \ {None},
         Request  <- UNION {{RequestOf(m, dbs) : dbs \in SUBSET AllSettings} : m \in Model}

\* What a backup asks for is one of the requests the registry is told of.
LEMMA BackupsRequest ==
    ASSUME NEW m \in Model, defaulted \subseteq Model \X DbConfig
    PROVE  runResources(m) \in UNION {{RequestOf(n, dbs) : dbs \in SUBSET AllSettings} : n \in Model}
<1>1. \A cfg \in Databases[m] : Settings(m, cfg) \in AllSettings
    BY DEF Settings, AllSettings, DbConfig
<1>2. {Settings(m, cfg) : cfg \in Databases[m]} \in SUBSET AllSettings
    BY <1>1
<1>. DEFINE Of(n) == {RequestOf(n, dbs) : dbs \in SUBSET AllSettings}
<1>3. runResources(m) \in Of(m)
    BY <1>2 DEF runResources
<1>. QED
    BY Zenon, <1>3

\* Each step of a backup is one call of the registry, or none.
LEMMA StepsAreCalls ==
    ASSUME IInv, [Next]_vars
    PROVE  [TR!Next]_(TR!vars)
<1>1. ASSUME NEW t \in Task, NEW m \in Model, Start(t, m) \/ Skip(t, m) PROVE TR!Next
    <2>1. runResources(m) \in UNION {{RequestOf(n, dbs) : dbs \in SUBSET AllSettings} : n \in Model}
        BY BackupsRequest DEF IInv, Shape
    <2>2. TR!Acquire(t, runResources(m)) \/ TR!Refuse(t, runResources(m))
        BY <1>1 DEF Start, Skip, Registry!Acquire, TR!Acquire, Registry!Refuse, TR!Refuse,
           Registry!Conflicting, TR!Conflicting, Registry!Registered, TR!Registered,
           Registry!NotHeld, TR!NotHeld, Registry!conflicts, TR!conflicts
    <2>. QED
        BY <2>1, <2>2 DEF TR!Next
<1>2. ASSUME NEW t \in Task, Finish(t) PROVE TR!Next
    <2>1. TR!Release(t)
        BY <1>2 DEF Finish, Registry!Release, TR!Release, Registry!NotHeld, TR!NotHeld
    <2>. QED
        BY <2>1 DEF TR!Next
<1>3. ASSUME NEW t \in Task, NEW cfg \in DbConfig, InitDatabase(t, cfg) PROVE UNCHANGED TR!vars
    BY <1>3 DEF InitDatabase, TR!vars
<1>4. CASE Reload \/ UNCHANGED vars
    BY <1>4 DEF Reload, vars, TR!vars
<1>. QED
    BY <1>1, <1>2, <1>3, <1>4 DEF Next

(***************************************************************************)
(* Whatever the backups do, and however their settings change meanwhile,   *)
(* they are callers of the registry (model/lock.go) that use it as it is   *)
(* specified.                                                              *)
(***************************************************************************)
THEOREM BackupsUseTheRegistry == Spec => TR!Spec
<1>1. Init => TR!Init
    BY DEF Init, Registry!Init, TR!Init, Registry!NotHeld, TR!NotHeld
<1>2. IInv /\ [Next]_vars => [TR!Next]_(TR!vars)
    BY StepsAreCalls
<1>. QED
    BY <1>1, <1>2, SpecIInv, PTL DEF Spec, TR!Spec

\* An identity is of two strings or more.
LEMMA IdentityIsLonger ==
    ASSUME NEW d, NEW x PROVE Identity(d) # <<x>>
<1>1. \E a, s : Identity(d) = <<a>> \o s /\ \E b, c : s \in {<<b>>, <<b, c>>}
    <2>1. \E b, c : instanceName(d) \in {<<b>>, <<b, c>>}
        <3>1. instanceName(d) \in {<<d.address>>, <<d.host, d.port>>, <<d.host>>, <<d.name>>}
            BY DEF instanceName
        <3>. QED
            BY <3>1
    <2>. QED
        BY <2>1 DEF Identity
<1>2. ASSUME NEW a, NEW b, NEW c
      PROVE  <<a>> \o <<b>> # <<x>> /\ <<a>> \o <<b, c>> # <<x>>
    <2>1. Len(<<a>> \o <<b>>) = 2 /\ Len(<<a>> \o <<b, c>>) = 3 /\ Len(<<x>>) = 1
        OBVIOUS
    <2>. QED
        BY <2>1
<1>. QED
    BY <1>1, <1>2

IsModel(r) ==
    \E m \in Model : r = [kind |-> "model", instance |-> None, target |-> << <<"model">>, m>>]
IsGroup(r) ==
    \E d \in AllSettings : r = [kind |-> "database", instance |-> None,
                                target |-> << <<"exclusive">>, d.exclusive_key>>]
IsDatabase(r) ==
    \E d \in AllSettings :
        /\ r \in [kind : {"database"}, instance : {Identity(d)},
                  target : {None, <<Identity(d), d.database>>}]

\* The three forms of what a backup asks for.
LEMMA ResourceForms ==
    ASSUME NEW r \in AllResources PROVE IsModel(r) \/ IsGroup(r) \/ IsDatabase(r)
<1>1. CASE \E m \in Model : r = ModelResource(m)
    BY <1>1 DEF ModelResource, IsModel
<1>2. ASSUME NEW d \in AllSettings, r = DatabaseResource(d)
      PROVE  IsGroup(r) \/ IsDatabase(r)
    <2>1. CASE d.exclusive_key # None
        BY <1>2, <2>1 DEF DatabaseResource, IsGroup
    <2>2. CASE d.exclusive_key = None
        BY <1>2, <2>2 DEF DatabaseResource, IsDatabase, targetName
    <2>. QED
        BY <2>1, <2>2
<1>. QED
    BY <1>1, <1>2 DEF AllResources

\* Equal targets are on one instance: the target's string begins with it.
LEMMA TargetsNameInstances ==
    ASSUME NEW a \in AllResources, NEW b \in AllResources,
           a.kind = b.kind, a.target # None, a.target = b.target
    PROVE  a.instance = b.instance
<1>1. \A x, y, u, v : <<x, y>> = <<u, v>> => x = u /\ y = v
    BY Tuples
<1>2. ASSUME NEW p \in AllResources, NEW q \in AllResources, IsGroup(p), IsDatabase(q),
             q.target # None, p.target = q.target
      PROVE  FALSE
    <2>1. PICK d : p.target = << <<"exclusive">>, d.exclusive_key>>
        BY <1>2 DEF IsGroup
    <2>2. PICK e : q.target = <<Identity(e), e.database>>
        BY <1>2 DEF IsDatabase
    <2>3. Identity(e) = <<"exclusive">>
        <3>1. <<Identity(e), e.database>> = << <<"exclusive">>, d.exclusive_key>>
            BY Zenon, <1>2, <2>1, <2>2
        <3>. QED
            BY Zenon, <3>1, <1>1
    <2>. QED
        BY <2>3, IdentityIsLonger
<1>3. \A r : (IsModel(r) => r.kind = "model") /\ (IsDatabase(r) => r.kind = "database")
    BY DEF IsModel, IsDatabase
<1>4. "model" # "database"
    OBVIOUS
<1>5. CASE IsDatabase(a) /\ IsDatabase(b)
    <2>1. PICK d : a.instance = Identity(d) /\ a.target = <<Identity(d), d.database>>
        BY <1>5 DEF IsDatabase
    <2>2. PICK e : b.instance = Identity(e) /\ b.target = <<Identity(e), e.database>>
        BY <1>5 DEF IsDatabase
    <2>3. Identity(d) = Identity(e)
        <3>1. <<Identity(d), d.database>> = <<Identity(e), e.database>>
            BY Zenon, <2>1, <2>2
        <3>. QED
            BY Zenon, <3>1, <1>1
    <2>. QED
        BY <2>1, <2>2, <2>3
<1>6. CASE ~ IsDatabase(a) /\ ~ IsDatabase(b)
    <2>1. a.instance = None /\ b.instance = None
        BY <1>6, ResourceForms DEF IsModel, IsGroup
    <2>. QED
        BY <2>1
<1>7. CASE IsDatabase(a) /\ ~ IsDatabase(b)
    <2>1. IsGroup(b)
        <3>1. IsModel(b) \/ IsGroup(b) \/ IsDatabase(b)
            BY ResourceForms
        <3>. QED
            BY <1>7, <1>3, <1>4, <3>1
    <2>. QED
        BY <1>2, <1>7, <2>1
<1>8. CASE ~ IsDatabase(a) /\ IsDatabase(b)
    <2>1. IsGroup(a)
        <3>1. IsModel(a) \/ IsGroup(a) \/ IsDatabase(a)
            BY ResourceForms
        <3>. QED
            BY <1>8, <1>3, <1>4, <3>1
    <2>. QED
        BY <1>2, <1>8, <2>1
<1>. QED
    BY <1>5, <1>6, <1>7, <1>8

Asked == UNION {{RequestOf(m, dbs) : dbs \in SUBSET AllSettings} : m \in Model}

\* Requests are made of those resources.
LEMMA AskedFor ==
    ASSUME NEW q \in Asked
    PROVE  \E m \in Model : \E resources \in SUBSET AllResources :
               q = [model |-> m, resources |-> resources]
<1>1. PICK m \in Model : \E dbs \in SUBSET AllSettings : q = RequestOf(m, dbs)
    BY DEF Asked
<1>2. PICK dbs \in SUBSET AllSettings : q = RequestOf(m, dbs)
    BY <1>1
<1>3. {ModelResource(m)} \cup {DatabaseResource(d) : d \in dbs} \subseteq AllResources
    BY DEF AllResources
<1>. QED
    BY <1>2, <1>3 DEF RequestOf

\* What the registry assumes of its requests holds of those of the backups.
LEMMA RegistryAssumption == TR!RequestAssumption
<1>. DEFINE Instances == {r.instance : r \in AllResources} \ {None}
           Targets   == {r.target : r \in AllResources} \ {None}
<1>1. AllResources \subseteq TR!Resource
    <2>. SUFFICES ASSUME NEW r \in AllResources PROVE r \in TR!Resource
        OBVIOUS
    <2>1. r = [kind |-> r.kind, instance |-> r.instance, target |-> r.target]
          /\ r.kind \in {"model", "database"}
        BY ResourceForms DEF IsModel, IsGroup, IsDatabase
    <2>2. r.instance \in Instances \cup {None} /\ r.target \in Targets \cup {None}
        OBVIOUS
    <2>. QED
        BY <2>1, <2>2 DEF TR!Resource, TR!Kind, TR!KindModel, TR!KindDatabase
<1>2. Asked \subseteq [model : Model, resources : SUBSET TR!Resource]
    BY <1>1, AskedFor
<1>3. Instances \cap Targets = {}
    <2>. SUFFICES ASSUME NEW a \in AllResources, NEW b \in AllResources,
                         a.instance # None, b.target # None
                  PROVE  a.instance # b.target
        OBVIOUS
    <2>1. PICK d \in AllSettings : a.instance = Identity(d)
        BY ResourceForms DEF IsModel, IsGroup, IsDatabase
    <2>2. \/ \E e \in AllSettings : b.target \in {<<Identity(e), e.database>>,
                                                 << <<"exclusive">>, e.exclusive_key>>}
          \/ \E m \in Model : b.target = << <<"model">>, m>>
        BY ResourceForms DEF IsModel, IsGroup, IsDatabase
    <2>. QED
        BY <2>1, <2>2, IdentitiesAssumption
<1>4. TR!AllResources \subseteq AllResources
    BY AskedFor DEF TR!AllResources, Asked
<1>5. None \notin Instances \cup Targets \cup Task \cup Model
    BY NamesAssumption, IdentitiesAssumption
<1>. HIDE DEF Instances, Targets
<1>6. \A a, b \in TR!AllResources :
          a.kind = b.kind /\ a.target # None /\ a.target = b.target => a.instance = b.instance
    BY <1>4, TargetsNameInstances
<1>. QED
    BY <1>2, <1>3, <1>5, <1>6 DEF TR!RequestAssumption, Asked, Instances, Targets

(***************************************************************************)
(* The first rule of task.go's package comment, for the backups: every     *)
(* point (a model, a database, the root of an instance) has one owner at   *)
(* most, whatever the settings the resources were computed from, and a     *)
(* backup takes all its points in one step or none.                        *)
(***************************************************************************)
THEOREM BackupsOwnExclusively == Spec => TR!ImplementsOwnership
<1>1. TR!Spec => TR!ImplementsOwnership
    BY RegistryAssumption, TR!Refinement DEF TR!RequestAssumption
<1>. QED
    BY <1>1, BackupsUseTheRegistry, PTL
===============================================================================
