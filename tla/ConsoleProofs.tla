----------------------------- MODULE ConsoleProofs -----------------------------
(***************************************************************************)
(* Proofs about the console's talk with the server.                        *)
(*                                                                         *)
(* WebSession: type correctness, and that whoever waits for a refresh is   *)
(* waited for, for any number and kinds of requests.                       *)
(*                                                                         *)
(* TaskCenter: whatever polls, refreshes, starts, deletions and changes of *)
(* page overlap, no list on the screen is replaced by an older one, and a  *)
(* deleted row stays away; for any backups and scenarios.                  *)
(***************************************************************************)
EXTENDS WebSession, TaskCenter, TLAPS

\* A request: where it is, its token, its retries.
RequestState == [at : Stage, token : Password \cup {None}, retried : BOOLEAN, failures : 0 .. 2]

\* The session and the counters.
SessionShape ==
  /\ valid \in Password \cup {Open}
  /\ session \in Password \cup {None} /\ stored \in Password \cup {None}
  /\ refreshing \in [at : {"sent", "granted", "refused"}, token : Password] \cup {None}
  /\ changes \in Nat /\ lost \in Nat /\ reloads \in Nat

IInv == TypeOK /\ NobodyWaitsAlone

-------------------------------------------------------------------------------

\* Type correctness is that of the session and of the requests.
LEMMA TypeSplit == TypeOK <=> SessionShape /\ req \in [Request -> RequestState]
BY DEF TypeOK, SessionShape, RequestState

\* A request that has not been sent is one.
LEMMA IdleIsRequest == Idle \in RequestState /\ Idle.at # "waiting"
BY DEF Idle, RequestState, Stage

\* A request that is sent, or will be again, is one and does not wait.
LEMMA SentIsRequest ==
  ASSUME NEW x \in RequestState, NEW token \in Password \cup {None}
  PROVE  /\ [x EXCEPT !.at = "sent", !.token = token] \in RequestState
         /\ [x EXCEPT !.at = "sent", !.token = token].at # "waiting"
BY DEF RequestState, Stage

\* So is one that failed and waits to be sent again.
LEMMA BackedOffIsRequest ==
  ASSUME NEW x \in RequestState, NEW n \in 0 .. 2
  PROVE  /\ [x EXCEPT !.at = "backoff", !.failures = n] \in RequestState
         /\ [x EXCEPT !.at = "backoff", !.failures = n].at # "waiting"
BY DEF RequestState, Stage

\* At first nobody waits.
LEMMA InitIInv == Init => IInv
<1> SUFFICES ASSUME Init PROVE IInv
  OBVIOUS
<1>1. SessionShape
  BY DEF Init, SessionShape
<1>2. req \in [Request -> RequestState]
  BY IdleIsRequest DEF Init
<1>3. NobodyWaitsAlone
  BY IdleIsRequest DEF Init, NobodyWaitsAlone
<1> QED BY <1>1, <1>2, <1>3, TypeSplit DEF IInv

\* A step of one request that does not make it wait, and of no refresh.
LEMMA OneRequest ==
  ASSUME IInv, NEW r \in Request, NEW state \in RequestState, state.at # "waiting",
         req' = [req EXCEPT ![r] = state], UNCHANGED refreshing, SessionShape'
  PROVE  IInv'
<1>1. req' \in [Request -> RequestState]
  BY TypeSplit DEF IInv
<1>2. TypeOK'
  BY <1>1, TypeSplit DEF TypeOK, SessionShape, RequestState
<1>3. \A s \in Request : req'[s] = IF s = r THEN state ELSE req[s]
  BY TypeSplit DEF IInv
<1>4. NobodyWaitsAlone'
  BY <1>3 DEF IInv, NobodyWaitsAlone
<1> QED BY <1>2, <1>4 DEF IInv

\* A step after which nobody waits.
LEMMA NobodyWaits ==
  ASSUME SessionShape', req' \in [Request -> RequestState],
         \A s \in Request : req'[s].at # "waiting"
  PROVE  IInv'
BY DEF IInv, NobodyWaitsAlone, TypeOK, SessionShape, RequestState

\* A step that leaves the requests and their refresh alone.
LEMMA RequestsKept ==
  ASSUME IInv, UNCHANGED req, SessionShape',
         refreshing' = refreshing \/ (refreshing # None /\ refreshing' # None)
  PROVE  IInv'
BY DEF IInv, NobodyWaitsAlone, TypeOK, SessionShape, RequestState

\* Giving up leaves nobody waiting.
LEMMA GivenUp ==
  ASSUME IInv, GiveUp, UNCHANGED serverVars, UNCHANGED reloads, lost' \in Nat
  PROVE  IInv'
<1>1. req \in [Request -> RequestState]
  BY TypeSplit DEF IInv
<1>2. req' \in [Request -> RequestState] /\ \A s \in Request : req'[s].at # "waiting"
  BY <1>1, IdleIsRequest DEF GiveUp
<1>3. SessionShape'
  BY DEF IInv, TypeOK, GiveUp, clearSession, setSession, SessionShape, serverVars
<1> QED BY <1>2, <1>3, NobodyWaits

\* Every step keeps the invariant.
LEMMA NextIInv == IInv /\ [Next]_vars => IInv'
<1> SUFFICES ASSUME IInv, [Next]_vars PROVE IInv'
  OBVIOUS
<1> USE DEF serverVars
<1>1. SessionShape /\ req \in [Request -> RequestState]
  BY TypeSplit DEF IInv
<1>2. ASSUME NEW r \in Request, Send(r) PROVE IInv'
  <2>1. PICK token \in Password :
          req' = [req EXCEPT ![r] = [Idle EXCEPT !.at = "sent", !.token = token]]
    BY <1>2 DEF Send
  <2>2. SessionShape' /\ UNCHANGED refreshing
    BY <1>1, <1>2 DEF Send, SessionShape
  <2> QED BY <2>1, <2>2, SentIsRequest, IdleIsRequest, OneRequest
<1>3. ASSUME NEW r \in Request, Decide(r) PROVE IInv'
  <2>1. PICK to \in {"granted", "refused"} : req' = [req EXCEPT ![r] = [req[r] EXCEPT !.at = to]]
    BY <1>1, <1>3 DEF Decide
  <2>2. /\ [req[r] EXCEPT !.at = to] \in RequestState
        /\ [req[r] EXCEPT !.at = to].at # "waiting"
    BY <1>1, <2>1 DEF RequestState, Stage
  <2>3. SessionShape' /\ UNCHANGED refreshing
    BY <1>1, <1>3 DEF Decide, SessionShape
  <2> QED BY <2>1, <2>2, <2>3, OneRequest
<1>4. ASSUME NEW r \in Request, Granted(r) PROVE IInv'
  <2>1. req' = [req EXCEPT ![r] = Idle] /\ UNCHANGED <<refreshing, valid, changes, lost, reloads>>
    BY <1>4 DEF Granted
  <2>2. req[r].token \in Password \cup {None}
    BY <1>1 DEF RequestState
  <2>3. \/ session' = req[r].token /\ stored' = req[r].token
        \/ session' = None /\ stored' = None
        \/ UNCHANGED <<session, stored>>
    BY <1>4 DEF Granted, setSession, clearSession
  <2>4. SessionShape'
    BY <1>1, <2>1, <2>2, <2>3 DEF SessionShape
  <2> QED BY <2>1, <2>4, OneRequest, IdleIsRequest
<1>5. ASSUME NEW r \in Request, AwaitRefresh(r) PROVE IInv'
  <2>1. /\ ~req[r].retried /\ (refreshing # None \/ session # None)
        /\ req' = [req EXCEPT ![r] = [req[r] EXCEPT !.at = "waiting"]]
        /\ refreshing' = IF refreshing # None THEN refreshing ELSE [at |-> "sent", token |-> session]
        /\ UNCHANGED <<valid, changes, session, stored, lost, reloads>>
    BY <1>1, <1>5 DEF AwaitRefresh
  <2>2. ~req[r].retried /\ (refreshing # None \/ session # None)
    BY <1>5 DEF AwaitRefresh
  <2> DEFINE state == [req[r] EXCEPT !.at = "waiting"]
  <2>3. state \in RequestState /\ ~state.retried
    BY <1>1, <2>2 DEF RequestState, Stage
  <2>4. req' \in [Request -> RequestState]
        /\ \A s \in Request : req'[s] = IF s = r THEN state ELSE req[s]
    BY <1>1, <2>1, <2>3
  <2>5. refreshing' \in [at : {"sent", "granted", "refused"}, token : Password]
    BY <1>1, <2>1, <2>2 DEF SessionShape
  <2>6. refreshing' # None
    BY <2>5, NoneAssumption
  <2>7. SessionShape'
    BY <1>1, <2>1, <2>5 DEF SessionShape
  <2>8. NobodyWaitsAlone'
    BY <2>3, <2>4, <2>6 DEF IInv, NobodyWaitsAlone
  <2>9. TypeOK'
    BY <2>4, <2>7 DEF TypeOK, SessionShape, RequestState
  <2> QED BY <2>8, <2>9 DEF IInv
<1>6. ASSUME NEW r \in Request, Unauthorized(r) \/ Abandon(r) PROVE IInv'
  <2>1. req' = [req EXCEPT ![r] = Idle] /\ UNCHANGED refreshing
    BY <1>6 DEF Unauthorized, Abandon
  <2>2. SessionShape'
    BY <1>1, <1>6 DEF Unauthorized, Abandon, clearSession, setSession, SessionShape
  <2> QED BY <2>1, <2>2, OneRequest, IdleIsRequest
<1>7. ASSUME NEW r \in Request, Fail(r) PROVE IInv'
  <2> DEFINE again == [Idle EXCEPT !.at = "backoff", !.failures = req[r].failures + 1]
  <2>1. req' = [req EXCEPT ![r] = Idle] \/ (req[r].failures < 2 /\ req' = [req EXCEPT ![r] = again])
    BY <1>7 DEF Fail
  <2>2. ASSUME req[r].failures < 2 PROVE again \in RequestState /\ again.at # "waiting"
    <3>1. req[r].failures + 1 \in 0 .. 2
      BY <1>1, <2>2 DEF RequestState
    <3> QED BY <3>1, IdleIsRequest, BackedOffIsRequest
  <2>3. SessionShape' /\ UNCHANGED refreshing
    BY <1>1, <1>7 DEF Fail, LogoutEnded, clearSession, setSession, SessionShape
  <2> HIDE DEF again
  <2> QED BY <2>1, <2>2, <2>3, OneRequest, IdleIsRequest
<1>8. ASSUME NEW r \in Request, Resend(r) PROVE IInv'
  <2>1. req' = [req EXCEPT ![r] = [req[r] EXCEPT !.at = "sent", !.token = session]]
    BY <1>1, <1>8 DEF Resend
  <2>2. SessionShape' /\ UNCHANGED refreshing /\ session \in Password \cup {None}
    BY <1>1, <1>8 DEF Resend, SessionShape
  <2> QED BY <1>1, <2>1, <2>2, SentIsRequest, OneRequest
<1>9. CASE RefreshDecide
  <2>1. /\ refreshing # None
        /\ \E to \in {"granted", "refused"} : refreshing' = [refreshing EXCEPT !.at = to]
        /\ UNCHANGED <<valid, changes, session, stored, req, lost, reloads>>
    BY <1>9 DEF RefreshDecide
  <2>2. refreshing' \in [at : {"sent", "granted", "refused"}, token : Password]
    BY <1>1, <2>1 DEF SessionShape
  <2>3. SessionShape'
    BY <1>1, <2>1, <2>2 DEF SessionShape
  <2>4. refreshing' # None
    BY <2>2, NoneAssumption
  <2> QED BY <2>1, <2>3, <2>4, RequestsKept
<1>10. CASE RefreshGranted
  <2>1. /\ refreshing # None /\ refreshing' = None
        /\ session' = refreshing.token /\ stored' = refreshing.token
        /\ req' = [r \in Request |-> IF req[r].at = "waiting" THEN Retried(r) ELSE req[r]]
        /\ UNCHANGED <<valid, changes, lost, reloads>>
    BY <1>10 DEF RefreshGranted, setSession
  <2>2. refreshing.token \in Password
    BY <1>1, <2>1 DEF SessionShape
  <2>3. ASSUME NEW r \in Request
        PROVE  Retried(r) \in RequestState /\ Retried(r).at # "waiting"
    BY <1>1, <2>2 DEF Retried, RequestState, Stage
  <2>4. req' \in [Request -> RequestState] /\ \A s \in Request : req'[s].at # "waiting"
    BY <1>1, <2>1, <2>3
  <2>5. SessionShape'
    BY <1>1, <2>1, <2>2 DEF SessionShape
  <2> QED BY <2>4, <2>5, NobodyWaits
<1>11. CASE RefreshRefused \/ RefreshFails
  <2>1. GiveUp /\ UNCHANGED <<valid, changes, reloads>> /\ lost' \in Nat
    BY <1>1, <1>11 DEF RefreshRefused, RefreshFails, SessionShape
  <2> QED BY <2>1, GivenUp
<1>12. CASE ChangePassword \/ OtherWindow \/ UNCHANGED vars
  <2>1. UNCHANGED <<req, refreshing>>
    BY <1>12 DEF ChangePassword, OtherWindow, vars
  <2>2. SessionShape'
    BY <1>1, <1>12 DEF ChangePassword, OtherWindow, vars, SessionShape
  <2> QED BY <2>1, <2>2, RequestsKept
<1>13. CASE Reload
  <2>1. req' \in [Request -> RequestState] /\ \A s \in Request : req'[s].at # "waiting"
    BY <1>13, IdleIsRequest DEF Reload
  <2>2. SessionShape'
    BY <1>1, <1>13 DEF Reload, SessionShape
  <2> QED BY <2>1, <2>2, NobodyWaits
<1> QED BY <1>2, <1>3, <1>4, <1>5, <1>6, <1>7, <1>8, <1>9, <1>10, <1>11, <1>12, <1>13
        DEF Next, Progress, RefreshProgress

-------------------------------------------------------------------------------

(***************************************************************************)
(* Whoever waits for a refresh is waited for, and nobody waits twice, for  *)
(* any requests, answers lost and passwords changed (http.ts,              *)
(* token-refresh.ts).                                                      *)
(***************************************************************************)
THEOREM WaitersAreWaitedFor == Spec => []NobodyWaitsAlone
<1>1. IInv => NobodyWaitsAlone
  BY DEF IInv
<1> QED BY <1>1, InitIInv, NextIInv, PTL DEF Spec

(***************************************************************************)
(* Every variable of the session keeps its type: in particular no query is *)
(* tried more than three times.                                            *)
(***************************************************************************)
THEOREM TypeCorrect == Spec => []TypeOK
<1>1. IInv => TypeOK
  BY DEF IInv
<1> QED BY <1>1, InitIInv, NextIInv, PTL DEF Spec

--------------------------------------------------------------------------------
(* The lists of backups.                                                   *)

RecordState == {"unborn", "running", "ended", "removed"}

\* An answer, one half read, and a fetch at any stage.
Known == [at : {"full"}, rows : [Run -> {"none", "running", "ended"}], live : SUBSET Run, version : Nat]
Begun == [at : {"half"}, live : SUBSET Run, version : Nat]
Fetch == Known \cup Begun \cup {Asked}

LEMMA KindsOfFetch ==
  ASSUME NEW a \in Fetch
  PROVE  /\ a.at = "full" => a \in Known
         /\ a.at = "half" => a \in Begun
         /\ a # Asked => a.version \in Nat
BY DEF Fetch, Known, Begun, Asked

LEMMA AskedIsAFetch == Asked \in Fetch /\ Asked.at = "asked"
BY DEF Fetch, Asked

Shape ==
  /\ record \in [Run -> RecordState] /\ live \in SUBSET Run /\ version \in Nat
  /\ page \in Page
  /\ cache \in [Query -> Known \cup {Nothing}]
  /\ fetches \in [Query -> SUBSET Fetch]
  /\ gone \in [Query -> SUBSET Run]
  /\ removing # Nothing => removing.run \in Run

\* A list is fetched once at a time, and only while it is shown.
OneFetch ==
  \A q \in Query : /\ \A a, b \in fetches[q] : a = b
                   /\ q \notin Active => fetches[q] = {}

\* An answer under way is no older than the list shown, and no newer than the
\* server.
InOrder ==
  \A q \in Query :
    /\ cache[q] # Nothing => cache[q].version =< version
    /\ \A a \in fetches[q] \ {Asked} :
         /\ a.version =< version
         /\ cache[q] # Nothing => cache[q].version =< a.version

\* A list that still shows row r, deleted here, is to be fetched again: a fetch
\* is under way, or the last one failed, or its page is not shown.
Outdated(q, r) ==
  /\ q \in invalid
  /\ fetches[q] # {} \/ q \in failed \/ q \notin Active

\* The answer has a row of r, and not because r was going on.
RowOf(q, answer, r) == answer.rows[r] # "none" /\ ~ (q = "tasks" /\ r \in answer.live)

\* A row deleted here is deleted for the server and for every answer under way.
Forgotten(q, r) ==
  /\ record[r] = "removed"
  /\ \A a \in fetches[q] : a.at = "full" => ~ RowOf(q, a, r)
  /\ cache[q] = Nothing \/ ~ RowOf(q, cache[q], r) \/ Outdated(q, r)

GoneIsForgotten == \A q \in Query : \A r \in gone[q] : Forgotten(q, r)

CacheInv == Shape /\ OneFetch /\ InOrder /\ GoneIsForgotten

-------------------------------------------------------------------------------

\* At first nothing is known, and nothing deleted.
LEMMA InitCacheInv == CacheInit => CacheInv
<1> SUFFICES ASSUME CacheInit PROVE CacheInv
  OBVIOUS
<1>1. Shape
  BY ScenariosAssumption, AskedIsAFetch DEF CacheInit, Shape, RecordState
<1>2. OneFetch /\ InOrder /\ GoneIsForgotten
  BY DEF CacheInit, OneFetch, InOrder, GoneIsForgotten, Active
<1> QED BY <1>1, <1>2 DEF CacheInv

\* A step that leaves the lists alone: the server moves on, and no row that
\* remains forgotten comes back.
LEMMA ServerMoves ==
  ASSUME CacheInv, Shape', UNCHANGED <<page, queryVars>>, version =< version',
         \A q \in Query : \A r \in gone'[q] : r \in gone[q] /\ record'[r] = "removed"
  PROVE  CacheInv'
<1>1. OneFetch'
  BY DEF CacheInv, OneFetch, Active, queryVars
<1>2. InOrder'
  <2>1. version \in Nat /\ version' \in Nat
    BY DEF CacheInv, Shape
  <2>2. ASSUME NEW q \in Query, cache[q] # Nothing PROVE cache[q].version \in Nat
    BY <2>2 DEF CacheInv, Shape, Known
  <2>3. ASSUME NEW q \in Query, NEW a \in fetches[q] \ {Asked} PROVE a.version \in Nat
    BY <2>3, KindsOfFetch DEF CacheInv, Shape
  <2> QED BY <2>1, <2>2, <2>3 DEF CacheInv, InOrder, queryVars
<1>3. GoneIsForgotten'
  BY DEF CacheInv, GoneIsForgotten, Forgotten, RowOf, Outdated, Active, queryVars
<1> QED BY <1>1, <1>2, <1>3 DEF CacheInv

\* Beginning a backup brings no deleted record back.
LEMMA BeginMoves ==
  ASSUME CacheInv, NEW r \in Run, Begin(r), UNCHANGED gone
  PROVE  /\ record' \in [Run -> RecordState] /\ live' \in SUBSET Run
         /\ version' \in Nat /\ version =< version'
         /\ \A q \in Query : \A s \in gone'[q] : s \in gone[q] /\ record'[s] = "removed"
BY DEF CacheInv, Shape, GoneIsForgotten, Forgotten, Begin, RecordState

\* Invalidating some lists leaves the others, and makes a shown one fetched.
LEMMA InvalidateKeeps ==
  ASSUME CacheInv, NEW Q \in SUBSET Query, Invalidate(Q),
         UNCHANGED <<recordVars, page>>
  PROVE  /\ cache' = cache /\ failed' = failed /\ invalid' = invalid \cup Q
         /\ fetches' \in [Query -> SUBSET Fetch]
         /\ \A q \in Query : fetches'[q] = fetches[q] \/ (fetches'[q] = {Asked} /\ q \in Active)
         /\ \A q \in Q : q \in Active /\ (cache[q] # Nothing \/ fetches[q] = {}) => fetches'[q] = {Asked}
         /\ OneFetch' /\ InOrder'
         /\ \A q \in Query : \A r \in Run : Forgotten(q, r) => Forgotten(q, r)'
<1>1. /\ cache' = cache /\ failed' = failed /\ invalid' = invalid \cup Q
      /\ fetches' \in [Query -> SUBSET Fetch]
  BY AskedIsAFetch DEF Invalidate, CacheInv, Shape
<1>2. \A q \in Query : fetches'[q] = fetches[q] \/ (fetches'[q] = {Asked} /\ q \in Active)
  BY DEF Invalidate
<1>3. \A q \in Q : q \in Active /\ (cache[q] # Nothing \/ fetches[q] = {}) => fetches'[q] = {Asked}
  BY DEF Invalidate
<1>4. OneFetch'
  BY <1>2 DEF CacheInv, OneFetch, Active
<1>5. InOrder'
  BY <1>1, <1>2 DEF CacheInv, InOrder, recordVars
<1>6. \A q \in Query : \A r \in Run : Forgotten(q, r) => Forgotten(q, r)'
  BY <1>1, <1>2, AskedIsAFetch DEF Forgotten, RowOf, Outdated, Active, recordVars
<1> QED BY <1>1, <1>2, <1>3, <1>4, <1>5, <1>6

\* Invalidating alone keeps the invariant.
LEMMA InvalidateStep ==
  ASSUME CacheInv, NEW Q \in SUBSET Query, Invalidate(Q),
         UNCHANGED <<recordVars, page, removing, gone>>
  PROVE  CacheInv'
<1>1. Shape'
  BY InvalidateKeeps DEF CacheInv, Shape, recordVars
<1>2. GoneIsForgotten'
  BY InvalidateKeeps DEF CacheInv, Shape, GoneIsForgotten
<1> QED BY <1>1, <1>2, InvalidateKeeps DEF CacheInv

\* A poll or the button asks for a shown list that is not being fetched.
LEMMA AskStep ==
  ASSUME CacheInv, NEW q \in Query, q \in Active, fetches[q] = {},
         fetches' = [fetches EXCEPT ![q] = {Asked}],
         UNCHANGED <<recordVars, page, cache, invalid, failed, removing, gone>>
  PROVE  CacheInv'
<1>1. Shape'
  BY AskedIsAFetch DEF CacheInv, Shape, recordVars
<1>2. \A p \in Query : fetches'[p] = IF p = q THEN {Asked} ELSE fetches[p]
  BY DEF CacheInv, Shape
<1>3. OneFetch' /\ InOrder'
  BY <1>2 DEF CacheInv, OneFetch, InOrder, Active, recordVars
<1>4. GoneIsForgotten'
  BY <1>2, AskedIsAFetch DEF CacheInv, GoneIsForgotten, Forgotten, RowOf, Outdated, Active, recordVars
<1> QED BY <1>1, <1>3, <1>4 DEF CacheInv

\* The server takes a fetch a step further: nothing it reads is older than the list
\* shown, and a record that is removed gives no row by itself.
LEMMA AnswerStep ==
  ASSUME CacheInv, NEW q \in Query, NEW fetch \in fetches[q], NEW next \in Known \cup Begun,
         Becomes(q, fetch, next), next.version =< version,
         cache[q] # Nothing => cache[q].version =< next.version,
         next.at = "full" => \A r \in Run : record[r] = "removed" => ~ RowOf(q, next, r)
  PROVE  CacheInv'
<1>1. fetches' = [fetches EXCEPT ![q] = {next}]
  BY DEF Becomes, CacheInv, OneFetch
<1>2. UNCHANGED <<record, live, version, page, cache, invalid, failed, removing, gone>>
  BY DEF Becomes, recordVars
<1>3. \A p \in Query : fetches'[p] = IF p = q THEN {next} ELSE fetches[p]
  BY <1>1 DEF CacheInv, Shape
<1>4. Shape'
  BY <1>1, <1>2 DEF CacheInv, Shape, Fetch
<1>5. OneFetch'
  BY <1>2, <1>3 DEF CacheInv, OneFetch, Active
<1>6. InOrder'
  BY <1>2, <1>3 DEF CacheInv, InOrder
<1>7. ASSUME NEW p \in Query, NEW r \in gone'[p] PROVE Forgotten(p, r)'
  <2>1. Forgotten(p, r) /\ r \in Run
    BY <1>2, <1>7 DEF CacheInv, Shape, GoneIsForgotten
  <2>2. Outdated(p, r) => Outdated(p, r)'
    BY <1>2, <1>3 DEF Outdated, Active
  <2>3. \A a \in fetches'[p] : a.at = "full" => ~ RowOf(p, a, r)'
    <3>1. CASE p = q
      BY <1>3, <2>1, <3>1 DEF Forgotten, RowOf
    <3>2. CASE p # q
      BY <1>3, <2>1, <3>2 DEF Forgotten, RowOf
    <3> QED BY <3>1, <3>2
  <2> QED BY <1>2, <2>1, <2>2, <2>3 DEF Forgotten, RowOf
<1> QED BY <1>4, <1>5, <1>6, <1>7 DEF CacheInv, GoneIsForgotten

-------------------------------------------------------------------------------

\* Every step keeps the invariant.
LEMMA NextCacheInv == CacheInv /\ [CacheNext]_cacheVars => CacheInv'
<1> SUFFICES ASSUME CacheInv, [CacheNext]_cacheVars PROVE CacheInv'
  OBVIOUS
<1>1. CASE ScheduledRun
  <2>1. PICK r \in Run : Begin(r)
    BY <1>1 DEF ScheduledRun
  <2>2. UNCHANGED <<page, queryVars, removing, gone>>
    BY <1>1 DEF ScheduledRun
  <2>3. Shape'
    BY <2>1, <2>2, BeginMoves DEF CacheInv, Shape, queryVars
  <2> QED BY <2>1, <2>2, <2>3, BeginMoves, ServerMoves
<1>2. ASSUME NEW r \in Run, Report(r) \/ EndRun(r) PROVE CacheInv'
  <2>1. Shape'
    BY <1>2 DEF CacheInv, Shape, Report, EndRun, queryVars, RecordState
  <2>2. \A q \in Query : \A s \in gone'[q] : s \in gone[q] /\ record'[s] = "removed"
    BY <1>2 DEF CacheInv, Shape, GoneIsForgotten, Forgotten, Report, EndRun
  <2>3. UNCHANGED <<page, queryVars>> /\ version =< version'
    BY <1>2 DEF CacheInv, Shape, Report, EndRun
  <2> QED BY <2>1, <2>2, <2>3, ServerMoves
<1>3. CASE ListRunning \/ listTasks \/ listRuns \/ listModels
  <2> DEFINE rows == [r \in Run |-> "none"]
  <2>1. /\ record \in [Run -> RecordState] /\ live \in SUBSET Run /\ version \in Nat
        /\ \A q \in Query : cache[q] # Nothing => cache[q].version =< version
        /\ Recorded \in [Run -> {"none", "running", "ended"}]
        /\ \A r \in Run : record[r] = "removed" => Recorded[r] = "none"
    BY DEF CacheInv, Shape, InOrder, Recorded
  <2>2. CASE ListRunning
    <3>1. Half \in Begun /\ Half.version = version /\ Half.at # "full"
      BY <2>1 DEF Half, Begun
    <3> DEFINE next == Half
    <3>2. Becomes("tasks", Asked, next) /\ Asked \in fetches["tasks"]
      BY <2>2 DEF ListRunning, Becomes
    <3>3. next \in Known \cup Begun /\ next.version = version /\ next.at # "full"
      BY <3>1
    <3> HIDE DEF next
    <3> QED BY <2>1, <3>2, <3>3, AnswerStep DEF Query
  <2>3. CASE listTasks
    <3>1. PICK half \in fetches["tasks"] :
            /\ half.at = "half"
            /\ Becomes("tasks", half,
                 Full([r \in Run |-> IF r \in half.live THEN "running" ELSE Recorded[r]],
                      half.live, half.version))
      BY <2>3 DEF listTasks
    <3> DEFINE next == Full([r \in Run |-> IF r \in half.live THEN "running" ELSE Recorded[r]],
                            half.live, half.version)
    <3>2. half \in Begun /\ half # Asked
      BY <3>1, KindsOfFetch DEF CacheInv, Shape, Query, Asked
    <3>3. next \in Known /\ next.version = half.version
      BY <2>1, <3>2 DEF Full, Known, Begun
    <3>4. \A r \in Run : record[r] = "removed" => ~ RowOf("tasks", next, r)
      BY <2>1 DEF Full, RowOf
    <3>5. /\ half.version =< version
          /\ cache["tasks"] # Nothing => cache["tasks"].version =< half.version
      BY <3>2 DEF CacheInv, InOrder, Query
    <3> HIDE DEF next
    <3> QED BY <3>1, <3>3, <3>4, <3>5, AnswerStep DEF Query, next
  <2>4. CASE listRuns
    <3> DEFINE next == Full(Recorded, {}, version)
    <3>1. next \in Known /\ next.version = version
      BY <2>1 DEF Full, Known
    <3>2. \A r \in Run : record[r] = "removed" => ~ RowOf("runs", next, r)
      BY <2>1 DEF Full, RowOf
    <3> HIDE DEF next
    <3>3. Becomes("runs", Asked, next) /\ Asked \in fetches["runs"]
      BY <2>4 DEF listRuns, Becomes, next
    <3> QED BY <2>1, <3>1, <3>2, <3>3, AnswerStep DEF Query
  <2>5. CASE listModels
    <3> DEFINE next == Full(rows, live, version)
    <3>1. next \in Known /\ next.version = version
      BY <2>1 DEF Full, Known
    <3>2. \A r \in Run : ~ RowOf("models", next, r)
      BY DEF Full, RowOf
    <3>3. Becomes("models", Asked, next) /\ Asked \in fetches["models"]
      BY <2>5 DEF listModels, Becomes
    <3> HIDE DEF next
    <3> QED BY <2>1, <3>1, <3>2, <3>3, AnswerStep DEF Query
  <2> QED BY <1>3, <2>2, <2>3, <2>4, <2>5
<1>4. ASSUME NEW q \in Query, Arrive(q) PROVE CacheInv'
  <2>1. PICK answer \in fetches[q] :
          /\ answer.at = "full"
          /\ cache' = [cache EXCEPT ![q] = answer]
          /\ fetches' = [fetches EXCEPT ![q] = @ \ {answer}]
    BY <1>4 DEF Arrive
  <2>2. /\ UNCHANGED <<record, live, version, page, removing, gone>>
        /\ invalid' = invalid \ {q} /\ failed' = failed \ {q}
    BY <1>4 DEF Arrive, recordVars
  <2>3. answer \in Known /\ answer # Asked
    BY <2>1, KindsOfFetch DEF CacheInv, Shape, Asked
  <2>4. \A p \in Query : /\ fetches'[p] = IF p = q THEN {} ELSE fetches[p]
                         /\ cache'[p] = IF p = q THEN answer ELSE cache[p]
    <3>1. cache \in [Query -> Known \cup {Nothing}] /\ fetches \in [Query -> SUBSET Fetch]
      BY DEF CacheInv, Shape
    <3>2. fetches[q] \ {answer} = {}
      BY <2>1 DEF CacheInv, OneFetch
    <3> QED BY <2>1, <3>1, <3>2
  <2>5. Shape'
    BY <2>1, <2>2, <2>3 DEF CacheInv, Shape
  <2>6. OneFetch'
    BY <2>2, <2>4 DEF CacheInv, OneFetch, Active
  <2>7. InOrder'
    BY <2>1, <2>2, <2>3, <2>4 DEF CacheInv, InOrder
  <2>8. GoneIsForgotten'
    BY <2>1, <2>2, <2>4 DEF CacheInv, GoneIsForgotten, Forgotten, RowOf, Outdated, Active
  <2> QED BY <2>5, <2>6, <2>7, <2>8 DEF CacheInv
<1>5. ASSUME NEW q \in Query, FetchFails(q) PROVE CacheInv'
  <2>1. /\ fetches' = [fetches EXCEPT ![q] = {}] /\ failed' = failed \cup {q}
        /\ UNCHANGED <<record, live, version, page, cache, invalid, removing, gone>>
    BY <1>5 DEF FetchFails, recordVars
  <2>2. \A p \in Query : fetches'[p] = IF p = q THEN {} ELSE fetches[p]
    BY <2>1 DEF CacheInv, Shape
  <2>3. Shape' /\ OneFetch' /\ InOrder'
    BY <2>1, <2>2 DEF CacheInv, Shape, OneFetch, InOrder, Active
  <2>4. GoneIsForgotten'
    BY <2>1, <2>2 DEF CacheInv, GoneIsForgotten, Forgotten, RowOf, Outdated, Active
  <2> QED BY <2>3, <2>4 DEF CacheInv
<1>6. ASSUME NEW q \in Query, Poll(q) \/ Refresh(q) PROVE CacheInv'
  BY <1>6, AskStep DEF Poll, Refresh
<1>7. ASSUME NEW q \in Query, Collect(q) PROVE CacheInv'
  <2>1. /\ cache' = [cache EXCEPT ![q] = Nothing]
        /\ invalid' = invalid \ {q} /\ failed' = failed \ {q}
        /\ UNCHANGED <<record, live, version, page, fetches, removing, gone>>
    BY <1>7 DEF Collect, recordVars
  <2>2. \A p \in Query : cache'[p] = IF p = q THEN Nothing ELSE cache[p]
    BY <2>1 DEF CacheInv, Shape
  <2>3. Shape' /\ OneFetch' /\ InOrder'
    BY <2>1, <2>2 DEF CacheInv, Shape, OneFetch, InOrder, Active
  <2>4. GoneIsForgotten'
    BY <2>1, <2>2 DEF CacheInv, GoneIsForgotten, Forgotten, RowOf, Outdated, Active
  <2> QED BY <2>3, <2>4 DEF CacheInv
<1>8. ASSUME NEW p \in Page, Visit(p) PROVE CacheInv'
  <2>1. PICK stale \in SUBSET QueriesOf[p] :
          fetches' = [q \in Query |->
            IF q \in QueriesOf[p] /\ (cache[q] = Nothing \/ q \in invalid \cup stale) THEN {Asked} ELSE {}]
    BY <1>8 DEF Visit
  <2>2. /\ page' = p
        /\ UNCHANGED <<record, live, version, cache, invalid, failed, removing, gone>>
    BY <1>8 DEF Visit, recordVars
  <2>3. \A q \in Query : fetches'[q] = {} \/ (fetches'[q] = {Asked} /\ q \in Active')
    BY <2>1, <2>2 DEF Active
  <2>4. \A q \in Query : q \in invalid /\ q \in Active' => fetches'[q] = {Asked}
    BY <2>1, <2>2 DEF Active
  <2>5. Shape'
    BY <2>1, <2>2, AskedIsAFetch DEF CacheInv, Shape
  <2>6. OneFetch' /\ InOrder'
    BY <2>2, <2>3 DEF CacheInv, OneFetch, InOrder
  <2>7. GoneIsForgotten'
    BY <2>2, <2>3, <2>4, AskedIsAFetch DEF CacheInv, GoneIsForgotten, Forgotten, RowOf, Outdated
  <2> QED BY <2>5, <2>6, <2>7 DEF CacheInv
<1>9. CASE ServePerform
  <2>1. UNCHANGED <<page, queryVars, removing, gone>>
    BY <1>9 DEF ServePerform
  <2>2. CASE \E r \in Run : Begin(r)
    <3>1. PICK r \in Run : Begin(r)
      BY <2>2
    <3>2. Shape'
      BY <2>1, <3>1, BeginMoves DEF CacheInv, Shape, queryVars
    <3> QED BY <2>1, <3>1, <3>2, BeginMoves, ServerMoves
  <2>3. CASE UNCHANGED recordVars
    <3>1. Shape' /\ version =< version'
      BY <2>1, <2>3 DEF CacheInv, Shape, queryVars, recordVars
    <3> QED BY <2>1, <2>3, <3>1, ServerMoves DEF CacheInv, GoneIsForgotten, Forgotten, recordVars
  <2> QED BY <1>9, <2>2, <2>3 DEF ServePerform
<1>10. CASE PerformAnswered \/ handleStreamActiveChange
  <2>1. UNCHANGED <<recordVars, page, removing, gone>>
    BY <1>10 DEF PerformAnswered, handleStreamActiveChange
  <2>2. CASE Invalidate({"tasks"})
    BY <2>1, <2>2, InvalidateStep DEF Query
  <2>3. CASE UNCHANGED queryVars
    <3>1. Shape' /\ version =< version'
      BY <2>1, <2>3 DEF CacheInv, Shape, queryVars, recordVars
    <3> QED BY <2>1, <2>3, <3>1, ServerMoves DEF CacheInv, GoneIsForgotten, Forgotten, recordVars
  <2> QED BY <1>10, <2>2, <2>3 DEF PerformAnswered, handleStreamActiveChange
<1>11. CASE ServeRemove
  <2>1. /\ removing # Nothing
        /\ record' = [record EXCEPT ![removing.run] = "removed"]
        /\ version' = version + 1
        /\ removing' = [removing EXCEPT !.done = TRUE]
        /\ UNCHANGED <<live, page, queryVars, gone>>
    BY <1>11 DEF ServeRemove
  <2>2. removing'.run = removing.run
    BY <2>1
  <2>3. Shape' /\ version =< version'
    BY <2>1, <2>2 DEF CacheInv, Shape, queryVars, RecordState
  <2>4. \A q \in Query : \A s \in gone'[q] : s \in gone[q] /\ record'[s] = "removed"
    BY <2>1 DEF CacheInv, Shape, GoneIsForgotten, Forgotten
  <2> QED BY <2>1, <2>3, <2>4, ServerMoves
<1>12. CASE RemoveAnswered
  <2> DEFINE Q == ListsToInvalidate(removing.on)
  <2>1. /\ removing # Nothing /\ removing' = Nothing
        /\ Invalidate(Q)
        /\ gone' = [q \in Query |-> IF Forgets(q) THEN gone[q] \cup {removing.run} ELSE gone[q]]
        /\ UNCHANGED <<recordVars, page>>
    BY <1>12 DEF RemoveAnswered
  <2>2. Q \in SUBSET Query
    BY DEF ListsToInvalidate, Query
  <2>3. Shape'
    BY <2>1, <2>2, InvalidateKeeps DEF CacheInv, Shape, recordVars
  <2>4. ASSUME NEW q \in Query, NEW r \in Run, r = removing.run, Forgets(q)
        PROVE  Forgotten(q, r)'
    <3>1. q \in Q /\ record[r] = "removed" /\ (cache[q] # Nothing \/ fetches[q] = {})
      BY <2>4 DEF Forgets, ListsToInvalidate
    <3>2. q \in Active => fetches'[q] = {Asked}
      BY <2>1, <2>2, <3>1, InvalidateKeeps
    <3>3. q \notin Active => fetches'[q] = {}
      BY <2>1, <2>2, InvalidateKeeps DEF CacheInv, OneFetch
    <3>4. q \in invalid' /\ record'[r] = "removed" /\ Active' = Active
      BY <2>1, <2>2, <3>1, InvalidateKeeps DEF recordVars, Active
    <3>5. \A a \in fetches'[q] : a.at # "full"
      BY <3>2, <3>3 DEF Asked
    <3>6. fetches'[q] # {} \/ q \notin Active'
      BY <3>2, <3>4
    <3> QED BY <3>4, <3>5, <3>6 DEF Forgotten, RowOf, Outdated
  <2>5. GoneIsForgotten'
    <3>1. \A q \in Query : \A r \in Run : Forgotten(q, r) => Forgotten(q, r)'
      BY <2>1, <2>2, InvalidateKeeps
    <3>2. removing.run \in Run
      BY <2>1 DEF CacheInv, Shape
    <3>3. \A q \in Query : \A r \in gone'[q] :
            r \in gone[q] \/ (r = removing.run /\ Forgets(q))
      BY <2>1
    <3> QED BY <2>4, <3>1, <3>2, <3>3 DEF CacheInv, Shape, GoneIsForgotten
  <2> QED BY <2>1, <2>2, <2>3, <2>5, InvalidateKeeps DEF CacheInv
<1>13. ASSUME NEW r \in Run, removeRun(r) PROVE CacheInv'
  <2>1. Shape' /\ version =< version' /\ UNCHANGED <<record, gone, page, queryVars>>
    BY <1>13 DEF removeRun, CacheInv, Shape, queryVars, recordVars
  <2> QED BY <2>1, ServerMoves DEF CacheInv, GoneIsForgotten, Forgotten
<1>14. CASE \/ \E m \in Model : performBackup(m)
            \/ PerformFails \/ RemoveFails \/ closeLog
            \/ \E r \in Run : openLog(r)
            \/ UNCHANGED cacheVars
  <2>1. /\ removing' = removing \/ removing' = Nothing
        /\ UNCHANGED <<recordVars, gone, page, queryVars>>
    BY <1>14 DEF performBackup, PerformFails, RemoveFails, closeLog, openLog, cacheVars
  <2>2. Shape' /\ version =< version'
    BY <2>1 DEF CacheInv, Shape, queryVars, recordVars
  <2> QED BY <2>1, <2>2, ServerMoves DEF CacheInv, GoneIsForgotten, Forgotten, recordVars
<1> QED BY <1>1, <1>2, <1>3, <1>4, <1>5, <1>6, <1>7, <1>8, <1>9, <1>10, <1>11,
           <1>12, <1>13, <1>14 DEF CacheNext

\* The invariant holds of every behaviour.
LEMMA SpecIInv == CacheSpec => []CacheInv
BY InitCacheInv, NextCacheInv, PTL DEF CacheSpec

-------------------------------------------------------------------------------

(***************************************************************************)
(* A record deleted here is gone from the list once that list has been     *)
(* fetched again, for any number of backups, pages visited, fetches that   *)
(* fail and deletions; but the task list shows it while its backup was     *)
(* still going on when the list was asked for (tasks-page.tsx,             *)
(* run-history-panel.tsx, web/api.go).                                     *)
(***************************************************************************)
THEOREM DeletedRowStaysAway == CacheSpec => []DeletedRowIsGone
<1>1. CacheInv => DeletedRowIsGone
  <2> SUFFICES ASSUME CacheInv, NEW q \in Active, fetches[q] = {}, q \notin failed,
                      NEW r \in gone[q] \cap Rows(q)
               PROVE  q = "tasks" /\ r \in cache[q].live
    BY DEF DeletedRowIsGone
  <2>1. q \in Query
    BY DEF CacheInv, Shape, Active, Page, QueriesOf, Query
  <2>2. Forgotten(q, r)
    BY <2>1 DEF CacheInv, GoneIsForgotten
  <2>3. cache[q] # Nothing /\ cache[q].rows[r] # "none"
    BY DEF Rows
  <2> QED BY <2>2, <2>3 DEF Forgotten, RowOf, Outdated
<1> QED BY <1>1, SpecIInv, PTL

(***************************************************************************)
(* A list on the screen is never replaced by an older one                  *)
(* (backup-queries.ts).                                                    *)
(***************************************************************************)
THEOREM ListsNeverGoBack == CacheSpec => NeverGoesBack
<1>1. CacheInv /\ [CacheNext]_cacheVars =>
        [\A q \in Query : cache[q] # Nothing /\ cache'[q] # Nothing =>
            cache'[q].version >= cache[q].version]_cacheVars
  <2> SUFFICES ASSUME CacheInv, [CacheNext]_cacheVars,
                      NEW q \in Query, cache[q] # Nothing, cache'[q] # Nothing
               PROVE  cache'[q].version >= cache[q].version
    OBVIOUS
  <2>1. cache[q].version \in Nat /\ (q \in DOMAIN cache)
    BY DEF CacheInv, Shape, Known
  <2>2. CASE UNCHANGED cache
    BY <2>1, <2>2
  <2>3. CASE \E p \in Query : Arrive(p)
    <3>1. PICK p \in Query : Arrive(p)
      BY <2>3
    <3>2. PICK answer \in fetches[p] \ {Asked} : cache' = [cache EXCEPT ![p] = answer]
      BY <3>1, AskedIsAFetch DEF Arrive
    <3>3. answer.version \in Nat
      BY <3>2, KindsOfFetch DEF CacheInv, Shape
    <3>4. CASE p = q
      BY <2>1, <3>2, <3>3, <3>4 DEF CacheInv, InOrder
    <3>5. CASE p # q
      BY <2>1, <3>2, <3>5
    <3> QED BY <3>4, <3>5
  <2>4. CASE \E p \in Query : Collect(p)
    <3>1. PICK p \in Query : cache' = [cache EXCEPT ![p] = Nothing]
      BY <2>4 DEF Collect
    <3> QED BY <2>1, <3>1
  <2>5. CASE CacheNext /\ ~(\E p \in Query : Arrive(p) \/ Collect(p))
    <3>1. UNCHANGED cache
      BY <2>5 DEF CacheNext, ScheduledRun, Report, EndRun, removeRun, openLog, ListRunning, listTasks,
                  listRuns, listModels, Becomes, FetchFails,
                  Poll, Refresh, Visit, performBackup, ServePerform, PerformAnswered,
                  PerformFails, ServeRemove, RemoveAnswered, RemoveFails, closeLog,
                  handleStreamActiveChange, Invalidate, queryVars
    <3> QED BY <2>1, <3>1
  <2> QED BY <2>2, <2>3, <2>4, <2>5 DEF cacheVars, queryVars
<1> QED BY <1>1, SpecIInv, PTL DEF CacheSpec, NeverGoesBack
================================================================================
