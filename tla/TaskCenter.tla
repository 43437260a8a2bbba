----------------------------- MODULE TaskCenter -----------------------------
(***************************************************************************)
(* What the pages of the web front end know of the backups: the lists they *)
(* fetch and keep (api/backup-queries.ts, the queries of the task centre,  *)
(* the overview and the run history), the polling, and the buttons that    *)
(* start a backup or delete its record.                                    *)
(*                                                                         *)
(* The query cache is a library (TanStack Query); what is said of it here  *)
(* is what the pages rely on: one fetch at a time for each list, dropped   *)
(* and asked again when the list is invalidated, cancelled with the page.  *)
(***************************************************************************)
EXTENDS Naturals, FiniteSets

CONSTANTS
  Run,         \* the backups there may be
  Scenarios,   \* what a window does: the pages it visits, the backups there are,
               \* and how many fetches, starts and deletions fail
  ModelOf,     \* the model each is a backup of
  Nothing,
  MaxVersion   \* bound on the changes of the server after which nothing is deleted

Query == {"tasks", "runs", "models"}
Page == {"overview", "tasks", "history", "other"}
ASSUME ScenariosAssumption == \A s \in Scenarios : s.pages \subseteq Page

QueriesOf == [overview |-> {"tasks", "models"}, tasks |-> {"tasks"}, history |-> {"runs"}, other |-> {}]

VARIABLES
  record,      \* the server's records: "unborn", "running", "ended" or "removed"
  live,        \* the backups that are going on
  version,     \* how often either has changed
  page,        \* the page shown
  cache,       \* each list as it was last received, or Nothing
  fetches,     \* the fetches under way: Asked, Half answered, or the Full answer
  invalid,     \* the lists to fetch when next shown
  failed,      \* the lists whose last fetch failed
  performing,  \* the start under way, or Nothing
  removing,    \* the deletion under way, or Nothing
  gone,        \* the rows deleted here, by list
  scenario,    \* the one of Scenarios that takes place
  selected,    \* the run whose log is open in the task centre, or Nothing
  following,   \* ... and whether its panel has yet to be told that the run is over
  failures
recordVars == <<record, live, version>>
queryVars == <<cache, fetches, invalid, failed>>
logVars == <<selected, following>>
cacheVars == <<recordVars, page, queryVars, performing, removing, gone, logVars, failures, scenario>>

Model == {ModelOf[r] : r \in Run}
(* A fetch on its way through the server, which answers the task list in two
   reads: what it has read of the live map; the answer, with the version at its
   first read. *)
Asked == [at |-> "asked"]
Half == [at |-> "half", live |-> live, version |-> version]
Full(rows, onGoing, since) == [at |-> "full", rows |-> rows, live |-> onGoing, version |-> since]

(* What List gives of each record *)
Recorded == [r \in Run |-> IF record[r] \in {"running", "ended"} THEN record[r] ELSE "none"]

Active == QueriesOf[page]

(* The rows of a list, and those shown as running *)
Rows(q) == IF cache[q] = Nothing THEN {} ELSE {r \in Run : cache[q].rows[r] # "none"}
ShownRunning(q) == {r \in Rows(q) : cache[q].rows[r] = "running"}

(* overview-page.tsx:450: one of the two lists says that the model is backed up. *)
busy(m) ==
  \/ \E r \in ShownRunning("tasks") : ModelOf[r] = m
  \/ cache["models"] # Nothing /\ \E r \in cache["models"].live : ModelOf[r] = m

CacheTypeOK ==
  /\ scenario \in Scenarios
  /\ record \in [Run -> {"unborn", "running", "ended", "removed"}] /\ live \subseteq Run
  /\ page \in Page
  /\ \A q \in Query : cache[q] # Nothing => cache[q].version <= version
  /\ selected \in Run \cup {Nothing} /\ (following => selected # Nothing /\ page = "tasks")

CacheInit ==
  /\ record = [r \in Run |-> "unborn"] /\ live = {} /\ version = 0
  /\ scenario \in Scenarios /\ page \in scenario.pages
  /\ cache = [q \in Query |-> Nothing] /\ fetches = [q \in Query |-> IF q \in Active THEN {Asked} ELSE {}]
  /\ invalid = {} /\ failed = {}
  /\ performing = Nothing /\ removing = Nothing /\ gone = [q \in Query |-> {}]
  /\ selected = Nothing /\ following = FALSE /\ failures = 0
-----------------------------------------------------------------------------
(* The server.  Two backups of one model exclude each other. *)
Begin(r) ==
  /\ r \in scenario.runs /\ record[r] = "unborn" /\ \A s \in live : ModelOf[s] # ModelOf[r]
  /\ record' = [record EXCEPT ![r] = "running"] /\ live' = live \cup {r}
  /\ version' = version + 1

ScheduledRun ==
  /\ \E r \in Run : Begin(r)
  /\ UNCHANGED <<page, queryVars, performing, removing, gone, logVars, failures, scenario>>

(* A report brings the record of a run back that was deleted while it was on. *)
Report(r) ==
  /\ r \in live /\ record[r] = "removed"
  /\ record' = [record EXCEPT ![r] = "running"]
  /\ version' = version + 1
  /\ gone' = [q \in Query |-> gone[q] \ {r}]
  /\ UNCHANGED <<live, page, queryVars, performing, removing, logVars, failures, scenario>>

EndRun(r) ==
  /\ r \in live
  /\ live' = live \ {r} /\ record' = [record EXCEPT ![r] = "ended"]
  /\ version' = version + 1
  /\ gone' = [q \in Query |-> gone[q] \ {r}]
  /\ UNCHANGED <<page, queryVars, performing, removing, logVars, failures, scenario>>

Becomes(q, fetch, next) ==
  /\ fetch \in fetches[q]
  /\ fetches' = [fetches EXCEPT ![q] = (@ \ {fetch}) \cup {next}]
  /\ UNCHANGED <<recordVars, page, cache, invalid, failed, performing, removing, gone, logVars, failures, scenario>>

(* listTasks reads the live map first; ... *)
ListRunning == Becomes("tasks", Asked, Half)

(* ... then the records, and leaves out those it has read as live: a backup that
   is going on has a row, with a record or without. *)
listTasks ==
  \E half \in fetches["tasks"] :
    /\ half.at = "half"
    /\ Becomes("tasks", half,
         Full([r \in Run |-> IF r \in half.live THEN "running" ELSE Recorded[r]], half.live, half.version))

(* listRuns lists the records; what it lays over them from the live map is the
   progress alone. *)
listRuns == Becomes("runs", Asked, Full(Recorded, {}, version))

listModels == Becomes("models", Asked, Full([r \in Run |-> "none"], live, version))
-----------------------------------------------------------------------------
(* The query cache *)
Arrive(q) ==
  /\ \E answer \in fetches[q] :
       /\ answer.at = "full"
       /\ cache' = [cache EXCEPT ![q] = answer]
       /\ fetches' = [fetches EXCEPT ![q] = @ \ {answer}]
  /\ invalid' = invalid \ {q} /\ failed' = failed \ {q}
  /\ UNCHANGED <<recordVars, page, performing, removing, gone, logVars, failures, scenario>>

(* A fetch fails for good; the list stays as it was. *)
FetchFails(q) ==
  /\ fetches[q] # {} /\ failures < scenario.losses /\ failures' = failures + 1
  /\ fetches' = [fetches EXCEPT ![q] = {}] /\ failed' = failed \cup {q}
  /\ UNCHANGED <<recordVars, page, cache, invalid, performing, removing, gone, logVars, scenario>>

(* A plausible slip: the fetch under way is left to arrive as well. *)
InvalidateAlongside(Q) ==
  /\ fetches' = [q \in Query |-> IF q \in Q \cap Active THEN fetches[q] \cup {Asked} ELSE fetches[q]]
  /\ invalid' = invalid \cup Q
  /\ UNCHANGED <<cache, failed>>

(* Shown lists are asked again, and the fetch under way is dropped, unless it is
   the first; the others are asked again when they are next shown. *)
Invalidate(Q) ==
  /\ fetches' = [q \in Query |->
       IF q \in Q \cap Active /\ (cache[q] # Nothing \/ fetches[q] = {}) THEN {Asked} ELSE fetches[q]]
  /\ invalid' = invalid \cup Q
  /\ UNCHANGED <<cache, failed>>

(* A plausible slip: an idle list is not polled. *)
PollsWhileRunning(q) == ShownRunning(q) # {}

(* refetchInterval: the task list for ever (every second or every ten), the
   history while it shows a running backup, the models never. *)
refetchInterval(q) ==
  CASE q = "tasks"  -> TRUE
    [] q = "runs"   -> ShownRunning(q) # {}
    [] q = "models" -> FALSE

Poll(q) ==
  /\ q \in Active /\ refetchInterval(q) /\ fetches[q] = {}
  /\ fetches' = [fetches EXCEPT ![q] = {Asked}]
  /\ UNCHANGED <<recordVars, page, cache, invalid, failed, performing, removing, gone, logVars, failures, scenario>>

(* The button of each page; it waits while a fetch is under way. *)
Refresh(q) ==
  /\ q \in Active /\ fetches[q] = {}
  /\ fetches' = [fetches EXCEPT ![q] = {Asked}]
  /\ UNCHANGED <<recordVars, page, cache, invalid, failed, performing, removing, gone, logVars, failures, scenario>>

(* Another page: the fetches of the old one are cancelled, and lists that are
   missing, invalidated or older than their staleTime are fetched. *)
Visit(p) ==
  /\ p \in scenario.pages \ {page} /\ page' = p
  /\ \E stale \in SUBSET QueriesOf[p] :
       fetches' = [q \in Query |->
         IF q \in QueriesOf[p] /\ (cache[q] = Nothing \/ q \in invalid \cup stale) THEN {Asked} ELSE {}]
  /\ selected' = Nothing /\ following' = FALSE
  /\ UNCHANGED <<recordVars, cache, invalid, failed, performing, removing, gone, failures, scenario>>

(* gcTime: a list no page shows is dropped. *)
Collect(q) ==
  /\ q \notin Active /\ cache[q] # Nothing
  /\ cache' = [cache EXCEPT ![q] = Nothing]
  /\ invalid' = invalid \ {q} /\ failed' = failed \ {q}
  /\ UNCHANGED <<recordVars, page, fetches, performing, removing, gone, logVars, failures, scenario>>
-----------------------------------------------------------------------------
(* The overview's button *)
performBackup(m) ==
  /\ page = "overview" /\ cache["models"] # Nothing
  /\ performing = Nothing /\ ~busy(m)
  /\ performing' = [model |-> m, at |-> "sent"]
  /\ UNCHANGED <<recordVars, page, queryVars, removing, gone, logVars, failures, scenario>>

(* 409 if the model, or something it shares with another, is backed up. *)
ServePerform ==
  /\ performing # Nothing /\ performing.at = "sent"
  /\ \/ /\ \E r \in Run : ModelOf[r] = performing.model /\ Begin(r)
        /\ performing' = [performing EXCEPT !.at = "started"]
     \/ /\ live # {} \/ \A r \in scenario.runs : record[r] # "unborn"
        /\ performing' = [performing EXCEPT !.at = "refused"]
        /\ UNCHANGED recordVars
  /\ UNCHANGED <<page, queryVars, removing, gone, logVars, failures, scenario>>

(* Started: the task list is asked for at once. *)
PerformAnswered ==
  /\ performing # Nothing /\ performing.at # "sent"
  /\ IF performing.at = "started" THEN Invalidate({"tasks"}) ELSE UNCHANGED queryVars
  /\ performing' = Nothing
  /\ UNCHANGED <<recordVars, page, removing, gone, logVars, failures, scenario>>

PerformFails ==
  /\ performing # Nothing /\ failures < scenario.losses /\ failures' = failures + 1
  /\ performing' = Nothing
  /\ UNCHANGED <<recordVars, page, queryVars, removing, gone, logVars, scenario>>

(* The delete button of a row, in the task centre or the history *)
removeRun(r) ==
  /\ removing = Nothing /\ version < MaxVersion
  /\ \E q \in Active \ {"models"} : page # "overview" /\ r \in Rows(q)
  /\ removing' = [run |-> r, on |-> page, done |-> FALSE]
  /\ UNCHANGED <<recordVars, page, queryVars, performing, gone, logVars, failures, scenario>>

ServeRemove ==
  /\ removing # Nothing /\ ~removing.done
  /\ record' = [record EXCEPT ![removing.run] = "removed"]
  /\ version' = version + 1
  /\ removing' = [removing EXCEPT !.done = TRUE]
  /\ UNCHANGED <<live, page, queryVars, performing, gone, logVars, failures, scenario>>

(* A plausible slip: the history forgets the list it shows itself. *)
ListsOfTasksPage(p) == IF p = "tasks" THEN Query ELSE {"tasks"}

(* The task centre invalidates everything, the history its own lists. *)
ListsToInvalidate(p) == IF p = "tasks" THEN Query ELSE {"runs"}

(* The lists that must not show the row again: all that are invalidated but one
   that is being loaded for the first time, whose old answer is still taken.  A
   backup still going on may have brought the record back before the answer. *)
Forgets(q) ==
  /\ record[removing.run] = "removed"
  /\ q = "runs" \/ (q = "tasks" /\ removing.on = "tasks")
  /\ cache[q] # Nothing \/ fetches[q] = {}

RemoveAnswered ==
  /\ removing # Nothing /\ removing.done
  /\ Invalidate(ListsToInvalidate(removing.on))
  /\ gone' = [q \in Query |-> IF Forgets(q) THEN gone[q] \cup {removing.run} ELSE gone[q]]
  /\ IF selected = removing.run THEN selected' = Nothing /\ following' = FALSE ELSE UNCHANGED logVars
  /\ removing' = Nothing
  /\ UNCHANGED <<recordVars, page, performing, failures, scenario>>

RemoveFails ==
  /\ removing # Nothing /\ failures < scenario.losses /\ failures' = failures + 1
  /\ removing' = Nothing
  /\ UNCHANGED <<recordVars, page, queryVars, performing, gone, logVars, scenario>>

openLog(r) ==
  /\ page = "tasks" /\ r \in Rows("tasks") /\ selected = Nothing
  /\ selected' = r /\ following' = TRUE
  /\ UNCHANGED <<recordVars, page, queryVars, performing, removing, gone, failures, scenario>>

closeLog ==
  /\ selected # Nothing
  /\ selected' = Nothing /\ following' = FALSE
  /\ UNCHANGED <<recordVars, page, queryVars, performing, removing, gone, failures, scenario>>

(* The stream of a run that is over says so as it begins, also when the log of one
   that ended long ago is opened: the list is asked for at once. *)
handleStreamActiveChange ==
  /\ following /\ selected \notin live
  /\ following' = FALSE
  /\ Invalidate({"tasks"})
  /\ UNCHANGED <<recordVars, page, performing, removing, gone, selected, failures, scenario>>

CacheNext ==
  \/ ScheduledRun
  \/ \E r \in Run : Report(r) \/ EndRun(r) \/ removeRun(r) \/ openLog(r)
  \/ ListRunning \/ listTasks \/ listRuns \/ listModels
  \/ \E q \in Query : Arrive(q) \/ FetchFails(q) \/ Poll(q) \/ Refresh(q) \/ Collect(q)
  \/ \E p \in Page : Visit(p)
  \/ \E m \in Model : performBackup(m)
  \/ ServePerform \/ PerformAnswered \/ PerformFails
  \/ ServeRemove \/ RemoveAnswered \/ RemoveFails
  \/ closeLog \/ handleStreamActiveChange

CacheSpec == CacheInit /\ [][CacheNext]_cacheVars

(* The timers run while the page is shown, the server answers, and nobody
   cancels every fetch before its answer. *)
CacheFairSpec ==
  /\ CacheSpec
  /\ \A q \in {"tasks", "runs"} : WF_cacheVars(Poll(q)) /\ SF_cacheVars(Arrive(q))
  /\ SF_cacheVars(ListRunning) /\ SF_cacheVars(listTasks) /\ SF_cacheVars(listRuns)
-----------------------------------------------------------------------------
(* A list on the screen is never replaced by an older one, whatever polls,
   refreshes, starts and deletions overlap. *)
NeverGoesBack ==
  [][\A q \in Query : cache[q] # Nothing /\ cache'[q] # Nothing =>
        cache'[q].version >= cache[q].version]_cacheVars

(* A record deleted here is gone from the list once that list has been fetched
   again: no answer from before the deletion is taken (tasks-page.tsx:144,
   run-history-panel.tsx:118).  What may bring it back is the backup itself: a
   report writes its record again, and the task list shows it, without a record,
   while it is going on (api.go:376). *)
DeletedRowIsGone ==
  \A q \in Active : fetches[q] = {} /\ q \notin failed =>
    \A r \in gone[q] \cap Rows(q) :
      record[r] # "removed" \/ (q = "tasks" /\ r \in cache[q].live)

(* A page that stays open ends up showing the backups as they are: the task list
   all that have a record or are going on, the history at least those it shows as
   running. *)
ShowsTasks ==
  /\ Rows("tasks") = live \cup {r \in Run : Recorded[r] # "none"}
  /\ ShownRunning("tasks") = live
ShownCatchesUp ==
  /\ <>[](page \in {"overview", "tasks"}) => <>[]ShowsTasks
  /\ <>[](page = "history") => <>[](ShownRunning("runs") \subseteq live)
=============================================================================
