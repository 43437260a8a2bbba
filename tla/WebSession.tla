----------------------------- MODULE WebSession -----------------------------
(***************************************************************************)
(* The session of the web front end in one window: the token in the store  *)
(* and in local storage (store/auth.ts), the requests that carry it        *)
(* (lib/http.ts), the one refresh all refused requests share               *)
(* (auth/token-refresh.ts), and the server that checks every request anew  *)
(* against web.username and web.password (web/auth.go).                    *)
(*                                                                         *)
(* A token is the password it was made from; refreshing one gives the same *)
(* token back, if it is still accepted.                                    *)
(***************************************************************************)
EXTENDS Naturals

CONSTANTS
  Password,    \* the passwords the configuration may have
  Open,        \* no password is configured: everything is accepted
  None,
  Request,     \* the requests a page may have under way
  Kind,        \* "query", "poll", "mutation", "login" or "logout", by request
  MaxChanges,  \* bound on the changes of the configured password
  MaxLost,     \* bound on the answers lost, timed out or 5xx
  MaxReloads   \* bound on the reloads of the window

ASSUME NoneAssumption ==
  /\ None \notin Password \cup {Open} /\ Open \notin Password
  /\ None \notin [at : {"sent", "granted", "refused"}, token : Password]
ASSUME KindAssumption == Kind \in [Request -> {"query", "poll", "mutation", "login", "logout"}]

VARIABLES
  valid,       \* the server: the configured password, or Open
  session,     \* the store: the session's token, or None
  stored,      \* local storage: the same
  req,         \* each request: where it is, its token, its retries
  refreshing,  \* the refresh under way (inflight), or None
  changes, lost, reloads
vars == <<valid, session, stored, req, refreshing, changes, lost, reloads>>
serverVars == <<valid, changes>>

Stage == {"idle", "sent", "granted", "refused", "waiting", "backoff"}
Idle == [at |-> "idle", token |-> None, retried |-> FALSE, failures |-> 0]

TypeOK ==
  /\ valid \in Password \cup {Open}
  /\ session \in Password \cup {None} /\ stored \in Password \cup {None}
  /\ req \in [Request -> [at : Stage, token : Password \cup {None}, retried : BOOLEAN, failures : 0 .. 2]]
  /\ refreshing \in [at : {"sent", "granted", "refused"}, token : Password] \cup {None}
  /\ changes \in Nat /\ lost \in Nat /\ reloads \in Nat

Init ==
  /\ valid \in Password
  /\ session \in Password \cup {None} /\ stored = session
  /\ req = [r \in Request |-> Idle]
  /\ refreshing = None
  /\ changes = 0 /\ lost = 0 /\ reloads = 0

IsQuery(r) == Kind[r] \in {"query", "poll"}
InFlight(r) == req[r].at # "idle"
validCredentials(token) == valid \in {token, Open}

(* Both are written through to local storage at once. *)
setSession(token) == session' = token /\ stored' = token
clearSession == setSession(None)
-----------------------------------------------------------------------------
(* A page asks: the request interceptor adds the token of the moment.  Only the
   login page sends without a session, and its request carries the password
   typed instead. *)
Send(r) ==
  /\ ~InFlight(r)
  /\ \E token \in Password :
       /\ IF Kind[r] = "login" THEN session = None ELSE session = token
       /\ req' = [req EXCEPT ![r] = [Idle EXCEPT !.at = "sent", !.token = token]]
  /\ UNCHANGED <<serverVars, session, stored, refreshing, lost, reloads>>

(* requireAuth, authLogin: the server decides by the password of the moment; the
   answer is under way. *)
Decide(r) ==
  /\ req[r].at = "sent"
  /\ req' = [req EXCEPT ![r].at = IF validCredentials(req[r].token) THEN "granted" ELSE "refused"]
  /\ UNCHANGED <<serverVars, session, stored, refreshing, lost, reloads>>

(* The answer is good.  A login's session is taken over; a logout drops it. *)
Granted(r) ==
  /\ req[r].at = "granted"
  /\ req' = [req EXCEPT ![r] = Idle]
  /\ CASE Kind[r] = "login"  -> setSession(req[r].token)
       [] Kind[r] = "logout" -> clearSession
       [] OTHER -> UNCHANGED <<session, stored>>
  /\ UNCHANGED <<serverVars, refreshing, lost, reloads>>

(* A plausible slip: __retried is not looked at. *)
AwaitRefreshAgain(r) ==
  /\ req[r].at = "refused"
  /\ refreshing # None \/ session # None
  /\ req' = [req EXCEPT ![r].at = "waiting"]
  /\ refreshing' = IF refreshing # None THEN refreshing ELSE [at |-> "sent", token |-> session]
  /\ UNCHANGED <<serverVars, session, stored, lost, reloads>>

(* A 401 to a request that has not been retried: it waits for the refresh, the
   one under way if there is one. *)
AwaitRefresh(r) ==
  /\ req[r].at = "refused" /\ ~req[r].retried
  /\ refreshing # None \/ session # None
  /\ req' = [req EXCEPT ![r].at = "waiting"]
  /\ refreshing' = IF refreshing # None THEN refreshing ELSE [at |-> "sent", token |-> session]
  /\ UNCHANGED <<serverVars, session, stored, lost, reloads>>

(* A 401 to a retried request, or with nothing to refresh: unauthorized. *)
Unauthorized(r) ==
  /\ req[r].at = "refused"
  /\ req[r].retried \/ (refreshing = None /\ session = None)
  /\ req' = [req EXCEPT ![r] = Idle]
  /\ clearSession
  /\ UNCHANGED <<serverVars, refreshing, lost, reloads>>

(* A plausible slip: the session is dropped in .then(), not in .finally(). *)
LogoutFailed == UNCHANGED <<session, stored>>

(* logout().finally(...): whatever the answer, or without one. *)
LogoutEnded == clearSession

(* No answer, or a 5xx: a query is tried again up to twice, nothing else is. *)
Fail(r) ==
  /\ req[r].at \in {"sent", "granted", "refused"}
  /\ lost < MaxLost /\ lost' = lost + 1
  /\ req' = [req EXCEPT ![r] = IF IsQuery(r) /\ req[r].failures < 2
                               THEN [Idle EXCEPT !.at = "backoff", !.failures = req[r].failures + 1]
                               ELSE Idle]
  /\ IF Kind[r] = "logout" THEN LogoutEnded ELSE UNCHANGED <<session, stored>>
  /\ UNCHANGED <<serverVars, refreshing, reloads>>

(* The query function is called again: a new request, with the token of now. *)
Resend(r) ==
  /\ req[r].at = "backoff"
  /\ req' = [req EXCEPT ![r].at = "sent", ![r].token = session]
  /\ UNCHANGED <<serverVars, session, stored, refreshing, lost, reloads>>

(* The session is gone, the page with it, and its queries are cancelled. *)
Abandon(r) ==
  /\ IsQuery(r) /\ session = None
  /\ req[r].at \in {"sent", "granted", "refused", "backoff"}
  /\ req' = [req EXCEPT ![r] = Idle]
  /\ UNCHANGED <<serverVars, session, stored, refreshing, lost, reloads>>
-----------------------------------------------------------------------------
(* authRefresh: the token is given back if it is accepted. *)
RefreshDecide ==
  /\ refreshing # None /\ refreshing.at = "sent"
  /\ refreshing' = [refreshing EXCEPT !.at = IF validCredentials(refreshing.token) THEN "granted"
                                                                                   ELSE "refused"]
  /\ UNCHANGED <<serverVars, session, stored, req, lost, reloads>>

(* Everyone who waits sends again, with the token given back. *)
Retried(r) == [req[r] EXCEPT !.at = "sent", !.retried = TRUE,
                             !.token = IF Kind[r] = "login" THEN @ ELSE refreshing.token]
RefreshGranted ==
  /\ refreshing # None /\ refreshing.at = "granted"
  /\ setSession(refreshing.token)
  /\ req' = [r \in Request |-> IF req[r].at = "waiting" THEN Retried(r) ELSE req[r]]
  /\ refreshing' = None
  /\ UNCHANGED <<serverVars, lost, reloads>>

(* A plausible slip: a refused refresh is swallowed, the session stays. *)
GiveUpQuietly ==
  /\ refreshing' = None
  /\ req' = [r \in Request |-> IF req[r].at = "waiting" THEN Idle ELSE req[r]]
  /\ UNCHANGED <<session, stored>>

(* Everyone who waits fails with the 401 it had, and the session is dropped. *)
GiveUp ==
  /\ refreshing' = None
  /\ req' = [r \in Request |-> IF req[r].at = "waiting" THEN Idle ELSE req[r]]
  /\ clearSession

(* A plausible slip: refresh without skipAuthRefresh waits for itself. *)
RefreshWaits ==
  /\ refreshing # None /\ refreshing.at = "refused"
  /\ FALSE
  /\ UNCHANGED vars

(* skipAuthRefresh: the refusal of the refresh itself is not refreshed. *)
RefreshRefused ==
  /\ refreshing # None /\ refreshing.at = "refused"
  /\ GiveUp
  /\ UNCHANGED <<serverVars, lost, reloads>>

RefreshFails ==
  /\ refreshing # None
  /\ lost < MaxLost /\ lost' = lost + 1
  /\ GiveUp
  /\ UNCHANGED <<serverVars, reloads>>
-----------------------------------------------------------------------------
(* The configuration is edited: the tokens made of another password are void. *)
ChangePassword ==
  /\ changes < MaxChanges /\ changes' = changes + 1
  /\ valid' \in (Password \cup {Open}) \ {valid}
  /\ UNCHANGED <<session, stored, req, refreshing, lost, reloads>>

(* Another window logs in or out: it has a store of its own, and the same
   local storage, which only a reload reads. *)
OtherWindow ==
  /\ reloads < MaxReloads
  /\ stored' \in {None} \cup {p \in Password : validCredentials(p)}
  /\ UNCHANGED <<serverVars, session, req, refreshing, lost, reloads>>

(* The window is loaded again: readStoredSession; what was under way is lost. *)
Reload ==
  /\ reloads < MaxReloads /\ reloads' = reloads + 1
  /\ session' = stored
  /\ req' = [r \in Request |-> Idle] /\ refreshing' = None
  /\ UNCHANGED <<serverVars, stored, lost>>

(* What the server and the browser do without being asked *)
Progress(r) ==
  Decide(r) \/ Granted(r) \/ AwaitRefresh(r) \/ Unauthorized(r) \/ Resend(r)
RefreshProgress == RefreshDecide \/ RefreshGranted \/ RefreshRefused

Next ==
  \/ \E r \in Request : Send(r) \/ Progress(r) \/ Fail(r) \/ Abandon(r)
  \/ RefreshProgress \/ RefreshFails
  \/ ChangePassword \/ OtherWindow \/ Reload

Spec == Init /\ [][Next]_vars

(* Every request is answered, if only by its timeout (http.ts:76), and a page
   that polls goes on polling while it is shown. *)
FairSpec ==
  /\ Spec
  /\ WF_vars(RefreshProgress)
  /\ \A r \in Request : WF_vars(Progress(r))
  /\ \A r \in Request : Kind[r] = "poll" => WF_vars(Send(r))
-----------------------------------------------------------------------------
(* Whoever waits for a refresh is waited for: the shared promise is there, and
   a request that has been retried does not wait a second time (http.ts:99,
   token-refresh.ts:11). *)
NobodyWaitsAlone ==
  \A r \in Request : req[r].at = "waiting" => refreshing # None /\ ~req[r].retried

(* Every request ends, whatever the server says to it, to its retry and to the
   refresh between them (http.ts:92). *)
Settles == \A r \in Request : InFlight(r) ~> ~InFlight(r)

(* Once the password is changed no more, a session the server does not accept
   is given up and the login page shown: no page goes on with a void token. *)
RevokedSessionEnds == <>[](session = None \/ validCredentials(session))

(* A logout ends the session even if the server refuses it, cannot be reached,
   or gives a new token first (base-layout.tsx:552); unless the window is
   loaded again before the answer. *)
LogoutEnds ==
  \A r \in Request :
    Kind[r] = "logout" /\ InFlight(r) /\ reloads = MaxReloads ~> session = None
=============================================================================
