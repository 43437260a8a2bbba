----------------------------- MODULE SavedConfig -----------------------------
(* What saving from the editor promises, with no file, no lock and no reload in *)
(* sight: one config is in force; a client asks for operations to be done to    *)
(* the version it has read; in one step either they are done to exactly that    *)
(* version and the result is in force, or nothing happens.                      *)
CONSTANTS Client,
          InitialValues,
          Apply(_, _),   \* what operations make of a config
          Rejected       \* ... when one of them cannot be done

VARIABLES value,         \* the config in force
          request        \* of each client

Nothing == [stage |-> "none"]
Asked(version, operations) ==
  [stage |-> "asked", version |-> version, operations |-> operations]
Answered(config) == [stage |-> "answered", config |-> config]

Init ==
  /\ value \in InitialValues
  /\ request = [c \in Client |-> Nothing]

\* A client asks, for whatever version and operations it likes.
Ask(c) ==
  /\ request[c] = Nothing /\ request'[c].stage = "asked"
  /\ request' = [request EXCEPT ![c] = Asked(request'[c].version, request'[c].operations)]
  /\ UNCHANGED value

\* The operations are done, if the version is the one in force.
Done(c) ==
  /\ request[c].stage = "asked" /\ request[c].version = value
  /\ value' = Apply(value, request[c].operations) /\ value' # Rejected

\* The client is told the result.
Grant(c) ==
  /\ Done(c)
  /\ request' = [request EXCEPT ![c] = Answered(value')]

\* They had to be undone and could not be: the client is told of an error.
Strand(c) ==
  /\ Done(c)
  /\ request' = [request EXCEPT ![c] = Nothing]

\* It is refused, or fails: whatever was begun has left nothing behind.
Deny(c) ==
  /\ request[c].stage = "asked"
  /\ request' = [request EXCEPT ![c] = Nothing]
  /\ UNCHANGED value

\* The client takes its answer.
Close(c) ==
  /\ request[c].stage = "answered"
  /\ request' = [request EXCEPT ![c] = Nothing]
  /\ UNCHANGED value

Next == \E c \in Client : Ask(c) \/ Grant(c) \/ Strand(c) \/ Deny(c) \/ Close(c)

Spec == Init /\ [][Next]_<<value, request>>
===============================================================================
