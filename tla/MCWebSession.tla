--------------------------- MODULE MCWebSession ---------------------------
(* A page that polls, with the login and the logout *)
EXTENDS WebSession
CONSTANTS poll, login, logout
MCKind == [r \in Request |-> CASE r = poll -> "poll" [] r = login -> "login" [] OTHER -> "logout"]
===========================================================================
