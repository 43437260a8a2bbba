-------------------------------- MODULE MCRunLog --------------------------------
(* Instances of RunLog: runs 1 .. N, so few records kept that pruning happens; *)
(* a goroutine of the second run goes on reporting.                            *)
EXTENDS RunLog

CONSTANTS N, x1

MCRun     == 1..N
OneReader == {x1}
Second    == {2} \cap MCRun
===============================================================================
