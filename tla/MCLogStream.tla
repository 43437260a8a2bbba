------------------------------ MODULE MCLogStream ------------------------------
(* Instances of LogStream; the cfg files set its bounds.                        *)
EXTENDS LogStream
===============================================================================
