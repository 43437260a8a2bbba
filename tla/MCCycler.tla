-------------------------------- MODULE MCCycler --------------------------------
(* Instances of Cycler; the cfg files say what may fail.                        *)
EXTENDS Cycler

Anything == {"fetch", "save", "delete", "disk", "upload", "crash", "wipe"}
Saving   == {"save"}
Nothing  == {}
===============================================================================
