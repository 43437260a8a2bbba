------------------------------- MODULE MCBackupRun -------------------------------
(* Two models, one of which dumps the whole instance, the other one asks for an *)
(* encryption the program does not know; three triggers.                       *)
EXTENDS BackupRun

CONSTANTS j1, j2, j3, inst, db1, nameA, nameB

MCJob == {j1, j2, j3}

OfModel(m)    == [kind |-> "model", instance |-> None, target |-> m]
OfDatabase(d) == [kind |-> "database", instance |-> inst, target |-> d]

MCConfigured == [a |-> {"dump", "compress", "encrypt"},
                 b |-> {"dump", "split"}]

MCUnknown == [a |-> {"encrypt"}, b |-> {}]

MCRequest ==
    [a |-> [model |-> "a", resources |-> {OfModel(nameA), OfDatabase(db1)}],
     b |-> [model |-> "b", resources |-> {OfModel(nameB), OfDatabase(None)}]]
===============================================================================
