---------------------------- MODULE MCTaskRegistry ----------------------------
(* A small registry: two instances, one with two databases, an exclusive_key *)
(* group, and requests that mix them.                                        *)
EXTENDS TaskRegistry

CONSTANTS t1, t2, t3, inst1, inst2, db1, db2, key, modelA, modelB, modelC

MCTask     == {t1, t2, t3}
MCModel    == {modelA, modelB, modelC}
MCInstance == {inst1, inst2}
MCTarget   == {db1, db2, key, modelA, modelB, modelC}

OfModel(m)      == [kind |-> KindModel, instance |-> None, target |-> m]
OfDatabase(i,d) == [kind |-> KindDatabase, instance |-> i, target |-> d]

MCRequest ==
    {[model |-> modelA, resources |-> {OfModel(modelA), OfDatabase(inst1, db1)}],
     [model |-> modelA, resources |-> {OfModel(modelA), OfDatabase(inst2, None)}],
     [model |-> modelB, resources |-> {OfModel(modelB), OfDatabase(inst1, None)}],
     [model |-> modelB, resources |-> {OfModel(modelB), OfDatabase(inst1, db2),
                                       OfDatabase(None, key)}],
     [model |-> modelC, resources |-> {OfModel(modelC), OfDatabase(None, key),
                                       OfDatabase(inst2, None)}]}
===============================================================================
