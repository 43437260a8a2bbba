SPECIFICATION Spec
CONSTANTS
    None = None
    t1 = t1  t2 = t2  t3 = t3
    inst1 = inst1  inst2 = inst2
    db1 = db1  db2 = db2  key = key
    modelA = modelA  modelB = modelB  modelC = modelC
    Task <- MCTask
    Model <- MCModel
    Instance <- MCInstance
    Target <- MCTarget
    Request <- MCRequest
INVARIANTS
    MutualExclusion
    RegisteredIffGranted
PROPERTIES
    ImplementsOwnership
