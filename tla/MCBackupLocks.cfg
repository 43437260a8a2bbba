SPECIFICATION Spec
CONSTANTS
    None = None  mysql = mysql  redis = redis
    t1 = t1  t2 = t2  t3 = t3
    MaxReloads = 1
    Task <- MCTask
    Databases <- WrittenOut
    DefaultHost <- MCDefaultHost
    DefaultPort <- MCDefaultPort
INVARIANTS
    ModelExclusion EnvironmentExclusion
\* Every attempt is over and the bound on reloads is used up in the end.
CHECK_DEADLOCK FALSE
