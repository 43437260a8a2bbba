SPECIFICATION Spec
CONSTANTS
    None = None  mysql = mysql  redis = redis
    t1 = t1  t2 = t2  t3 = t3
    MaxReloads = 1
    Task <- MCTask
    Databases <- PortLeftOut
    DefaultHost <- MCDefaultHost
    DefaultPort <- MCDefaultPort
INVARIANTS
    EnvironmentExclusion
CHECK_DEADLOCK FALSE
