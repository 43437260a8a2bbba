---------------------------- MODULE MCBackupLocks ----------------------------
(* Two configurations of the models: every server written out, and the port  *)
(* left to the dumper's default.                                             *)
EXTENDS BackupLocks

CONSTANTS t1, t2, t3, mysql, redis

MCTask == {t1, t2, t3}

MCDefaultHost == [type \in {mysql, redis} |-> "127.0.0.1"]
MCDefaultPort == [type \in {mysql, redis} |-> IF type = mysql THEN "3306" ELSE "6379"]

MySQL(name, host, port, database) ==
    [name |-> name, type |-> mysql, address |-> None, host |-> host,
     port |-> port, all_databases |-> FALSE, database |-> database,
     exclusive_key |-> None]

Redis(name, socket) ==
    [name |-> name, type |-> redis, address |-> socket, host |-> None,
     port |-> None, all_databases |-> FALSE, database |-> None,
     exclusive_key |-> None]

Whole(cfg)    == [cfg EXCEPT !.all_databases = TRUE]
Key(cfg, key) == [cfg EXCEPT !.exclusive_key = key]

\* Where databases overlap, every host and port is written out.  "shop" and
\* "full" overlap, and so do the two users of one redis socket; "mart" and
\* "queue" share an exclusive_key; "files" archives files only.
WrittenOut ==
    [shop  |-> {MySQL("main", "db1", "3306", "shop"), Redis("cache", "sock")},
     full  |-> {Whole(MySQL("all", "db1", "3306", "mysql"))},
     mart  |-> {Key(MySQL("mart", "db2", None, "mart"), "nightly")},
     queue |-> {Key(Redis("queue", "sock2"), "nightly"), Redis("cache", "sock")},
     files |-> {}]

\* Two models dump one database and neither writes the port.
PortLeftOut ==
    [shop   |-> {MySQL("main", "db1", None, "shop")},
     report |-> {MySQL("main", "db1", None, "shop")},
     local  |-> {MySQL("local", None, None, "app")}]
===============================================================================
