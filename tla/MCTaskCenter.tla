--------------------------- MODULE MCTaskCenter ---------------------------
(* Two pages at a time; two backups of one model, one after the other, where a
   window starts them, and one where it deletes them *)
EXTENDS TaskCenter
CONSTANTS r1, r2, mysql
TwoPages ==
  { [pages |-> {"overview", "other"}, runs |-> {r1, r2}, losses |-> 0],
    [pages |-> {"overview", "other"}, runs |-> {r1},     losses |-> 1],
    [pages |-> {"overview", "tasks"}, runs |-> {r1},     losses |-> 0],
    [pages |-> {"tasks", "history"},  runs |-> {r1},     losses |-> 1] }
OneModel == [r \in Run |-> mysql]
===========================================================================
