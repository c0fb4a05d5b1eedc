---- MODULE MCSyncPull ----
(* Small instances of SyncPull for TLC: a project and its tasks. *)
EXTENDS SyncPull

CONSTANTS proj, task1, task2, task3,  \* rows
          phone                \* a device

TwoTables == [r \in Rows |-> IF r = proj THEN 1 ELSE 2]
OneTable == [r \in Rows |-> 1]
Everything == [d \in Devices |-> Rows]
====
