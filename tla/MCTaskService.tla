---------------------------- MODULE MCTaskService ----------------------------
(* Instances of TaskService for TLC.                                       *)
EXTENDS TaskService

CONSTANTS t1, t2, t3, t4, u

\* The user u may submit t1 and t2, so that the limit per user refuses one; t3
\* and t4 have users of their own, who go by the names of their tasks, so that
\* the ceiling of the server refuses one.
OwnerOf == [t \in Tasks |-> IF t \in {t1, t2} THEN u ELSE t]

AllFaults == FaultKinds
=============================================================================
