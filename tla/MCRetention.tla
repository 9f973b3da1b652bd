----------------------------- MODULE MCRetention -----------------------------
(* Instances of Retention for TLC.                                         *)
EXTENDS Retention

CONSTANTS a, b, h, t1, t2, t3

\* Two tasks use the upload a, one after the other or together; one uses the
\* host path h; no task ever uses b.
RepoOfTask == [t \in Tasks |-> IF t = t3 THEN h ELSE a]
=============================================================================
