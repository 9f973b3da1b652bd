------------------------------ MODULE EventFeed ------------------------------
(***************************************************************************)
(* What the event stream of one task promises to whoever reads it, however *)
(* it is delivered: every connection gets the events after the one it      *)
(* names, each exactly once and in order, and is told that the stream has  *)
(* ended only when the task is closed and all its events were delivered.   *)
(***************************************************************************)
EXTENDS Naturals, Sequences

CONSTANT Streams

VARIABLES
  emitted,   \* the events so far are numbered 1..emitted
  closed,    \* the task has reached its final status
  state,     \* of each connection
  from,      \* the event after which a connection starts
  got        \* what a connection has delivered

feedVars == <<emitted, closed, state, from, got>>

Init ==
  /\ emitted = 0
  /\ closed = FALSE
  /\ state = [s \in Streams |-> "new"]
  /\ from = [s \in Streams |-> 0]
  /\ got = [s \in Streams |-> <<>>]

Emit ==
  /\ ~closed
  /\ emitted' = emitted + 1
  /\ UNCHANGED <<closed, state, from, got>>

Finish ==
  /\ ~closed
  /\ closed' = TRUE
  /\ UNCHANGED <<emitted, state, from, got>>

Connect(s) ==
  /\ state[s] = "new"
  /\ state' = [state EXCEPT ![s] = "open"]
  /\ \E a \in 0..emitted : from' = [from EXCEPT ![s] = a]
  /\ UNCHANGED <<emitted, closed, got>>

Deliver(s) ==
  /\ state[s] = "open"
  /\ from[s] + Len(got[s]) < emitted
  /\ got' = [got EXCEPT ![s] = Append(@, from[s] + Len(@) + 1)]
  /\ UNCHANGED <<emitted, closed, state, from>>

End(s) ==
  /\ state[s] = "open"
  /\ closed
  /\ from[s] + Len(got[s]) = emitted
  /\ state' = [state EXCEPT ![s] = "ended"]
  /\ UNCHANGED <<emitted, closed, from, got>>

\* Connections break: one that its client drops, all of them in a crash.
Drop ==
  /\ \E S \in SUBSET {s \in Streams : state[s] = "open"} :
       state' = [s \in Streams |-> IF s \in S THEN "gone" ELSE state[s]]
  /\ UNCHANGED <<emitted, closed, from, got>>

Next ==
  \/ Emit
  \/ Finish
  \/ \E s \in Streams : Connect(s) \/ Deliver(s) \/ End(s)
  \/ Drop

Spec == Init /\ [][Next]_feedVars
=============================================================================
