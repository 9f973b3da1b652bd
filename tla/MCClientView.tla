----------------------------- MODULE MCClientView -----------------------------
(* Instances of ClientView for TLC.                                        *)
EXTENDS ClientView, TLC

AllFaults == FaultKinds
=============================================================================
