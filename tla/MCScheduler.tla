----------------------------- MODULE MCScheduler -----------------------------
(* Instances of Scheduler for TLC.  Values a configuration cannot spell.     *)
EXTENDS Scheduler

\* Every thread belongs to the workflow f.
OneFlow == [t \in Threads |-> "f"]
=============================================================================
