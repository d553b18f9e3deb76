---------------------------- MODULE MCPublication ----------------------------
(* Instances of Publication for TLC.  Values a configuration cannot spell.   *)
EXTENDS Publication

\* A progress message, then an answer in two parts.
Talk == <<[mid |-> "p", kind |-> "progress", parts |-> 1], [mid |-> "a", kind |-> "answer", parts |-> 2]>>
\* The hook exports nothing, or both files.
NoneOrBoth == {{}, Files}
=============================================================================
