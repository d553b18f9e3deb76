----------------------------- MODULE MCAdmission -----------------------------
(* Instances of Admission for TLC.  Values a configuration cannot spell.     *)
EXTENDS Admission

\* The first post is too big until its author edits it.
FirstVersionOfFirstPost == {<<1, 0>>}
=============================================================================
