---------------------------- MODULE MCInputFiles -----------------------------
(* Instances of InputFiles for TLC.                                         *)
EXTENDS InputFiles, TLC

\* The first batch starts the session.  The second can be built with or
\* without the file of a post that may be edited in between.
Attachments == <<{{}}, {{1}, {1, 2}}, {{1}}>>
=============================================================================
