------------------------------- MODULE MCManager -------------------------------
(* Two files, two connections and a third the process does not have; workflows
   that clash by their ID, their direct messages or a channel, and some that
   do not.                                                                  *)
EXTENDS Manager

Flow(id, e, include, exclude, direct) ==
    [id |-> id, mattermost |-> e, include |-> include, exclude |-> exclude,
     direct |-> direct, private |-> TRUE, group |-> FALSE]

Flows == {
    Flow("a", "e1", {}, {}, TRUE), Flow("b", "e1", {"c"}, {}, TRUE), Flow("c", "e1", {"c", "d"}, {"d"}, FALSE),
    Flow("d", "e2", {}, {}, TRUE), Flow("d", "e3", {}, {}, FALSE)}

Two == {[f \in Files |-> IF f = 1 THEN Flow("a", "e1", {}, {}, TRUE) ELSE Flow("d", "e2", {}, {}, TRUE)]}
================================================================================
