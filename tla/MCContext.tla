----------------------------- MODULE MCContext ------------------------------
(* An instance of Context for TLC: the root and post 4 are small triggers,
   post 3 leaves no room for either of them, post 2 triggers nothing; post 3
   links to post 2 and post 4 to a post of another thread.                   *)
EXTENDS Context, TLC

Kinds == <<"trigger", "passive", "trigger", "trigger">>
LinkTo == <<None, None, 2, 101>>
Costs ==
    [p \in {1} |-> [v \in 0..MaxChanges |-> IF v = 0 THEN 1 ELSE 9]]
    @@ [p \in {2, 101, 102} |-> [v \in 0..MaxChanges |-> 1]]
    @@ [p \in {3} |-> [v \in 0..MaxChanges |-> 8]]
    @@ [p \in {4} |-> [v \in 0..MaxChanges |-> 1]]
Other == <<102, 101>>
=============================================================================
