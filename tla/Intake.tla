-------------------------------- MODULE Intake --------------------------------
(***************************************************************************)
(* What the admission of one thread promises: an input is a batch of posts *)
(* that Orpheus has accepted.  It is handed to an agent or it comes back,  *)
(* and what came back is taken again at most once, as the batch it was.    *)
(* Whatever is repeated, lost, reordered, forgotten by a crash or changed  *)
(* by a reload, the agents of the thread get each post once at most.       *)
(*                                                                         *)
(* Admission implements this module; it knows of no requests, runs or      *)
(* sessions.                                                               *)
(***************************************************************************)
EXTENDS Naturals, Sequences

CONSTANT Posts

VARIABLE inputs    \* accepted inputs, in order: [posts, fate]

Fates == {"queued", "handed", "returned"}
Input == [posts : SUBSET Posts, fate : Fates]

Init == inputs = <<>>

Share(i, j) == inputs[i].posts \cap inputs[j].posts # {}
Enqueue(batch) == inputs' = Append(inputs, [posts |-> batch, fate |-> "queued"])
Settle(S, fate) ==
    inputs' = [i \in DOMAIN inputs |-> IF i \in S THEN [inputs[i] EXCEPT !.fate = fate] ELSE inputs[i]]
Queued == {i \in DOMAIN inputs : inputs[i].fate = "queued"}

(* Posts no input has had become an input.                                  *)
Accept(batch) ==
    /\ batch # {} /\ \A i \in DOMAIN inputs : inputs[i].posts \cap batch = {}
    /\ Enqueue(batch)

(* An input that came back, and that nothing after it has taken up, becomes
   an input again.                                                          *)
Retake(k) ==
    /\ inputs[k].fate = "returned" /\ \A j \in DOMAIN inputs : k < j => ~Share(k, j)
    /\ Enqueue(inputs[k].posts)

Hand(S) == S # {} /\ Settle(S, "handed")
Return(S) == S # {} /\ Settle(S, "returned")

Next ==
    \/ \E batch \in SUBSET Posts : Accept(batch)
    \/ \E k \in DOMAIN inputs : Retake(k)
    \/ \E S \in SUBSET Queued : Hand(S) \/ Return(S)

Spec == Init /\ [][Next]_inputs

TypeOK == inputs \in Seq(Input)

(* Two inputs have a post in common only if the earlier one came back.      *)
Superseded == \A i, j \in DOMAIN inputs : i < j /\ Share(i, j) => inputs[i].fate = "returned"

(* No post is handed to an agent twice.                                     *)
HandedOnce ==
    \A i, j \in DOMAIN inputs :
        i # j /\ inputs[i].fate = "handed" /\ inputs[j].fate = "handed" => ~Share(i, j)
===============================================================================
