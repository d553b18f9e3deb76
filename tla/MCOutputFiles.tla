---------------------------- MODULE MCOutputFiles ----------------------------
(* The agent leaves two files; contents 1 and 2 are accepted, 3 is not.     *)
EXTENDS OutputFiles

Left == {[f \in Files |-> IF f \in {1, 2} THEN 1 ELSE None]}
=============================================================================
