------------------------------ MODULE Selections ------------------------------
(***************************************************************************)
(* The elements of a sequence at some positions, in their order: what a    *)
(* list comprehension with an "if" keeps.  SelectSeq takes an operator,    *)
(* about which nothing could be proved.                                    *)
(***************************************************************************)
EXTENDS SequencesExt

Those(s, is) ==
  FlattenSeq([i \in DOMAIN s |-> IF i \in is THEN <<s[i]>> ELSE << >>])
=============================================================================
