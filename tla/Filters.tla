-------------------------------- MODULE Filters --------------------------------
(***************************************************************************)
(* Array.prototype.filter, with the elements that pass given as a set.     *)
(***************************************************************************)
EXTENDS Sequences, SequencesExt

\* The elements of seq that are in these, in the order of seq.
Selected(seq, these) ==
  FoldLeft(LAMBDA passed, x : IF x \in these THEN Append(passed, x) ELSE passed, <<>>, seq)
=============================================================================
