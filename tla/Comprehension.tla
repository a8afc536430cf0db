--------------------------- MODULE Comprehension ---------------------------
(***************************************************************************)
(* Python's [x for x in s if ...].  It is a fold, about which facts can be *)
(* proved; SelectSeq is a primitive to the provers.                        *)
(***************************************************************************)
EXTENDS Integers, SequencesExt

\* The elements of s that are in S, in their order.
Keep(s, S) == FoldLeft(LAMBDA kept, x : IF x \in S THEN Append(kept, x) ELSE kept, <<>>, s)
=============================================================================
