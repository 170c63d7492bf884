-------------------------------- MODULE Cuts --------------------------------
(***************************************************************************)
(* A sequence cut in two, as buffers and texts are.                        *)
(***************************************************************************)
EXTENDS Integers, Sequences

Drop(s, n) == SubSeq(s, n + 1, Len(s))
Take(s, n) == SubSeq(s, 1, n)
=============================================================================
