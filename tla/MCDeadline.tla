---------------------------- MODULE MCDeadline ----------------------------
(* A small counter with the proportions of the real one: the outer deadline  *)
(* is more than half a wrap, and the margin is as small as the assumption    *)
(* allows (25 + 2 * 2 + 5 * 2 = 39 < 40).                                    *)
EXTENDS Deadline
=============================================================================
