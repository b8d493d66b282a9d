------------------------- MODULE MCFileTransaction -------------------------
(* FileTransaction on two files of one tool directory: one directly in it   *)
(* and one in a directory below, the least tree in which a rollback has     *)
(* both a boundary and an ordinary directory to clean up.                   *)
EXTENDS FileTransactionInvariant, FileTransactionRefinement, TLC

CONSTANTS top, sub, boundary, below

TwoPaths == {top, sub}
TwoDirs == {boundary, below}
TwoChains == [p \in TwoPaths |-> IF p = top THEN <<boundary>>
                                 ELSE <<boundary, below>>]

\* Bytes are only compared, so the contents are interchangeable.
ContentsSymmetry == Permutations(Contents)
=============================================================================
