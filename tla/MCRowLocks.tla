------------------------------ MODULE MCRowLocks ------------------------------
(***************************************************************************)
(* Small instances of RowLocks.                                            *)
(***************************************************************************)
EXTENDS RowLocks, TLC

CONSTANTS t1, t2, p1

OneProduct == [c \in Checkouts |-> p1]
Plenty     == [p \in Products |-> 2]
Scarce     == [p \in Products |-> 1]

\* The connections are interchangeable (safety runs only).
Connections == Permutations(Transactions)
===============================================================================
