----------------------------- MODULE MCSequencer -----------------------------
(***************************************************************************)
(* Instances of Sequencer for TLC.                                         *)
(***************************************************************************)
EXTENDS Sequencer, TLC

CONSTANTS w1, d1, d2

\* Every transaction fits into a block, two of them only without a third.
MCSize == [t \in Txs |-> 300]

\* Deposits differ in nothing but their name.
Interchangeable == Permutations(Deposits)
=============================================================================
