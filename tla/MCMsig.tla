-------------------------------- MODULE MCMsig --------------------------------
(***************************************************************************)
(* Instances of Msig for TLC.  "settled" is an id on which enroll always   *)
(* panics, "low" one on which it does not; the leaf "node" is the hash of  *)
(* two member leaves, and a registry that begins with it reads as five     *)
(* approvals.                                                              *)
(***************************************************************************)
EXTENDS Msig, TLC

CONSTANTS s1, s2, p1, p2

MCHeadWord == [id \in ProposalIds |-> IF id = "low" THEN 1 ELSE 4]
MCBelow == [leaf \in Leaves |-> IF leaf = "leaf" THEN {s1} ELSE {s1, s2}]
MCTailWord == [leaf \in Leaves |-> IF leaf = "leaf" THEN 0 ELSE 5]
MCRoots == {<<leaf>> : leaf \in Leaves}

\* Accounts behave alike.
Interchangeable == Permutations(Accounts)
=============================================================================
