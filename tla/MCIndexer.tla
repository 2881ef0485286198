------------------------------ MODULE MCIndexer ------------------------------
(***************************************************************************)
(* Instance: blocks with a deposit, which apply a second time as long as   *)
(* the bridge can pay, and with a deposit before a user's transaction,     *)
(* which apply in part when they are delivered again; alone in their slot  *)
(* or two to a slot.                                                       *)
(***************************************************************************)
EXTENDS Indexer

BlockOf(body) == [kind |-> "block", body |-> body]
Other(kind) == [kind |-> kind]

D == BlockOf(<<"deposit">>)
DU == BlockOf(<<"deposit", "user">>)
U == BlockOf(<<"user">>)

MCSlotContents ==
    {<<D>>, <<DU>>, <<U>>, <<DU, U>>, <<Other("undecodable"), D>>, <<Other("bridge_event")>>}

\* One block a slot.
MCSingleBlocks == {<<D>>, <<DU>>}

==============================================================================
