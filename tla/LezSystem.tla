------------------------------ MODULE LezSystem ------------------------------
(***************************************************************************)
(* The public state machine running the system programs: what a chain of   *)
(* their calls may do to the money and the clocks of the zone.             *)
(***************************************************************************)
EXTENDS LeePublic, LezPrograms

\* A user's balance falls only in a transaction the user signed, however the
\* vault, the bridge and the faucet chain to authenticated_transfer.
UsersSpendTheirOwn ==
    [][\A u \in Users :
          public_state'[u].balance < public_state[u].balance => u \in SignerSet(tx)]_vars

\* A vault pays out only in a transaction signed by the user it belongs to.
\* The vault program marks whatever account it is handed as authorized, as the
\* claimant's vault or as the recipient's: that the seed it adds derives that
\* very account is only checked by the runtime, one call later.
VaultsPayTheirOwners ==
    [][\A u \in Users :
          public_state'[VaultId(VAULT, u)].balance < public_state[VaultId(VAULT, u)].balance
              => u \in SignerSet(tx)]_vars

\* After genesis nothing reaches the faucet, although its program is deployed
\* and callable.
FaucetIsFrozen == [][public_state'[FaucetId] = public_state[FaucetId]]_vars

\* The bridge pays out only in the sequencer's own transactions.
BridgePaysDepositsOnly ==
    [][public_state'[BridgeId].balance < public_state[BridgeId].balance
          => tx.origin = "Sequencer"]_vars

\* Each coarse clock shows the last multiple of its interval that the fine
\* clock has passed.
ClocksAgree ==
    LET id(i) == public_state[ClockIds[i]].data.block_id
    IN  \A i \in 2..3 : id(i) = id(1) - (id(1) % ClockIntervals[i])
=============================================================================
