----------------------------- MODULE MCLezSystem -----------------------------
(***************************************************************************)
(* Two users, their vaults, the system accounts and one transaction of     *)
(* each kind, including those that must be turned down: a user signs for   *)
(* the vault of the other one, as its claimant and as its sender.          *)
(***************************************************************************)
EXTENDS LezSystem

CONSTANTS alice, bob, vault_a, vault_b, bridge, faucet, c1, c2, c3, unused, MaxTicks

MCClockIds == <<c1, c2, c3>>
MCClockIntervals == <<1, 2, 3>>

MCVaultSeed(u) == <<"vault", u>>
MCBridgeSeed == <<"bridge", "bridge">>
MCFaucetSeed == <<"faucet", "faucet">>
MCSeeds == {MCVaultSeed(u) : u \in {alice, bob}} \cup {MCBridgeSeed, MCFaucetSeed}

MCPdaOf(p, seed) ==
    CASE p = VAULT /\ seed = <<"vault", alice>> -> vault_a
      [] p = VAULT /\ seed = <<"vault", bob>>   -> vault_b
      [] p = BRIDGE /\ seed = MCBridgeSeed      -> bridge
      [] p = FAUCET /\ seed = MCFaucetSeed      -> faucet
      [] OTHER                                  -> unused

\* The clock of the instance stops at MaxTicks.
MCData == {NoData} \cup [block_id : 0..MaxTicks, timestamp : 0..MaxTime]

Funded(owner, n) == [program_owner |-> owner, balance |-> n, data |-> NoData, nonce |-> 0]

MCGenesis ==
    [a \in AccountIds |->
        CASE a \in {alice, bridge, faucet} -> Funded(AUTH, 1)
          [] a \in {c1, c2, c3} ->
               [program_owner |-> CLOCK, balance |-> 0, nonce |-> 0,
                data |-> [block_id |-> 0, timestamp |-> 0]]
          [] OTHER -> DefaultAccount]

Tx(origin, p, ids, signers, nonce, ins) ==
    [origin |-> origin, program_id |-> p, account_ids |-> ids, signers |-> signers,
     nonces |-> [i \in DOMAIN signers |-> nonce], instruction |-> ins]

Amount(op, n) == [op |-> op, amount |-> n]
To(op, u, n) == [op |-> op, recipient_id |-> u, amount |-> n]
Through(p, op, u, n) ==
    [op |-> op, vault_program_id |-> p, recipient_id |-> u, amount |-> n]

\* A VaultTransfer names the user whose seed it uses: the recipient, the owner
\* of a vault it would take from, or neither.
SignedTransactions ==
    UNION {{Tx("User", AUTH, <<bob>>, <<bob>>, n, [op |-> "Initialize"]),
            Tx("User", AUTH, <<alice, bob>>, <<alice>>, n, Amount("Transfer", 1)),
            Tx("User", AUTH, <<alice, bob>>, <<alice, bob>>, n, Amount("Transfer", 1)),
            Tx("User", VAULT, <<alice, vault_b>>, <<alice>>, n, To("VaultTransfer", bob, 1)),
            Tx("User", VAULT, <<alice, vault_a>>, <<alice>>, n, To("VaultTransfer", bob, 1)),
            Tx("User", VAULT, <<vault_b, alice>>, <<alice>>, n, To("VaultTransfer", bob, 1)),
            Tx("User", VAULT, <<vault_b, vault_a>>, <<alice>>, n, To("VaultTransfer", alice, 1)),
            Tx("User", VAULT, <<bob, vault_b>>, <<bob>>, n, Amount("Claim", 1)),
            Tx("User", VAULT, <<alice, vault_b>>, <<alice>>, n, Amount("Claim", 1)),
            Tx("User", BRIDGE, <<alice, bridge>>, <<alice>>, n, Amount("Withdraw", 1))} :
           n \in 0..1}

UnsignedTransactions ==
    {Tx("User", AUTH, <<alice, bob>>, <<>>, 0, Amount("Transfer", 1)),
     Tx("User", VAULT, <<bob, vault_b>>, <<>>, 0, Amount("Claim", 1)),
     Tx("User", FAUCET, <<faucet, bridge>>, <<>>, 0, Amount("GenesisTransferDirect", 1)),
     Tx("User", FAUCET, <<faucet, vault_b>>, <<>>, 0, Through(VAULT, "GenesisTransferVault", bob, 1)),
     Tx("User", BRIDGE, <<bridge, vault_b>>, <<>>, 0, Through(VAULT, "Deposit", bob, 1)),
     Tx("User", BRIDGE, <<bridge, unused>>, <<>>, 0, Through(AUTH, "Deposit", bob, 1)),
     Tx("User", CLOCK, MCClockIds, <<>>, 0, [op |-> "Tick", timestamp |-> 1]),
     Tx("Sequencer", CLOCK, MCClockIds, <<>>, 0, [op |-> "Tick", timestamp |-> 1]),
     Tx("Sequencer", BRIDGE, <<bridge, vault_b>>, <<>>, 0, Through(VAULT, "Deposit", bob, 1))}

MCTransactions == SignedTransactions \cup UnsignedTransactions
=============================================================================
