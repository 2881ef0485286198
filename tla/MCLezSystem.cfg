\* Every kind of transaction, four of them applied; three units of balance.
CONSTANTS
    alice = alice
    bob = bob
    vault_a = vault_a
    vault_b = vault_b
    bridge = bridge
    faucet = faucet
    c1 = c1
    c2 = c2
    c3 = c3
    unused = unused
    AUTH = AUTH
    VAULT = VAULT
    BRIDGE = BRIDGE
    FAUCET = FAUCET
    CLOCK = CLOCK
    NoData = NoData
    None = None
    DEFAULT_PROGRAM_ID = DEFAULT_PROGRAM_ID
    AccountIds = {alice, bob, vault_a, vault_b, bridge, faucet, c1, c2, c3, unused}
    Users = {alice, bob}
    ProgramIds = {AUTH, VAULT, BRIDGE, FAUCET, CLOCK}
    GenesisPrograms = {AUTH, VAULT, BRIDGE, FAUCET, CLOCK}
    Data <- MCData
    Seeds <- MCSeeds
    Instructions <- LezInstruction
    MaxBalance = 3
    MaxTicks = 6
    MaxTime = 1
    MAX_NUMBER_CHAINED_CALLS = 2
    MaxNonce = 3
    MaxApplied = 4
    PdaOf <- MCPdaOf
    VaultSeed <- MCVaultSeed
    BridgeSeed <- MCBridgeSeed
    FaucetSeed <- MCFaucetSeed
    ClockIds <- MCClockIds
    ClockIntervals <- MCClockIntervals
    Execute <- LezProgram
    Admissible <- ValidateOnState
    Transactions <- MCTransactions
    GenesisAccounts <- MCGenesis
SPECIFICATION Spec
INVARIANT
    ClocksAgree
PROPERTIES
    UsersSpendTheirOwn
    
    FaucetIsFrozen
    BridgePaysDepositsOnly
\* The bounds on blocks and applied transactions end every behaviour.
CHECK_DEADLOCK FALSE
