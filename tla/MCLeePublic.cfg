\* Two calls in a chain beyond which the counter stops it; balances up to 1.
CONSTANTS
    P = P
    Q = Q
    user = user
    fresh = fresh
    vault = vault
    other = other
    s = s
    d = d
    NoData = NoData
    None = None
    DEFAULT_PROGRAM_ID = DEFAULT_PROGRAM_ID
    AccountIds = {user, fresh, vault, other}
    ProgramIds = {P, Q}
    Data = {NoData, d}
    Seeds = {s}
    Instructions = {"any"}
    MaxBalance = 1
    MaxTime = 1
    MAX_NUMBER_CHAINED_CALLS = 1
    MaxNonce = 2
    MaxApplied = 2
    PdaOf <- MCPdaOf
    Execute <- MCExecute
    Admissible <- MCAdmissible
    Transactions <- MCTransactions
    GenesisAccounts <- MCGenesis
    GenesisPrograms = {P}
SPECIFICATION Spec
INVARIANTS
    TypeOK
    UnownedAccountsAreEmpty
    BalanceIsConserved
    AuthorizationHasASource
    SignedTransactionsAreAppliedOnce
PROPERTIES
    OwnersAreForever
    ClaimsHaveASource
    OnlyTheOwnerTakes
    TransactionsEnd
\* The bounds on blocks and applied transactions end every behaviour.
CHECK_DEADLOCK FALSE
