\* One unit of balance, two proofs in flight, one block boundary.
CONSTANTS
    pub1 = pub1
    pub2 = pub2
    alice = alice
    bob = bob
    DUMMY_COMMITMENT = DUMMY_COMMITMENT
    PublicIds = {pub1, pub2}
    PrivateIds = {alice, bob}
    GenesisBalance <- MCGenesisBalance
    InitialPrivate <- MCInitialPrivate
    Programs <- MCPrograms
    Candidates <- MCCandidates
    MaxBalance = 1
    MaxProven = 2
    MaxNonce = 1
    MaxLeaves = 5
    MaxBlock = 1
SPECIFICATION Spec
INVARIANTS
    TypeOK
    OneLiveVersion
    SpentVersionsExisted
    ValueIsConserved
    LiveVersionsAreSpendable
PROPERTY
    PublicDebitsAreSigned
\* The bound on proofs ends every behaviour.
CHECK_DEADLOCK FALSE
