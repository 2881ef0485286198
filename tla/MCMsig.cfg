\* Two people, two accounts for registries and proposals; a voting account
\* may move by itself.
CONSTANTS
    s1 = s1
    s2 = s2
    p1 = p1
    p2 = p2
    NoProposal = NoProposal
    NoProof = NoProof
    Foreign = Foreign
    NoProgram = NoProgram
    TransferProgram = "transfer"
    Programs = {"transfer", "other"}
    Secrets = {s1, s2}
    Accounts = {p1, p2}
    ProposalIds = {"settled", "low"}
    Leaves = {"leaf", "node"}
    HeadWord <- MCHeadWord
    Below <- MCBelow
    TailWord <- MCTailWord
    Roots <- MCRoots
    Capacity = 1
    MaxEnrolled = 2
    MaxVersion = 1
    MaxFunds = 1
SPECIFICATION Spec
SYMMETRY Interchangeable
INVARIANTS
    TypeOK
    CountIsApprovers
    ReleasesAreApproved
    
PROPERTY
    ProposalsAreFrozen
    KeepsPromise
