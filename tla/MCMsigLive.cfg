\* Two people racing to approve two proposals.
CONSTANTS
    s1 = s1
    s2 = s2
    p1 = p1
    p2 = p2
    NoProposal = NoProposal
    NoProof = NoProof
    Foreign = Foreign
    NoProgram = NoProgram
    TransferProgram = "transfer"
    Programs = {"transfer", "other"}
    Secrets = {s1, s2}
    Accounts = {p1, p2}
    ProposalIds = {"settled"}
    Leaves = {"leaf", "node"}
    HeadWord <- MCHeadWord
    Below <- MCBelow
    TailWord <- MCTailWord
    Roots <- MCRoots
    Capacity = 1
    MaxEnrolled = 1
    MaxVersion = 2
    MaxFunds = 0
SPECIFICATION FairSpec
PROPERTY
    EveryMemberIsCounted
