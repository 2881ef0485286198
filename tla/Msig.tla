--------------------------------- MODULE Msig ---------------------------------
(***************************************************************************)
(* The LP-0002 anonymous M-of-N multisig: registries, proposals, treasury. *)
(* Approvals are proofs: made against the proposal and the voting account  *)
(* a member saw, applied later to what the chain holds by then, or never.  *)
(*                                                                         *)
(* An instruction takes whatever accounts its caller names, and reads their*)
(* bytes in its own layout.  Where the two layouts overlap only two words  *)
(* matter, HeadWord and TailWord.  Hashes are injective.                   *)
(***************************************************************************)
EXTENDS Integers, Sequences, FiniteSets

CONSTANTS
    Secrets,              \* people, enrolled or not, by voting secret
    Accounts, Foreign,    \* accounts msig may come to own; one of another program
    ProposalIds,
    HeadWord,             \* first word of an id, a leaf count to enroll
    Leaves,               \* values that may be enrolled
    Below,                \* whose member leaves are hashed into a value
    TailWord,             \* last word of a leaf, an approval count to execute
    Roots,                \* member roots that callers pass
    Programs, TransferProgram, NoProgram,
    NoProposal, NoProof,
    Capacity,             \* 2^TREE_DEPTH
    MaxEnrolled, MaxVersion, MaxFunds     \* bounds of the instance

VARIABLES
    registries,           \* leaves of each account in registry layout
    proposals,            \* data of each account in proposal layout
    mixed,                \* accounts written in both layouts, data left open
    riders,               \* live version of each voting account; 0 before the first
    proofs,               \* newest approval proof of a person for a proposal account
    treasury,             \* the PDA, what the recipient got, and whether another
                          \* program than the transfer program was ever handed it
    released              \* history: highest threshold of an Execute on each account

vars == <<registries, proposals, mixed, riders, proofs, treasury, released>>

VoteNullifier(secret, proposal_id) == [secret |-> secret, proposal_id |-> proposal_id]
Nullifier == [secret : Secrets, proposal_id : ProposalIds]

ProposalState == [member_root : Seq(Leaves), proposal_id : ProposalIds,
                  approval_count : Nat, nullifiers : Seq(Nullifier)]

Approval == [proposal : ProposalState, rider : Nat]

Pairs == Secrets \X Accounts

ASSUME MsigInstance ==
    /\ IsFiniteSet(Secrets)
    /\ Foreign \notin Accounts
    /\ HeadWord \in [ProposalIds -> Nat] /\ TailWord \in [Leaves -> Nat]
    /\ Below \in [Leaves -> SUBSET Secrets]
    /\ Roots \subseteq Seq(Leaves)
    /\ TransferProgram \in Programs /\ NoProgram \notin Programs
    /\ NoProposal \notin ProposalState
    /\ NoProof \notin Approval
    /\ Capacity \in Nat \ {0}
    /\ MaxEnrolled \in Nat /\ MaxVersion \in Nat /\ MaxFunds \in Nat

-----------------------------------------------------------------------------
\* Vec::resize pads with empty leaves and cuts what exceeds the capacity; a
\* root stands for the leaves that remain.
MerkleRoot(leaves) ==
    SubSeq(leaves, 1, IF Len(leaves) <= Capacity THEN Len(leaves) ELSE Capacity)

\* root_from_path takes a path of any length, so whoever is hashed into a leaf
\* has a path to the root as well.
HasPath(secret, root) == \E i \in DOMAIN root : secret \in Below[root[i]]

Recorded(p, nullifier) == \E i \in DOMAIN p.nullifiers : p.nullifiers[i] = nullifier

\* Mutant of Approvable: the duplicate check is dropped.
ApprovableTwice(secret, p, rider) ==
    p # NoProposal /\ rider > 0 /\ HasPath(secret, p.member_root)

\* Mutant of Approvable: a voting account that was never used does not count.
ApprovableOnceUsed(secret, p, rider) ==
    /\ p # NoProposal
    /\ rider > 1
    /\ HasPath(secret, p.member_root)
    /\ ~Recorded(p, VoteNullifier(secret, p.proposal_id))

\* The assertions of approve.
Approvable(secret, p, rider) ==
    /\ p # NoProposal
    /\ rider > 0
    /\ HasPath(secret, p.member_root)
    /\ ~Recorded(p, VoteNullifier(secret, p.proposal_id))

Approved(p, secret) ==
    [p EXCEPT !.nullifiers = Append(@, VoteNullifier(secret, p.proposal_id)),
              !.approval_count = @ + 1]

\* Mutant of EnrollsOn: the slice of leaves is cut short instead of panicking.
EnrollsOnAny(p) == TRUE

\* enroll on a proposal finds as many leaves as the first word of the id says;
\* the id and the count make one, every nullifier another.
EnrollsOn(p) == HeadWord[p.proposal_id] <= 1 + Len(p.nullifiers)

\* approve on a registry finds as many nullifiers as the last word of the
\* first leaf says; every later leaf makes one.
ApprovesOn(leaves, secret) ==
    /\ leaves # <<>>
    /\ TailWord[leaves[1]] < Len(leaves)
    /\ HasPath(secret, MerkleRoot(leaves))

-----------------------------------------------------------------------------
Init ==
    /\ registries = [a \in Accounts |-> <<>>]
    /\ proposals = [a \in Accounts |-> NoProposal]
    /\ mixed = {}
    /\ riders = [s \in Secrets |-> 0]
    /\ proofs = [x \in Pairs |-> NoProof]
    /\ treasury = [owner |-> NoProgram, balance |-> 0, recipient |-> 0, handed |-> FALSE]
    /\ released = [a \in Accounts |-> 0]

\* Anyone may append any leaf to any account of the program; a fresh account
\* is claimed.  What is written on a proposal has both layouts.
Enroll(a, leaf) ==
    /\ \/ /\ proposals[a] = NoProposal
          /\ a \notin mixed
          /\ Len(registries[a]) < MaxEnrolled
          /\ registries' = [registries EXCEPT ![a] = Append(@, leaf)]
          /\ UNCHANGED <<proposals, mixed>>
       \/ /\ proposals[a] # NoProposal
          /\ EnrollsOn(proposals[a])
          /\ proposals' = [proposals EXCEPT ![a] = NoProposal]
          /\ mixed' = mixed \cup {a}
          /\ UNCHANGED registries
    /\ UNCHANGED <<riders, proofs, treasury, released>>

IsFresh(a) == proposals[a] = NoProposal /\ registries[a] = <<>> /\ a \notin mixed

\* Mutant of CreateProposal: the header has no count.
CreateProposalUncounted(a, root, id) ==
    /\ IsFresh(a)
    /\ proposals' = [proposals EXCEPT ![a] =
          [member_root |-> root, proposal_id |-> id, nullifiers |-> <<>>]]
    /\ UNCHANGED <<registries, mixed, riders, proofs, treasury, released>>

\* The claim succeeds on a fresh account only; the root is the caller's.
CreateProposal(a, root, id) ==
    /\ IsFresh(a)
    /\ proposals' = [proposals EXCEPT ![a] =
          [member_root |-> root, proposal_id |-> id, approval_count |-> 0, nullifiers |-> <<>>]]
    /\ UNCHANGED <<registries, mixed, riders, proofs, treasury, released>>

\* The voting account is opened, or moves on by a version in a transfer of
\* its owner that has nothing to do with the multisig.
UseVotingAccount(s) ==
    /\ riders[s] < MaxVersion
    /\ riders' = [riders EXCEPT ![s] = @ + 1]
    /\ UNCHANGED <<registries, proposals, mixed, proofs, treasury, released>>

\* Anyone credits the account, or its key signs another transaction: balance
\* and nonce never come back to what the proofs at hand were made against, so
\* these are worthless from now on.
Touch(a) ==
    /\ proofs' = [x \in Pairs |-> IF x[2] = a THEN NoProof ELSE proofs[x]]
    /\ UNCHANGED <<registries, proposals, mixed, riders, treasury, released>>

\* run_approve: read the live proposal and voting account, prove.
ProveApproval(s, a) ==
    /\ Approvable(s, proposals[a], riders[s])
    /\ proofs' = [proofs EXCEPT ![<<s, a>>] = [proposal |-> proposals[a], rider |-> riders[s]]]
    /\ UNCHANGED <<registries, proposals, mixed, riders, treasury, released>>

\* The public pre state must be the live account, its data here and the rest
\* of it by Touch, and the version of the voting account that the proof spends
\* must be unspent.
StillCurrent(s, a) ==
    /\ proofs[<<s, a>>].proposal = proposals[a]
    /\ proofs[<<s, a>>].rider = riders[s]

\* Mutant of SubmitApproval: the voting account passes through unspent.
SubmitKeepingRider(s, a) ==
    /\ proofs[<<s, a>>] # NoProof
    /\ StillCurrent(s, a)
    /\ proposals' = [proposals EXCEPT ![a] = Approved(proofs[<<s, a>>].proposal, s)]
    /\ UNCHANGED <<registries, mixed, riders, proofs, treasury, released>>

\* The transaction stays around and may be delivered again.
SubmitApproval(s, a) ==
    /\ proofs[<<s, a>>] # NoProof
    /\ StillCurrent(s, a)
    /\ proposals' = [proposals EXCEPT ![a] = Approved(proofs[<<s, a>>].proposal, s)]
    /\ riders' = [riders EXCEPT ![s] = @ + 1]
    /\ UNCHANGED <<registries, mixed, proofs, treasury, released>>

\* approve aimed at an account that is no proposal.
ApproveElsewhere(s, a) ==
    /\ a \in mixed \/ ApprovesOn(registries[a], s)
    /\ riders[s] \in 1..MaxVersion
    /\ registries' = [registries EXCEPT ![a] = <<>>]
    /\ mixed' = mixed \cup {a}
    /\ riders' = [riders EXCEPT ![s] = @ + 1]
    /\ UNCHANGED <<proposals, proofs, treasury, released>>

\* The program to initialise the PDA is the caller's choice.  The transfer
\* program claims a fresh one.  Any other program is handed the PDA authorized,
\* and may claim it or move what it holds.
InitTreasury(program) ==
    /\ \/ /\ program = TransferProgram
          /\ treasury.owner = NoProgram
          /\ treasury' = [treasury EXCEPT !.owner = program]
       \/ /\ program # TransferProgram
          /\ \E owner \in {treasury.owner} \cup (IF treasury.owner = NoProgram THEN {program} ELSE {}),
                left \in 0..treasury.balance :
                treasury' = [treasury EXCEPT !.owner = owner, !.balance = left, !.handed = TRUE]
    /\ UNCHANGED <<registries, proposals, mixed, riders, proofs, released>>

\* A program moves the money of an account it owns as it likes, also when
\* Execute calls it.
OwnerTakes ==
    /\ treasury.owner \notin {NoProgram, TransferProgram}
    /\ \E left \in 0..treasury.balance : treasury' = [treasury EXCEPT !.balance = left]
    /\ UNCHANGED <<registries, proposals, mixed, riders, proofs, released>>

\* A plain transfer; on an account nobody initialised it fails.
FundTreasury ==
    /\ treasury.owner # NoProgram
    /\ treasury.balance + treasury.recipient < MaxFunds
    /\ treasury' = [treasury EXCEPT !.balance = @ + 1]
    /\ UNCHANGED <<registries, proposals, mixed, riders, proofs, released>>

\* Mutant of EnoughApprovals: one short.
OneShort(a, threshold) ==
    \/ a \in {Foreign} \cup mixed
    \/ a \in Accounts /\ proposals[a] # NoProposal
          /\ proposals[a].approval_count + 1 >= threshold
    \/ a \in Accounts /\ registries[a] # <<>> /\ TailWord[registries[a][1]] >= threshold

\* The word where a proposal has its count, of any account long enough.
EnoughApprovals(a, threshold) ==
    \/ a \in {Foreign} \cup mixed
    \/ a \in Accounts /\ proposals[a] # NoProposal
          /\ proposals[a].approval_count >= threshold
    \/ a \in Accounts /\ registries[a] # <<>> /\ TailWord[registries[a][1]] >= threshold

Noted(a, threshold) ==
    [x \in Accounts |->
        IF x = a /\ threshold > released[x] THEN threshold ELSE released[x]]

\* Mutant of Execute: the untouched treasury among the post states wins over
\* the debit of the chained call.
ExecuteWithoutDebit(a, threshold) ==
    /\ EnoughApprovals(a, threshold)
    /\ treasury.owner = TransferProgram
    /\ treasury' = [treasury EXCEPT !.recipient = @ + treasury.balance]
    /\ released' = Noted(a, threshold)
    /\ UNCHANGED <<registries, proposals, mixed, riders, proofs>>

\* The threshold is an argument of the call.  The call chained to the owner of
\* the treasury drains it; one that nobody initialised names no program.
Execute(a, threshold) ==
    /\ EnoughApprovals(a, threshold)
    /\ treasury.owner = TransferProgram
    /\ treasury' = [treasury EXCEPT !.balance = 0, !.recipient = @ + treasury.balance]
    /\ released' = Noted(a, threshold)
    /\ UNCHANGED <<registries, proposals, mixed, riders, proofs>>

Next ==
    \/ \E a \in Accounts, leaf \in Leaves : Enroll(a, leaf)
    \/ \E a \in Accounts, root \in Roots, id \in ProposalIds : CreateProposal(a, root, id)
    \/ \E s \in Secrets : UseVotingAccount(s)
    \/ \E a \in Accounts : Touch(a)
    \/ \E s \in Secrets, a \in Accounts :
          ProveApproval(s, a) \/ SubmitApproval(s, a) \/ ApproveElsewhere(s, a)
    \/ \E program \in Programs : InitTreasury(program)
    \/ OwnerTakes
    \/ FundTreasury
    \/ \E a \in Accounts \cup {Foreign}, threshold \in 0..Cardinality(Secrets) :
          Execute(a, threshold)

Spec == Init /\ [][Next]_vars

\* Members keep trying: run_approve is run again, on what it reads then, and
\* the sequencer takes what is delivered.
FairSpec ==
    /\ Spec
    /\ \A s \in Secrets, a \in Accounts :
          WF_vars(ProveApproval(s, a)) /\ WF_vars(SubmitApproval(s, a))
-----------------------------------------------------------------------------
\* Types of the state.
TypeOK ==
    /\ registries \in [Accounts -> Seq(Leaves)]
    /\ proposals \in [Accounts -> ProposalState \cup {NoProposal}]
    /\ mixed \subseteq Accounts
    /\ riders \in [Secrets -> Nat]
    /\ proofs \in [Pairs -> Approval \cup {NoProof}]
    /\ treasury \in [owner : Programs \cup {NoProgram}, balance : Nat, recipient : Nat,
                     handed : BOOLEAN]
    /\ released \in [Accounts -> Nat]

Members(p) == {s \in Secrets : HasPath(s, p.member_root)}
Approvers(p) == {s \in Secrets : Recorded(p, VoteNullifier(s, p.proposal_id))}

\* The first word of the id asks enroll for more leaves than a proposal will
\* ever have room for.
Sturdy(p) == HeadWord[p.proposal_id] > 1 + Cardinality(Secrets)

\* An account that is, and will stay, a proposal.
Settled(a) == proposals[a] # NoProposal /\ Sturdy(proposals[a])

\* As long as nobody enrolled on it, the count in a proposal is the number of
\* different people under its frozen root that approved it: nobody counts twice
\* and nobody else counts, however proofs race, go stale or are delivered again.
CountIsApprovers ==
    \A a \in Accounts : proposals[a] # NoProposal =>
        /\ Approvers(proposals[a]) \subseteq Members(proposals[a])
        /\ proposals[a].approval_count = Cardinality(Approvers(proposals[a]))
        /\ proposals[a].approval_count = Len(proposals[a].nullifiers)

\* An Execute that named a settled proposal had as many people under its root
\* behind it as its caller asked for.  The property says nothing of a caller
\* who names another account, or asks for less than M.
ReleasesAreApproved ==
    \A a \in Accounts : Settled(a) =>
        Cardinality(Approvers(proposals[a]) \cap Members(proposals[a])) >= released[a]

\* An approval costs a version of the voting account: someone counted on
\* several proposals has moved on by as many versions.
ApprovalsSpendVersions ==
    \A s \in Secrets :
        LET counted == {a \in Accounts : proposals[a] # NoProposal
                                         /\ s \in Approvers(proposals[a])}
        IN  counted # {} => riders[s] > Cardinality(counted)

\* A settled proposal keeps its root and id and loses no approval, whatever
\* instruction is aimed at it: it never has room for the leaves that enroll
\* would read.
ProposalsAreFrozen ==
    [][\A a \in Accounts : Settled(a) =>
          /\ proposals'[a] # NoProposal
          /\ proposals'[a].member_root = proposals[a].member_root
          /\ proposals'[a].proposal_id = proposals[a].proposal_id
          /\ Approvers(proposals[a]) \subseteq Approvers(proposals'[a])]_vars

\* From some time on nobody touches a, and s spends the voting account on
\* nothing but a.
LeftInPeace(s, a) ==
    <>[][~Touch(a) /\ (riders'[s] # riders[s] => SubmitApproval(s, a))]_vars

\* A person under the root of a settled proposal, with a voting account, who
\* keeps trying, is counted in the end although every approval of somebody else
\* makes the proof at hand worthless.  A transfer to the proposal account does
\* so too, and nothing limits those: they have to stop.
EveryMemberIsCounted ==
    \A s \in Secrets, a \in Accounts :
        LeftInPeace(s, a) =>
            ((Settled(a) /\ s \in Members(proposals[a]) /\ riders[s] > 0)
                ~> (proposals[a] # NoProposal /\ s \in Approvers(proposals[a])))

\* What the promise speaks of, read off the accounts.
OpenProposals == {a \in Accounts : Settled(a)}
Electorate == [a \in Accounts |-> IF Settled(a) THEN Members(proposals[a]) ELSE {}]
Counted == [a \in Accounts |-> IF Settled(a) THEN Approvers(proposals[a]) ELSE {}]
Asked == [a \in Accounts |-> IF Settled(a) THEN released[a] ELSE 0]
Kept == ~treasury.handed

Promised == INSTANCE MsigPromise WITH
    Proposals <- Accounts, People <- Secrets,
    open <- OpenProposals, electorate <- Electorate, approvals <- Counted, asked <- Asked,
    kept <- Kept, balance <- IF Kept THEN treasury.balance ELSE 0,
    paid <- IF Kept THEN treasury.recipient ELSE 0

\* The program keeps the promise of MsigPromise: enrolling, proving, moving
\* voting accounts and what is done to other accounts are invisible in it,
\* everything else is a step of it.
KeepsPromise == Promised!PromiseSpec
=============================================================================
