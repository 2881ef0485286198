------------------------------ MODULE MsigProofs ------------------------------
(***************************************************************************)
(* The multisig counts members right, keeps settled proposals as they are, *)
(* and keeps the promise of MsigPromise, for any people, accounts, leaves, *)
(* ids and programs.  Besides the properties themselves the invariant      *)
(* keeps what a proof showed when it was made, that a proposal has no      *)
(* other layout, and that only a used account was ever executed on.        *)
(***************************************************************************)
EXTENDS Msig, FiniteSetTheorems, SequenceTheorems, TLAPS

CountsItsApprovers(p) ==
    /\ Approvers(p) \subseteq Members(p)
    /\ p.approval_count = Cardinality(Approvers(p))
    /\ p.approval_count = Len(p.nullifiers)

\* A proof shows that its proposal could be approved with its rider.
ProofsHold ==
    \A s \in Secrets, a \in Accounts :
        proofs[<<s, a>>] # NoProof => Approvable(s, proofs[<<s, a>>].proposal, proofs[<<s, a>>].rider)

OneLayout ==
    \A a \in Accounts :
        /\ proposals[a] # NoProposal => registries[a] = <<>> /\ a \notin mixed
        /\ IsFresh(a) => released[a] = 0

OwnersWereHanded ==
    treasury.owner \notin {NoProgram, TransferProgram} => treasury.handed

IInv ==
    /\ TypeOK
    /\ CountIsApprovers
    /\ ReleasesAreApproved
    /\ ProofsHold
    /\ OneLayout
    /\ OwnersWereHanded

Treasury == [owner : Programs \cup {NoProgram}, balance : Nat, recipient : Nat,
             handed : BOOLEAN]

-----------------------------------------------------------------------------
LEMMA SomeSecrets == \A S \in SUBSET Secrets : IsFiniteSet(S) /\ Cardinality(S) \in Nat
  BY MsigInstance, FS_Subset, FS_CardinalityType

\* What approving does to a proposal.
LEMMA ApprovedProposal ==
  ASSUME NEW p \in ProposalState, NEW s \in Secrets, NEW r \in Nat, Approvable(s, p, r)
  PROVE  /\ Approved(p, s) \in ProposalState
         /\ Approved(p, s).member_root = p.member_root
         /\ Approved(p, s).proposal_id = p.proposal_id
         /\ Members(Approved(p, s)) = Members(p)
         /\ Approvers(Approved(p, s)) = Approvers(p) \cup {s}
         /\ s \in Members(p) \ Approvers(p)
         /\ CountsItsApprovers(p) => CountsItsApprovers(Approved(p, s))
<1> DEFINE n == VoteNullifier(s, p.proposal_id)
           q == Approved(p, s)
<1>1. n \in Nullifier /\ p.nullifiers \in Seq(Nullifier) /\ p.approval_count \in Nat
  BY DEF ProposalState, VoteNullifier, Nullifier
<1>2. /\ q.member_root = p.member_root /\ q.proposal_id = p.proposal_id
      /\ q.nullifiers = Append(p.nullifiers, n)
      /\ q.approval_count = p.approval_count + 1
  BY DEF Approved, ProposalState
<1>3. /\ q.nullifiers \in Seq(Nullifier) /\ Len(q.nullifiers) = Len(p.nullifiers) + 1
      /\ \A i \in 1..Len(p.nullifiers) : q.nullifiers[i] = p.nullifiers[i]
      /\ q.nullifiers[Len(p.nullifiers) + 1] = n
  BY <1>1, <1>2, AppendProperties
<1>4. q \in ProposalState
  <2>1. p.approval_count + 1 \in Nat /\ Append(p.nullifiers, n) \in Seq(Nullifier)
    BY <1>1, AppendProperties
  <2>2. QED
    BY Zenon, <2>1 DEF Approved, ProposalState
<1>5. Members(q) = Members(p)
  BY <1>2 DEF Members
<1>6. /\ DOMAIN p.nullifiers = 1..Len(p.nullifiers) /\ Len(p.nullifiers) \in Nat
      /\ DOMAIN q.nullifiers = 1..Len(p.nullifiers) + 1
  BY <1>1, <1>3
<1>7. \A m : Recorded(q, m) <=> Recorded(p, m) \/ m = n
  <2> TAKE m
  <2> HIDE DEF q, n
  <2>1. Recorded(p, m) => Recorded(q, m)
    BY <1>3, <1>6 DEF Recorded
  <2>2. m = n => Recorded(q, m)
    BY <1>3, <1>6 DEF Recorded
  <2>3. Recorded(q, m) => Recorded(p, m) \/ m = n
    <3> SUFFICES ASSUME NEW i \in DOMAIN q.nullifiers, q.nullifiers[i] = m
                 PROVE  Recorded(p, m) \/ m = n
      BY DEF Recorded
    <3>1. i \in 1..Len(p.nullifiers) \/ i = Len(p.nullifiers) + 1
      BY <1>6
    <3>2. QED
      BY <3>1, <1>3, <1>6 DEF Recorded
  <2>4. QED
    BY <2>1, <2>2, <2>3
<1>8. \A t \in Secrets : VoteNullifier(t, p.proposal_id) = n <=> t = s
  BY DEF VoteNullifier
<1>9. Approvers(q) = Approvers(p) \cup {s}
  BY <1>2, <1>7, <1>8 DEF Approvers
<1>10. s \in Members(p) /\ s \notin Approvers(p)
  BY DEF Approvable, Members, Approvers
<1>11. ASSUME CountsItsApprovers(p) PROVE CountsItsApprovers(q)
  <2>1. IsFiniteSet(Approvers(p))
    BY SomeSecrets DEF Approvers
  <2>2. Cardinality(Approvers(q)) = Cardinality(Approvers(p)) + 1
    BY <2>1, <1>9, <1>10, FS_AddElement
  <2>3. Approvers(q) \subseteq Members(q)
    BY <1>11, <1>5, <1>9, <1>10 DEF CountsItsApprovers
  <2>4. QED
    BY Zenon, <1>11, <2>2, <2>3, <1>2, <1>3 DEF CountsItsApprovers
<1> QED
  BY <1>2, <1>4, <1>5, <1>9, <1>10, <1>11

\* A new proposal has no approvers.
LEMMA NewProposal ==
  ASSUME NEW root \in Seq(Leaves), NEW id \in ProposalIds
  PROVE  LET p == [member_root |-> root, proposal_id |-> id, approval_count |-> 0,
                   nullifiers |-> <<>>]
         IN  p \in ProposalState /\ Approvers(p) = {} /\ CountsItsApprovers(p)
<1> DEFINE p == [member_root |-> root, proposal_id |-> id, approval_count |-> 0,
                 nullifiers |-> <<>>]
<1>1. p \in ProposalState
  BY DEF ProposalState
<1>2. Approvers(p) = {}
  BY DEF Approvers, Recorded
<1>3. Cardinality({}) = 0
  BY FS_EmptySet
<1>4. QED
  BY Zenon, <1>1, <1>2, <1>3 DEF CountsItsApprovers

-----------------------------------------------------------------------------
LEMMA InitIInv == Init => IInv
<1> SUFFICES ASSUME Init PROVE IInv
  OBVIOUS
<1>1. TypeOK
  BY DEF Init, TypeOK, Pairs
<1>2. CountIsApprovers /\ ReleasesAreApproved
  BY DEF Init, CountIsApprovers, ReleasesAreApproved, Settled
<1>3. ProofsHold
  BY DEF Init, ProofsHold, Pairs
<1>4. OneLayout /\ OwnersWereHanded
  BY DEF Init, OneLayout, OwnersWereHanded
<1> QED
  BY <1>1, <1>2, <1>3, <1>4 DEF IInv

\* Steps that leave the accounts alone.
LEMMA TreasurySteps ==
  ASSUME IInv, treasury' \in Treasury, OwnersWereHanded', riders' \in [Secrets -> Nat],
         UNCHANGED <<registries, proposals, mixed, proofs, released>>
  PROVE  IInv'
<1>1. TypeOK'
  BY DEF IInv, TypeOK, Treasury
<1>2. CountIsApprovers' /\ ReleasesAreApproved'
  BY Zenon DEF IInv, CountIsApprovers, ReleasesAreApproved, Settled
<1>3. ProofsHold' /\ OneLayout'
  BY Zenon DEF IInv, ProofsHold, OneLayout, IsFresh
<1> QED
  BY <1>1, <1>2, <1>3 DEF IInv

\* Steps that write the registry or the mixed layout on some accounts, and
\* take these out of the proposals.
LEMMA LayoutSteps ==
  ASSUME IInv, registries' \in [Accounts -> Seq(Leaves)], mixed' \subseteq Accounts,
         riders' \in [Secrets -> Nat], UNCHANGED <<proofs, treasury, released>>,
         proposals' \in [Accounts -> ProposalState \cup {NoProposal}],
         \A b \in Accounts : \/ /\ proposals'[b] = proposals[b]
                                /\ registries'[b] = registries[b]
                                /\ b \in mixed' <=> b \in mixed
                             \/ /\ proposals'[b] = NoProposal
                                /\ registries'[b] # <<>> \/ b \in mixed'
  PROVE  IInv'
<1>1. TypeOK'
  BY DEF IInv, TypeOK
<1>2. \A b \in Accounts : proposals'[b] = proposals[b] \/ proposals'[b] = NoProposal
  OBVIOUS
<1>3. CountIsApprovers' /\ ReleasesAreApproved'
  BY Zenon, <1>2 DEF IInv, CountIsApprovers, ReleasesAreApproved, Settled
<1>4. ProofsHold' /\ OwnersWereHanded'
  BY Zenon DEF IInv, ProofsHold, OwnersWereHanded
<1>5. OneLayout'
  BY Zenon DEF IInv, OneLayout, IsFresh
<1> QED
  BY <1>1, <1>3, <1>4, <1>5 DEF IInv

LEMMA EnrollStep ==
  ASSUME IInv, NEW a \in Accounts, NEW leaf \in Leaves, Enroll(a, leaf)
  PROVE  IInv'
<1>t. /\ registries \in [Accounts -> Seq(Leaves)] /\ mixed \subseteq Accounts
      /\ proposals \in [Accounts -> ProposalState \cup {NoProposal}]
      /\ riders \in [Secrets -> Nat]
  BY DEF IInv, TypeOK
<1>u. UNCHANGED <<riders, proofs, treasury, released>>
  BY DEF Enroll
<1>1. CASE /\ proposals[a] = NoProposal
           /\ registries' = [registries EXCEPT ![a] = Append(@, leaf)]
           /\ UNCHANGED <<proposals, mixed>>
  <2>1. Append(registries[a], leaf) \in Seq(Leaves) /\ Append(registries[a], leaf) # <<>>
    BY <1>t, AppendProperties
  <2>2. registries' \in [Accounts -> Seq(Leaves)]
        /\ \A b \in Accounts : registries'[b] =
              IF b = a THEN Append(registries[a], leaf) ELSE registries[b]
    BY <1>1, <1>t, <2>1
  <2>3. QED
    BY <1>1, <1>t, <1>u, <2>1, <2>2, LayoutSteps
<1>2. CASE /\ proposals' = [proposals EXCEPT ![a] = NoProposal]
           /\ mixed' = mixed \cup {a}
           /\ UNCHANGED registries
  <2>1. proposals' \in [Accounts -> ProposalState \cup {NoProposal}]
        /\ \A b \in Accounts : proposals'[b] = IF b = a THEN NoProposal ELSE proposals[b]
    BY <1>2, <1>t
  <2>2. QED
    BY <1>2, <1>t, <1>u, <2>1, LayoutSteps
<1> QED
  BY <1>1, <1>2 DEF Enroll

LEMMA ElsewhereStep ==
  ASSUME IInv, NEW s \in Secrets, NEW a \in Accounts, ApproveElsewhere(s, a)
  PROVE  IInv' /\ proposals[a] = NoProposal
<1>t. /\ registries \in [Accounts -> Seq(Leaves)] /\ mixed \subseteq Accounts
      /\ proposals \in [Accounts -> ProposalState \cup {NoProposal}]
      /\ riders \in [Secrets -> Nat]
  BY DEF IInv, TypeOK
<1>1. /\ a \in mixed \/ registries[a] # <<>>
      /\ registries' = [registries EXCEPT ![a] = <<>>] /\ mixed' = mixed \cup {a}
      /\ riders' = [riders EXCEPT ![s] = @ + 1]
      /\ UNCHANGED <<proposals, proofs, treasury, released>>
  BY DEF ApproveElsewhere, ApprovesOn
<1>2. proposals[a] = NoProposal
  BY <1>1 DEF IInv, OneLayout
<1>3. /\ registries' \in [Accounts -> Seq(Leaves)]
      /\ \A b \in Accounts : b # a => registries'[b] = registries[b]
      /\ riders' \in [Secrets -> Nat]
  BY <1>1, <1>t
<1> QED
  BY <1>1, <1>2, <1>3, <1>t, LayoutSteps

LEMMA CreateStep ==
  ASSUME IInv, NEW a \in Accounts, NEW root \in Seq(Leaves), NEW id \in ProposalIds,
         CreateProposal(a, root, id)
  PROVE  IInv'
<1> DEFINE p == [member_root |-> root, proposal_id |-> id, approval_count |-> 0,
                 nullifiers |-> <<>>]
<1>1. p \in ProposalState /\ CountsItsApprovers(p)
  BY NewProposal
<1>2. proposals' = [proposals EXCEPT ![a] = p] /\ IsFresh(a)
      /\ UNCHANGED <<registries, mixed, riders, proofs, treasury, released>>
  BY DEF CreateProposal
<1> HIDE DEF p
<1>3. TypeOK'
  BY <1>1, <1>2 DEF IInv, TypeOK
<1>4. \A b \in Accounts : proposals'[b] = IF b = a THEN p ELSE proposals[b]
  BY <1>2 DEF IInv, TypeOK
<1>5. CountIsApprovers'
  BY Zenon, <1>1, <1>4 DEF IInv, CountIsApprovers, CountsItsApprovers
<1>6. ReleasesAreApproved'
  <2> SUFFICES ASSUME NEW b \in Accounts, Settled(b)'
               PROVE  Cardinality(Approvers(proposals'[b]) \cap Members(proposals'[b]))
                        >= released'[b]
    BY DEF ReleasesAreApproved
  <2>1. CASE b # a
    BY Zenon, <2>1, <1>2, <1>4 DEF IInv, ReleasesAreApproved, Settled
  <2>2. CASE b = a
    <3>1. released'[b] = 0
      BY <1>2, <2>2 DEF IInv, OneLayout
    <3>2. Cardinality(Approvers(p) \cap Members(p)) \in Nat
      BY SomeSecrets DEF Members
    <3>3. proposals'[b] = p
      BY <1>4, <2>2
    <3>4. Cardinality(Approvers(p) \cap Members(p)) >= 0
      BY <3>2
    <3>5. QED
      BY Zenon, <3>1, <3>3, <3>4
  <2>3. QED
    BY <2>1, <2>2
<1>7. ProofsHold' /\ OwnersWereHanded'
  BY Zenon, <1>2 DEF IInv, ProofsHold, OwnersWereHanded
<1>8. OneLayout'
  <2>1. \A b \in Accounts : IsFresh(b)' => released[b] = 0
    <3> SUFFICES ASSUME NEW b \in Accounts, IsFresh(b)' PROVE released[b] = 0
      OBVIOUS
    <3>1. b # a
      BY <1>1, <1>4, MsigInstance DEF IsFresh
    <3>2. QED
      BY <1>2, <1>4, <3>1 DEF IInv, OneLayout, IsFresh
  <2>2. QED
    BY <1>2, <1>4, <2>1 DEF IInv, OneLayout, IsFresh
<1> QED
  BY <1>3, <1>5, <1>6, <1>7, <1>8 DEF IInv

\* Steps that only make or drop proofs.
LEMMA ProofSteps ==
  ASSUME IInv, proofs' \in [Pairs -> Approval \cup {NoProof}], ProofsHold',
         UNCHANGED <<registries, proposals, mixed, riders, treasury, released>>
  PROVE  IInv'
<1>1. TypeOK'
  BY DEF IInv, TypeOK
<1>2. CountIsApprovers' /\ ReleasesAreApproved'
  BY Zenon DEF IInv, CountIsApprovers, ReleasesAreApproved, Settled
<1>3. OneLayout' /\ OwnersWereHanded'
  BY Zenon DEF IInv, OneLayout, IsFresh, OwnersWereHanded
<1> QED
  BY <1>1, <1>2, <1>3 DEF IInv

LEMMA TouchStep ==
  ASSUME IInv, NEW a \in Accounts, Touch(a)
  PROVE  IInv'
<1>1. proofs' = [x \in Pairs |-> IF x[2] = a THEN NoProof ELSE proofs[x]]
      /\ UNCHANGED <<registries, proposals, mixed, riders, treasury, released>>
  BY DEF Touch
<1>2. proofs' \in [Pairs -> Approval \cup {NoProof}]
  BY <1>1 DEF IInv, TypeOK
<1>3. \A s \in Secrets, b \in Accounts :
         proofs'[<<s, b>>] = NoProof \/ proofs'[<<s, b>>] = proofs[<<s, b>>]
  BY <1>1 DEF Pairs
<1>4. ProofsHold'
  BY <1>3 DEF IInv, ProofsHold
<1> QED
  BY <1>1, <1>2, <1>4, ProofSteps

LEMMA ProveStep ==
  ASSUME IInv, NEW s \in Secrets, NEW a \in Accounts, ProveApproval(s, a)
  PROVE  IInv'
<1> DEFINE f == [proposal |-> proposals[a], rider |-> riders[s]]
<1>1. /\ proposals[a] # NoProposal /\ Approvable(s, proposals[a], riders[s])
      /\ proofs' = [proofs EXCEPT ![<<s, a>>] = f]
      /\ UNCHANGED <<registries, proposals, mixed, riders, treasury, released>>
  BY DEF ProveApproval, Approvable
<1>2. f \in Approval
  BY <1>1 DEF IInv, TypeOK, Approval
<1>3. /\ <<s, a>> \in Pairs
      /\ \A t \in Secrets, b \in Accounts :
            proofs'[<<t, b>>] = IF t = s /\ b = a THEN f ELSE proofs[<<t, b>>]
  BY <1>1 DEF IInv, TypeOK, Pairs
<1>4. f.proposal = proposals[a] /\ f.rider = riders[s]
  OBVIOUS
<1> HIDE DEF f
<1>5. proofs' \in [Pairs -> Approval \cup {NoProof}]
  BY <1>1, <1>2, <1>3 DEF IInv, TypeOK
<1>6. ProofsHold'
  BY <1>1, <1>3, <1>4 DEF IInv, ProofsHold
<1> QED
  BY <1>1, <1>5, <1>6, ProofSteps

\* What is submitted was approvable when it was proved, and nothing changed.
LEMMA Submitted ==
  ASSUME IInv, NEW s \in Secrets, NEW a \in Accounts, SubmitApproval(s, a)
  PROVE  /\ proposals[a] \in ProposalState /\ riders[s] \in Nat
         /\ Approvable(s, proposals[a], riders[s])
         /\ proposals' = [proposals EXCEPT ![a] = Approved(proposals[a], s)]
<1>1. proofs[<<s, a>>] # NoProof /\ proofs[<<s, a>>].proposal = proposals[a]
      /\ proofs[<<s, a>>].rider = riders[s]
      /\ proposals' = [proposals EXCEPT ![a] = Approved(proofs[<<s, a>>].proposal, s)]
  BY DEF SubmitApproval, StillCurrent
<1>2. Approvable(s, proposals[a], riders[s])
  BY <1>1 DEF IInv, ProofsHold
<1>3. QED
  BY <1>1, <1>2 DEF IInv, TypeOK, Approvable

LEMMA SubmitStep ==
  ASSUME IInv, NEW s \in Secrets, NEW a \in Accounts, SubmitApproval(s, a)
  PROVE  IInv'
<1> DEFINE p == proposals[a]
           q == Approved(p, s)
<1>1. p \in ProposalState /\ proposals' = [proposals EXCEPT ![a] = q]
      /\ Approvable(s, p, riders[s]) /\ riders[s] \in Nat /\ p # NoProposal
  BY Submitted, MsigInstance
<1>2. /\ q \in ProposalState /\ q # NoProposal /\ q.proposal_id = p.proposal_id
      /\ Members(q) = Members(p) /\ Approvers(q) = Approvers(p) \cup {s}
      /\ CountsItsApprovers(p) => CountsItsApprovers(q)
  BY <1>1, ApprovedProposal, MsigInstance
<1>3. riders' = [riders EXCEPT ![s] = @ + 1]
      /\ UNCHANGED <<registries, mixed, proofs, treasury, released>>
  BY DEF SubmitApproval
<1>4. CountsItsApprovers(p)
  BY <1>1 DEF IInv, CountIsApprovers, CountsItsApprovers
<1>5. \A b \in Accounts : proposals'[b] = IF b = a THEN q ELSE proposals[b]
  BY <1>1 DEF IInv, TypeOK
<1> HIDE DEF q
<1>6. TypeOK'
  BY <1>1, <1>2, <1>3 DEF IInv, TypeOK
<1>7. CountIsApprovers'
  BY Zenon, <1>2, <1>4, <1>5 DEF IInv, CountIsApprovers, CountsItsApprovers
<1>8. ReleasesAreApproved'
  <2> SUFFICES ASSUME NEW b \in Accounts, Settled(b)'
               PROVE  Cardinality(Approvers(proposals'[b]) \cap Members(proposals'[b]))
                        >= released[b]
    BY <1>3 DEF ReleasesAreApproved
  <2>1. released[b] \in Nat
    BY DEF IInv, TypeOK
  <2>2. CASE b # a
    BY Zenon, <2>2, <1>5 DEF IInv, ReleasesAreApproved, Settled
  <2>3. CASE b = a
    <3> DEFINE old == Approvers(p) \cap Members(p)
               new == Approvers(q) \cap Members(q)
    <3>1. old \in SUBSET new /\ new \subseteq Secrets
      BY <1>2 DEF Members
    <3>2. IsFiniteSet(new) /\ Cardinality(new) \in Nat /\ Cardinality(old) \in Nat
      BY <3>1, SomeSecrets
    <3>3. Cardinality(old) <= Cardinality(new)
      BY <3>1, <3>2, FS_Subset
    <3>4. Settled(a)
      BY <1>1, <1>2, <1>5, <2>3 DEF Settled, Sturdy
    <3>5. Cardinality(old) >= released[a]
      BY <3>4 DEF IInv, ReleasesAreApproved
    <3>6. Cardinality(new) >= released[a]
      <4> HIDE DEF old, new
      <4> QED
        BY <2>1, <2>3, <3>2, <3>3, <3>5
    <3>7. QED
      BY <1>5, <2>3, <3>6
  <2>4. QED
    BY <2>2, <2>3
<1>9. ProofsHold' /\ OwnersWereHanded'
  BY Zenon, <1>3 DEF IInv, ProofsHold, OwnersWereHanded
<1>10. OneLayout'
  BY Zenon, <1>1, <1>2, <1>3, <1>5 DEF IInv, OneLayout, IsFresh
<1> QED
  BY <1>6, <1>7, <1>8, <1>9, <1>10 DEF IInv

\* On a settled proposal an Execute meets its threshold by members alone.
LEMMA Enough ==
  ASSUME IInv, NEW a \in Accounts \cup {Foreign}, NEW threshold \in Nat,
         EnoughApprovals(a, threshold)
  PROVE  /\ a \in Accounts => ~IsFresh(a)
         /\ a \in Accounts /\ Settled(a) =>
               /\ Cardinality(Approvers(proposals[a])) >= threshold
               /\ Approvers(proposals[a]) \cap Members(proposals[a]) = Approvers(proposals[a])
<1>1. ASSUME a \in Accounts, IsFresh(a) PROVE FALSE
  BY <1>1, MsigInstance DEF EnoughApprovals, IsFresh
<1>2. ASSUME a \in Accounts, proposals[a] # NoProposal
      PROVE  proposals[a].approval_count >= threshold
  BY <1>2, MsigInstance DEF EnoughApprovals, IInv, OneLayout
<1>3. ASSUME a \in Accounts, proposals[a] # NoProposal
      PROVE  /\ proposals[a].approval_count = Cardinality(Approvers(proposals[a]))
             /\ Approvers(proposals[a]) \cap Members(proposals[a]) = Approvers(proposals[a])
  BY <1>3 DEF IInv, CountIsApprovers
<1> QED
  BY <1>1, <1>2, <1>3 DEF Settled

LEMMA ExecuteStep ==
  ASSUME IInv, NEW a \in Accounts \cup {Foreign}, NEW threshold \in Nat, Execute(a, threshold)
  PROVE  IInv'
<1>1. /\ EnoughApprovals(a, threshold)
      /\ treasury' = [treasury EXCEPT !.balance = 0, !.recipient = @ + treasury.balance]
      /\ released' = Noted(a, threshold) /\ treasury.owner = TransferProgram
      /\ UNCHANGED <<registries, proposals, mixed, riders, proofs>>
  BY DEF Execute
<1>2. /\ treasury' \in Treasury /\ treasury'.owner = treasury.owner
      /\ treasury'.handed = treasury.handed
  <2>1. treasury \in Treasury
    BY DEF IInv, TypeOK, Treasury
  <2>2. treasury.recipient + treasury.balance \in Nat
    BY <2>1 DEF Treasury
  <2>3. QED
    BY Zenon, <1>1, <2>1, <2>2 DEF Treasury
<1>3. released' \in [Accounts -> Nat]
      /\ \A b \in Accounts : released'[b] =
            IF b = a /\ threshold > released[b] THEN threshold ELSE released[b]
  BY <1>1 DEF Noted, IInv, TypeOK
<1>4. TypeOK'
  BY <1>1, <1>2, <1>3 DEF IInv, TypeOK, Treasury
<1>5. CountIsApprovers' /\ ProofsHold' /\ OwnersWereHanded'
  BY Zenon, <1>1, <1>2 DEF IInv, CountIsApprovers, ProofsHold, OwnersWereHanded
<1>6. ReleasesAreApproved'
  <2> SUFFICES ASSUME NEW b \in Accounts, Settled(b)
               PROVE  Cardinality(Approvers(proposals[b]) \cap Members(proposals[b]))
                        >= released'[b]
    BY Zenon, <1>1 DEF ReleasesAreApproved, Settled
  <2>1. Cardinality(Approvers(proposals[b]) \cap Members(proposals[b])) >= released[b]
    BY DEF IInv, ReleasesAreApproved
  <2>2. b = a => Cardinality(Approvers(proposals[b]) \cap Members(proposals[b])) >= threshold
    BY Zenon, <1>1, Enough
  <2>3. QED
    BY <1>3, <2>1, <2>2
<1>7. OneLayout'
  <2> SUFFICES ASSUME NEW b \in Accounts, IsFresh(b) PROVE released'[b] = 0
    BY Zenon, <1>1 DEF IInv, OneLayout, IsFresh
  <2>1. b # a
    BY <1>1, Enough
  <2>2. QED
    BY <1>3, <2>1 DEF IInv, OneLayout
<1> QED
  BY <1>4, <1>5, <1>6, <1>7 DEF IInv

\* What naming a program to initialise the treasury may do to it.
LEMMA InitTreasuryEffect ==
  ASSUME IInv, NEW program \in Programs, InitTreasury(program)
  PROVE  /\ treasury' \in Treasury
         /\ OwnersWereHanded'
         /\ \/ treasury'.handed
            \/ /\ treasury'.balance = treasury.balance
               /\ treasury'.recipient = treasury.recipient
               /\ treasury'.handed = treasury.handed
<1>1. treasury \in Treasury
  BY DEF IInv, TypeOK, Treasury
<1>2. CASE program = TransferProgram /\ treasury' = [treasury EXCEPT !.owner = program]
  <2>1. /\ treasury' \in Treasury /\ treasury'.owner = program
        /\ treasury'.balance = treasury.balance /\ treasury'.recipient = treasury.recipient
        /\ treasury'.handed = treasury.handed
    BY Zenon, <1>1, <1>2 DEF Treasury
  <2>2. QED
    BY Zenon, <1>2, <2>1 DEF OwnersWereHanded
<1>3. ASSUME NEW owner \in {treasury.owner} \cup (IF treasury.owner = NoProgram THEN {program} ELSE {}),
             NEW left \in 0..treasury.balance,
             treasury' = [treasury EXCEPT !.owner = owner, !.balance = left, !.handed = TRUE]
      PROVE  treasury' \in Treasury /\ treasury'.handed
  <2>1. owner \in Programs \cup {NoProgram} /\ left \in Nat
    BY <1>1, <1>3 DEF Treasury
  <2>2. QED
    BY Zenon, <1>1, <1>3, <2>1 DEF Treasury
<1> QED
  BY <1>2, <1>3 DEF InitTreasury, OwnersWereHanded

LEMMA NextIInv == IInv /\ [Next]_vars => IInv'
<1> SUFFICES ASSUME IInv, [Next]_vars PROVE IInv'
  OBVIOUS
<1>t. riders \in [Secrets -> Nat] /\ treasury \in Treasury /\ OwnersWereHanded
  BY DEF IInv, TypeOK, Treasury
<1>1. ASSUME NEW a \in Accounts, NEW leaf \in Leaves, Enroll(a, leaf) PROVE IInv'
  BY <1>1, EnrollStep
<1>2. ASSUME NEW a \in Accounts, NEW root \in Roots, NEW id \in ProposalIds,
             CreateProposal(a, root, id)
      PROVE  IInv'
  BY <1>2, MsigInstance, CreateStep
<1>3. ASSUME NEW s \in Secrets, UseVotingAccount(s) PROVE IInv'
  <2>1. riders' \in [Secrets -> Nat]
    BY <1>3, <1>t DEF UseVotingAccount
  <2>2. UNCHANGED <<registries, proposals, mixed, proofs, treasury, released>>
    BY <1>3 DEF UseVotingAccount
  <2>3. OwnersWereHanded'
    BY <1>t, <2>2 DEF OwnersWereHanded
  <2>4. QED
    BY <1>t, <2>1, <2>2, <2>3, TreasurySteps
<1>4. ASSUME NEW a \in Accounts, Touch(a) PROVE IInv'
  BY <1>4, TouchStep
<1>5. ASSUME NEW s \in Secrets, NEW a \in Accounts, ProveApproval(s, a) PROVE IInv'
  BY <1>5, ProveStep
<1>6. ASSUME NEW s \in Secrets, NEW a \in Accounts, SubmitApproval(s, a) PROVE IInv'
  BY <1>6, SubmitStep
<1>7. ASSUME NEW s \in Secrets, NEW a \in Accounts, ApproveElsewhere(s, a) PROVE IInv'
  BY <1>7, ElsewhereStep
<1>8. ASSUME NEW program \in Programs, InitTreasury(program) PROVE IInv'
  <2>1. UNCHANGED <<registries, proposals, mixed, riders, proofs, released>>
    BY <1>8 DEF InitTreasury
  <2>2. QED
    BY <1>8, <1>t, <2>1, InitTreasuryEffect, TreasurySteps
<1>9. CASE OwnerTakes
  <2>1. PICK left \in 0..treasury.balance : treasury' = [treasury EXCEPT !.balance = left]
    BY <1>9 DEF OwnerTakes
  <2>2. left \in Nat
    BY <1>t, <2>1 DEF Treasury
  <2>3. treasury' \in Treasury /\ treasury'.owner = treasury.owner
        /\ treasury'.handed = treasury.handed
    BY Zenon, <1>t, <2>1, <2>2 DEF Treasury
  <2>4. OwnersWereHanded' /\ UNCHANGED <<registries, proposals, mixed, riders, proofs, released>>
    BY <1>t, <1>9, <2>3 DEF OwnersWereHanded, OwnerTakes
  <2>5. QED
    BY <1>t, <2>3, <2>4, TreasurySteps
<1>10. CASE FundTreasury
  <2>1. treasury' \in Treasury /\ treasury'.owner = treasury.owner
        /\ treasury'.handed = treasury.handed
    BY <1>10, <1>t DEF FundTreasury, Treasury
  <2>2. OwnersWereHanded' /\ UNCHANGED <<registries, proposals, mixed, riders, proofs, released>>
    BY <1>t, <1>10, <2>1 DEF OwnersWereHanded, FundTreasury
  <2>3. QED
    BY <1>t, <2>1, <2>2, TreasurySteps
<1>11. ASSUME NEW a \in Accounts \cup {Foreign}, NEW threshold \in 0..Cardinality(Secrets),
              Execute(a, threshold)
       PROVE  IInv'
  <2>1. threshold \in Nat
    BY SomeSecrets
  <2>2. QED
    BY <1>11, <2>1, ExecuteStep
<1>12. CASE UNCHANGED vars
  <2>1. UNCHANGED <<registries, proposals, mixed, riders, proofs, treasury, released>>
    BY <1>12 DEF vars
  <2>2. OwnersWereHanded'
    BY <1>t, <2>1 DEF OwnersWereHanded
  <2>3. QED
    BY <1>t, <2>1, <2>2, TreasurySteps
<1> QED
  BY Zenon, <1>1, <1>2, <1>3, <1>4, <1>5, <1>6, <1>7, <1>8, <1>9, <1>10, <1>11, <1>12 DEF Next

LEMMA Invariance == Spec => []IInv
<1>1. QED
  BY InitIInv, NextIInv, PTL DEF Spec

\* The count of every proposal is the number of different people under its root
\* that approved it, whatever order proofs are made and delivered in (approve).
THEOREM CountsMembers == Spec => []CountIsApprovers
<1>1. IInv => CountIsApprovers
  BY DEF IInv
<1>2. QED
  BY <1>1, Invariance, PTL

\* No Execute that named a settled proposal went through with fewer people
\* behind it than its caller asked for (execute).
THEOREM ReleasesApproved == Spec => []ReleasesAreApproved
<1>1. IInv => ReleasesAreApproved
  BY DEF IInv
<1>2. QED
  BY <1>1, Invariance, PTL

\* The state stays well typed.
THEOREM MsigTypes == Spec => []TypeOK
<1>1. IInv => TypeOK
  BY DEF IInv
<1>2. QED
  BY <1>1, Invariance, PTL

-----------------------------------------------------------------------------
\* Nothing of a settled proposal changes, and none comes or goes.
SettledAlike ==
    \A a \in Accounts :
        /\ Settled(a)' <=> Settled(a)
        /\ Settled(a) => proposals'[a] = proposals[a]

LEMMA SameVotes ==
  ASSUME SettledAlike
  PROVE  UNCHANGED <<OpenProposals, Electorate, Counted>>
<1>1. OpenProposals' = OpenProposals
  BY DEF SettledAlike, OpenProposals
<1>2. Electorate' = Electorate
  BY DEF SettledAlike, Electorate
<1>3. Counted' = Counted
  BY DEF SettledAlike, Counted
<1> QED
  BY <1>1, <1>2, <1>3

LEMMA SameAsked ==
  ASSUME SettledAlike, \A a \in Accounts : Settled(a) => released'[a] = released[a]
  PROVE  Asked' = Asked
  BY DEF SettledAlike, Asked

LEMMA NoProposalTouched ==
  ASSUME UNCHANGED proposals
  PROVE  SettledAlike
  BY DEF SettledAlike, Settled

\* Steps that leave settled proposals and the money alone are invisible.
LEMMA Invisible ==
  ASSUME SettledAlike, UNCHANGED released, UNCHANGED treasury
  PROVE  UNCHANGED Promised!promised
<1>1. UNCHANGED <<OpenProposals, Electorate, Counted>> /\ Asked' = Asked
  BY SameVotes, SameAsked
<1>2. UNCHANGED <<Kept, treasury.balance, treasury.recipient>>
  BY DEF Kept
<1> QED
  BY <1>1, <1>2 DEF Promised!promised

LEMMA SameCardinality == \A S : Promised!Cardinality(S) = Cardinality(S)
  BY Zenon DEF Promised!Cardinality, Cardinality, Promised!IsFiniteSet, IsFiniteSet

\* A settled proposal never has room for the leaves that enroll would read.
LEMMA NeverEnrolledOn ==
  ASSUME IInv, NEW a \in Accounts, Settled(a)
  PROVE  ~EnrollsOn(proposals[a])
<1>1. proposals[a] \in ProposalState /\ proposals[a] # NoProposal
  BY DEF IInv, TypeOK, Settled
<1>2. Len(proposals[a].nullifiers) = Cardinality(Approvers(proposals[a]))
  BY <1>1 DEF IInv, CountIsApprovers
<1>3. Approvers(proposals[a]) \subseteq Secrets /\ IsFiniteSet(Secrets)
  BY MsigInstance DEF Approvers
<1>4. Cardinality(Approvers(proposals[a])) <= Cardinality(Secrets)
      /\ Cardinality(Approvers(proposals[a])) \in Nat /\ Cardinality(Secrets) \in Nat
  BY <1>3, FS_Subset, FS_CardinalityType
<1>5. HeadWord[proposals[a].proposal_id] \in Nat
  BY <1>1, MsigInstance DEF ProposalState
<1> QED
  BY <1>2, <1>4, <1>5 DEF EnrollsOn, Settled, Sturdy

LEMMA EnrollInvisible ==
  ASSUME IInv, NEW a \in Accounts, NEW leaf \in Leaves, Enroll(a, leaf)
  PROVE  SettledAlike
<1>1. CASE UNCHANGED proposals
  BY <1>1, NoProposalTouched
<1>2. CASE EnrollsOn(proposals[a]) /\ proposals' = [proposals EXCEPT ![a] = NoProposal]
  <2>1. ~Settled(a)
    BY <1>2, NeverEnrolledOn
  <2>2. \A b \in Accounts : proposals'[b] = IF b = a THEN NoProposal ELSE proposals[b]
    BY <1>2 DEF IInv, TypeOK
  <2>3. QED
    BY <2>1, <2>2 DEF SettledAlike, Settled
<1> QED
  BY <1>1, <1>2 DEF Enroll

LEMMA CreateOpens ==
  ASSUME IInv, NEW a \in Accounts, NEW root \in Seq(Leaves), NEW id \in ProposalIds,
         CreateProposal(a, root, id)
  PROVE  Promised!Open(a) \/ UNCHANGED Promised!promised
<1> DEFINE p == [member_root |-> root, proposal_id |-> id, approval_count |-> 0,
                 nullifiers |-> <<>>]
<1>1. p \in ProposalState /\ p # NoProposal /\ Approvers(p) = {}
  BY NewProposal, MsigInstance
<1>2. proposals[a] = NoProposal /\ IsFresh(a) /\ proposals' = [proposals EXCEPT ![a] = p]
      /\ UNCHANGED <<treasury, released>>
  BY DEF CreateProposal, IsFresh
<1> HIDE DEF p
<1>3. \A b \in Accounts : proposals'[b] = IF b = a THEN p ELSE proposals[b]
  BY <1>2 DEF IInv, TypeOK
<1>4. ~Settled(a) /\ \A b \in Accounts : b # a => (Settled(b)' <=> Settled(b))
  BY <1>2, <1>3 DEF Settled
<1>5. CASE ~Sturdy(p)
  <2>1. SettledAlike
    BY <1>3, <1>4, <1>5 DEF SettledAlike, Settled
  <2>2. QED
    BY <1>2, <2>1, Invisible
<1>6. CASE Sturdy(p)
  <2>1. Settled(a)'
    BY <1>1, <1>3, <1>6 DEF Settled
  <2>2. a \notin OpenProposals /\ OpenProposals' = OpenProposals \cup {a}
    BY <1>4, <2>1 DEF OpenProposals
  <2>3. Electorate' = [Electorate EXCEPT ![a] = Members(p)]
    <3>1. \A b \in Accounts : Electorate'[b] = IF b = a THEN Members(p) ELSE Electorate[b]
      BY <1>3, <1>4, <2>1 DEF Electorate
    <3>2. QED
      BY Zenon, <3>1 DEF Electorate
  <2>4. Members(p) \in SUBSET Secrets
    BY DEF Members
  <2>5. Counted' = Counted
    <3>1. \A b \in Accounts : Counted'[b] = Counted[b]
      <4> TAKE b \in Accounts
      <4>1. CASE b = a
        <5>1. Counted[b] = {} /\ Counted'[b] = Approvers(p)
          BY <1>3, <1>4, <2>1, <4>1 DEF Counted
        <5>2. QED
          BY <1>1, <5>1
      <4>2. CASE b # a
        BY <1>3, <1>4, <4>2 DEF Counted
      <4>3. QED
        BY <4>1, <4>2
    <3>2. QED
      BY <3>1 DEF Counted
  <2>6. Asked' = Asked
    <3>1. released[a] = 0
      BY <1>2 DEF IInv, OneLayout
    <3>2. \A b \in Accounts : Asked'[b] = Asked[b]
      BY <1>2, <1>4, <3>1 DEF Asked
    <3>3. QED
      BY <3>2 DEF Asked
  <2>7. UNCHANGED <<Kept, treasury.balance, treasury.recipient>>
    BY <1>2 DEF Kept
  <2>8. QED
    BY Zenon, <2>2, <2>3, <2>4, <2>5, <2>6, <2>7 DEF Promised!Open, Promised!money
<1> QED
  BY <1>5, <1>6

LEMMA SubmitCounts ==
  ASSUME IInv, NEW s \in Secrets, NEW a \in Accounts, SubmitApproval(s, a)
  PROVE  Promised!Count(a, s) \/ UNCHANGED Promised!promised
<1> DEFINE p == proposals[a]
           q == Approved(p, s)
<1>1. /\ p \in ProposalState /\ p # NoProposal /\ riders[s] \in Nat
      /\ Approvable(s, p, riders[s])
      /\ proposals' = [proposals EXCEPT ![a] = q]
  BY Submitted, MsigInstance
<1>2. /\ q # NoProposal /\ Members(q) = Members(p) /\ Approvers(q) = Approvers(p) \cup {s}
      /\ s \in Members(p) \ Approvers(p) /\ q.proposal_id = p.proposal_id
  BY <1>1, ApprovedProposal, MsigInstance
<1>3. \A b \in Accounts : proposals'[b] = IF b = a THEN q ELSE proposals[b]
  BY <1>1 DEF IInv, TypeOK
<1> HIDE DEF q
<1>4. \A b \in Accounts : Settled(b)' <=> Settled(b)
  BY <1>1, <1>2, <1>3 DEF Settled, Sturdy
<1>5. UNCHANGED <<treasury, released>>
  BY DEF SubmitApproval
<1>6. CASE ~Settled(a)
  <2>1. SettledAlike
    BY <1>3, <1>4, <1>6 DEF SettledAlike
  <2>2. QED
    BY <1>5, <2>1, Invisible
<1>7. CASE Settled(a)
  <2>1. OpenProposals' = OpenProposals /\ a \in OpenProposals
    BY <1>4, <1>7 DEF OpenProposals
  <2>2. Electorate' = Electorate
    BY <1>2, <1>3, <1>4 DEF Electorate
  <2>3. Counted' = [Counted EXCEPT ![a] = @ \cup {s}]
    <3>1. \A b \in Accounts :
             Counted'[b] = IF b = a THEN Counted[b] \cup {s} ELSE Counted[b]
      BY <1>2, <1>3, <1>4, <1>7 DEF Counted
    <3>2. QED
      BY Zenon, <3>1 DEF Counted
  <2>4. s \in Electorate[a] \ Counted[a]
    BY <1>2, <1>7 DEF Electorate, Counted
  <2>5. Asked' = Asked
    BY <1>4, <1>5 DEF Asked
  <2>6. UNCHANGED <<Kept, treasury.balance, treasury.recipient>>
    BY <1>5 DEF Kept
  <2>7. QED
    BY <2>1, <2>2, <2>3, <2>4, <2>5, <2>6 DEF Promised!Count, Promised!money
<1> QED
  BY <1>6, <1>7

LEMMA ExecutePays ==
  ASSUME IInv, NEW a \in Accounts \cup {Foreign}, NEW threshold \in Nat, Execute(a, threshold)
  PROVE  Promised!PayElsewhere \/ (a \in Accounts /\ Promised!PayOn(a, threshold))
<1>1. /\ EnoughApprovals(a, threshold) /\ UNCHANGED proposals
      /\ treasury' = [treasury EXCEPT !.balance = 0, !.recipient = @ + treasury.balance]
      /\ released' = Noted(a, threshold)
  BY DEF Execute
<1>2. \A b \in Accounts : released'[b] =
            IF b = a /\ threshold > released[b] THEN threshold ELSE released[b]
  BY <1>1 DEF Noted
<1>3. /\ treasury'.balance = 0 /\ treasury'.recipient = treasury.recipient + treasury.balance
      /\ treasury'.handed = treasury.handed
  BY <1>1 DEF IInv, TypeOK
<1>4. SettledAlike
  BY <1>1, NoProposalTouched
<1>5. UNCHANGED <<OpenProposals, Electorate, Counted>> /\ Kept' = Kept
  BY <1>3, <1>4, SameVotes DEF Kept
<1>6. Promised!Pay
  BY <1>3, <1>5 DEF Promised!Pay
<1>7. CASE a \notin Accounts \/ ~Settled(a)
  <2>1. Asked' = Asked
    BY <1>2, <1>4, <1>7, SameAsked
  <2>2. QED
    BY <1>5, <1>6, <2>1 DEF Promised!PayElsewhere, Promised!votes
<1>8. CASE a \in Accounts /\ Settled(a)
  <2>1. a \in OpenProposals /\ Counted[a] = Approvers(proposals[a])
    BY <1>8 DEF OpenProposals, Counted
  <2>2. Cardinality(Counted[a]) >= threshold
    BY <1>1, <1>8, <2>1, Enough
  <2>3. Asked' = [Asked EXCEPT ![a] = IF threshold > @ THEN threshold ELSE @]
    <3>1. \A b \in Accounts : Asked'[b] =
             IF b = a THEN IF threshold > Asked[a] THEN threshold ELSE Asked[a] ELSE Asked[b]
      BY <1>2, <1>4, <1>8 DEF Asked, SettledAlike
    <3>2. QED
      BY Zenon, <3>1 DEF Asked
  <2>4. QED
    BY <1>5, <1>6, <1>8, <2>1, <2>2, <2>3, SameCardinality DEF Promised!PayOn, Promised!votes
<1> QED
  BY <1>7, <1>8

\* Steps that only move money.
LEMMA MoneyMoves ==
  ASSUME IInv, UNCHANGED proposals, UNCHANGED released,
         \/ treasury'.handed
         \/ /\ treasury'.balance = treasury.balance
            /\ treasury'.recipient = treasury.recipient
            /\ treasury'.handed = treasury.handed
  PROVE  Promised!HandOver \/ UNCHANGED Promised!promised
<1>1. UNCHANGED <<OpenProposals, Electorate, Counted>> /\ Asked' = Asked
  BY NoProposalTouched, SameVotes, SameAsked
<1>2. Kept \in BOOLEAN /\ Kept' \in BOOLEAN
  BY DEF Kept
<1>3. CASE treasury'.handed /\ Kept
  BY <1>1, <1>3 DEF Kept, Promised!HandOver, Promised!votes
<1>4. CASE treasury'.handed /\ ~Kept
  BY <1>1, <1>4 DEF Kept, Promised!promised
<1>5. CASE /\ treasury'.balance = treasury.balance
           /\ treasury'.recipient = treasury.recipient
           /\ treasury'.handed = treasury.handed
  BY <1>1, <1>5 DEF Kept, Promised!promised
<1> QED
  BY <1>3, <1>4, <1>5

LEMMA PromiseStep == IInv /\ [Next]_vars => [Promised!Promise]_(Promised!promised)
<1> SUFFICES ASSUME IInv, [Next]_vars PROVE Promised!Promise \/ UNCHANGED Promised!promised
  OBVIOUS
<1> DEFINE Goal == Promised!Promise \/ UNCHANGED Promised!promised
<1>1. ASSUME NEW a \in Accounts, NEW leaf \in Leaves, Enroll(a, leaf) PROVE Goal
  <2>1. UNCHANGED <<treasury, released>>
    BY <1>1 DEF Enroll
  <2>2. QED
    BY <1>1, <2>1, EnrollInvisible, Invisible
<1>2. ASSUME NEW a \in Accounts, NEW root \in Roots, NEW id \in ProposalIds,
             CreateProposal(a, root, id)
      PROVE  Goal
  BY <1>2, MsigInstance, CreateOpens DEF Promised!Promise
<1>3. ASSUME UNCHANGED <<proposals, treasury, released>> PROVE Goal
  BY <1>3, NoProposalTouched, Invisible
<1>4. ASSUME NEW s \in Secrets, UseVotingAccount(s) PROVE Goal
  BY <1>3, <1>4 DEF UseVotingAccount
<1>5. ASSUME NEW a \in Accounts, Touch(a) PROVE Goal
  BY <1>3, <1>5 DEF Touch
<1>6. ASSUME NEW s \in Secrets, NEW a \in Accounts, ProveApproval(s, a) PROVE Goal
  BY <1>3, <1>6 DEF ProveApproval
<1>7. ASSUME NEW s \in Secrets, NEW a \in Accounts, SubmitApproval(s, a) PROVE Goal
  BY <1>7, SubmitCounts DEF Promised!Promise
<1>8. ASSUME NEW s \in Secrets, NEW a \in Accounts, ApproveElsewhere(s, a) PROVE Goal
  BY <1>3, <1>8 DEF ApproveElsewhere
<1>9. ASSUME NEW program \in Programs, InitTreasury(program) PROVE Goal
  <2>1. UNCHANGED proposals /\ UNCHANGED released
    BY <1>9 DEF InitTreasury
  <2>2. QED
    BY <1>9, <2>1, InitTreasuryEffect, MoneyMoves DEF Promised!Promise
<1>10. CASE OwnerTakes
  <2>1. UNCHANGED proposals /\ UNCHANGED released /\ treasury.handed
    BY <1>10 DEF OwnerTakes, IInv, OwnersWereHanded
  <2>2. treasury'.handed
    BY <1>10, <2>1 DEF OwnerTakes, IInv, TypeOK
  <2>3. QED
    BY <2>1, <2>2, MoneyMoves DEF Promised!Promise
<1>11. CASE FundTreasury
  <2>1. /\ treasury'.balance > treasury.balance /\ treasury'.recipient = treasury.recipient
        /\ treasury'.handed = treasury.handed
        /\ UNCHANGED proposals /\ UNCHANGED released
    BY <1>11 DEF FundTreasury, IInv, TypeOK
  <2>2. CASE treasury.handed
    BY <2>1, <2>2, MoneyMoves DEF Promised!Promise
  <2>3. CASE ~treasury.handed
    <3>1. UNCHANGED <<OpenProposals, Electorate, Counted>> /\ Asked' = Asked
      BY <2>1, NoProposalTouched, SameVotes, SameAsked
    <3>2. Promised!PayIn
      BY <2>1, <2>3, <3>1 DEF Kept, Promised!PayIn, Promised!votes
    <3>3. QED
      BY <3>2 DEF Promised!Promise
  <2>4. QED
    BY <2>2, <2>3
<1>12. ASSUME NEW a \in Accounts \cup {Foreign}, NEW threshold \in 0..Cardinality(Secrets),
              Execute(a, threshold)
       PROVE  Goal
  <2>1. threshold \in Nat
    BY SomeSecrets
  <2>2. QED
    BY <1>12, <2>1, ExecutePays, SameCardinality DEF Promised!Promise
<1>13. CASE UNCHANGED vars
  BY <1>3, <1>13 DEF vars
<1> QED
  BY <1>1, <1>2, <1>4, <1>5, <1>6, <1>7, <1>8, <1>9, <1>10, <1>11, <1>12, <1>13 DEF Next

LEMMA PromiseStart == Init => Promised!PromiseInit
<1> SUFFICES ASSUME Init PROVE Promised!PromiseInit
  OBVIOUS
<1>1. \A a \in Accounts : ~Settled(a)
  BY DEF Init, Settled
<1>2. Kept /\ treasury.balance = 0 /\ treasury.recipient = 0
  BY DEF Init, Kept
<1> QED
  BY <1>1, <1>2 DEF Promised!PromiseInit, OpenProposals, Electorate, Counted, Asked, Kept

\* Every behaviour of the program, with its stale and repeated proofs and with
\* instructions aimed at any account, is one that MsigPromise allows.
THEOREM PromiseKept == Spec => KeepsPromise
<1>1. QED
  BY Invariance, PromiseStart, PromiseStep, PTL DEF Spec, KeepsPromise, Promised!PromiseSpec

-----------------------------------------------------------------------------
\* A step keeps the root, the id and the approvals of a settled proposal.
LEMMA FrozenStep ==
  ASSUME IInv, [Next]_vars, NEW a \in Accounts, Settled(a)
  PROVE  /\ proposals'[a] # NoProposal
         /\ proposals'[a].member_root = proposals[a].member_root
         /\ proposals'[a].proposal_id = proposals[a].proposal_id
         /\ Approvers(proposals[a]) \subseteq Approvers(proposals'[a])
<1> DEFINE Goal == /\ proposals'[a] # NoProposal
                   /\ proposals'[a].member_root = proposals[a].member_root
                   /\ proposals'[a].proposal_id = proposals[a].proposal_id
                   /\ Approvers(proposals[a]) \subseteq Approvers(proposals'[a])
<1>1. CASE proposals'[a] = proposals[a]
  BY <1>1 DEF Settled
<1>2. ASSUME NEW b \in Accounts, NEW leaf \in Leaves, Enroll(b, leaf) PROVE Goal
  BY <1>1, <1>2, EnrollInvisible DEF SettledAlike
<1>3. ASSUME NEW b \in Accounts, NEW root \in Roots, NEW id \in ProposalIds,
             CreateProposal(b, root, id)
      PROVE  Goal
  <2>1. b # a
    BY <1>3 DEF CreateProposal, IsFresh, Settled
  <2>2. proposals'[a] = proposals[a]
    BY <1>3, <2>1 DEF CreateProposal, IInv, TypeOK
  <2>3. QED
    BY <1>1, <2>2
<1>4. ASSUME NEW s \in Secrets, NEW b \in Accounts, SubmitApproval(s, b) PROVE Goal
  <2> DEFINE q == Approved(proposals[b], s)
  <2>1. /\ proposals[b] \in ProposalState /\ riders[s] \in Nat
        /\ Approvable(s, proposals[b], riders[s])
        /\ proposals' = [proposals EXCEPT ![b] = q]
    BY <1>4, Submitted
  <2>2. /\ q \in ProposalState /\ q.member_root = proposals[b].member_root
        /\ q.proposal_id = proposals[b].proposal_id
        /\ Approvers(q) = Approvers(proposals[b]) \cup {s}
    BY <2>1, ApprovedProposal
  <2> HIDE DEF q
  <2>3. proposals'[a] = IF a = b THEN q ELSE proposals[a]
    BY <2>1 DEF IInv, TypeOK
  <2>4. QED
    BY <2>2, <2>3, MsigInstance DEF Settled
<1>5. CASE UNCHANGED proposals
  BY <1>1, <1>5
<1>6. CASE UNCHANGED vars
  BY <1>5, <1>6 DEF vars
<1>7. CASE \/ \E s \in Secrets : UseVotingAccount(s)
           \/ \E b \in Accounts : Touch(b)
           \/ \E s \in Secrets, b \in Accounts : ProveApproval(s, b) \/ ApproveElsewhere(s, b)
           \/ \E program \in Programs : InitTreasury(program)
           \/ OwnerTakes \/ FundTreasury
           \/ \E b \in Accounts \cup {Foreign}, threshold \in 0..Cardinality(Secrets) :
                 Execute(b, threshold)
  <2>1. UNCHANGED proposals
    BY <1>7 DEF UseVotingAccount, Touch, ProveApproval, ApproveElsewhere, InitTreasury,
       OwnerTakes, FundTreasury, Execute
  <2>2. QED
    BY <1>5, <2>1
<1> QED
  BY <1>2, <1>3, <1>4, <1>6, <1>7 DEF Next

\* A settled proposal is frozen from the moment it exists: neither create nor
\* approve nor enroll, aimed at it, changes its root or id or drops an approval.
THEOREM ProposalsFrozen == Spec => ProposalsAreFrozen
<1>1. IInv /\ [Next]_vars =>
        [\A a \in Accounts : Settled(a) =>
            /\ proposals'[a] # NoProposal
            /\ proposals'[a].member_root = proposals[a].member_root
            /\ proposals'[a].proposal_id = proposals[a].proposal_id
            /\ Approvers(proposals[a]) \subseteq Approvers(proposals'[a])]_vars
  BY FrozenStep
<1>2. QED
  BY <1>1, Invariance, PTL DEF Spec, ProposalsAreFrozen

-----------------------------------------------------------------------------
\* The proposals a person is counted on.
CountedOn(s) == {a \in Accounts : proposals[a] # NoProposal
                                          /\ s \in Approvers(proposals[a])}

\* They are finitely many, and fewer than the versions the person has used.
VersionsAreSpent ==
    \A s \in Secrets :
        /\ IsFiniteSet(CountedOn(s))
        /\ CountedOn(s) # {} => riders[s] > Cardinality(CountedOn(s))

\* Versions only go up, so a step that counts nobody keeps the bound.
LEMMA NobodyCounted ==
  ASSUME IInv, VersionsAreSpent, \A s \in Secrets : CountedOn(s)' \subseteq CountedOn(s),
         riders' \in [Secrets -> Nat], \A s \in Secrets : riders'[s] >= riders[s]
  PROVE  VersionsAreSpent'
<1> SUFFICES ASSUME NEW s \in Secrets
             PROVE  /\ IsFiniteSet(CountedOn(s)')
                    /\ CountedOn(s)' # {} => riders'[s] > Cardinality(CountedOn(s)')
  BY DEF VersionsAreSpent
<1>1. /\ IsFiniteSet(CountedOn(s)) /\ CountedOn(s)' \in SUBSET CountedOn(s)
      /\ CountedOn(s) # {} => riders[s] > Cardinality(CountedOn(s))
  BY DEF VersionsAreSpent
<1>2. Cardinality(CountedOn(s)) \in Nat /\ riders[s] \in Nat
  BY <1>1, FS_CardinalityType DEF IInv, TypeOK
<1> HIDE DEF CountedOn
<1>3. /\ IsFiniteSet(CountedOn(s)') /\ Cardinality(CountedOn(s)') \in Nat
      /\ Cardinality(CountedOn(s)') <= Cardinality(CountedOn(s))
  BY <1>1, FS_Subset, FS_CardinalityType
<1> QED
  BY <1>1, <1>2, <1>3

\* A new proposal counts nobody.
LEMMA CreateCountsNobody ==
  ASSUME IInv, VersionsAreSpent, NEW a \in Accounts, NEW root \in Seq(Leaves),
         NEW id \in ProposalIds, CreateProposal(a, root, id)
  PROVE  VersionsAreSpent'
<1> DEFINE p == [member_root |-> root, proposal_id |-> id, approval_count |-> 0,
                 nullifiers |-> <<>>]
<1>1. Approvers(p) = {}
  BY NewProposal
<1>2. /\ proposals' = [proposals EXCEPT ![a] = p] /\ proposals[a] = NoProposal
      /\ riders' = riders
  BY DEF CreateProposal, IsFresh
<1> HIDE DEF p
<1>3. \A b \in Accounts : proposals'[b] = IF b = a THEN p ELSE proposals[b]
  BY <1>2 DEF IInv, TypeOK
<1>4. \A s \in Secrets : CountedOn(s)' = CountedOn(s)
  <2> TAKE s \in Secrets
  <2>1. \A b \in Accounts :
           proposals'[b] # NoProposal /\ s \in Approvers(proposals'[b])
               <=> proposals[b] # NoProposal /\ s \in Approvers(proposals[b])
    BY <1>1, <1>2, <1>3
  <2> QED
    BY <2>1 DEF CountedOn
<1>5. riders' \in [Secrets -> Nat] /\ \A s \in Secrets : riders'[s] >= riders[s]
  BY <1>2 DEF IInv, TypeOK
<1> QED
  BY <1>4, <1>5, NobodyCounted

\* An approval counts one person on one proposal, and spends a version.
LEMMA SubmitSpends ==
  ASSUME IInv, VersionsAreSpent, NEW s \in Secrets, NEW a \in Accounts,
         SubmitApproval(s, a)
  PROVE  VersionsAreSpent'
<1> DEFINE p == proposals[a]
           q == Approved(p, s)
<1>1. /\ p \in ProposalState /\ proposals' = [proposals EXCEPT ![a] = q]
      /\ Approvable(s, p, riders[s]) /\ riders[s] \in Nat /\ p # NoProposal
  BY Submitted, MsigInstance
<1>2. /\ q # NoProposal /\ Approvers(q) = Approvers(p) \cup {s} /\ s \notin Approvers(p)
  BY <1>1, ApprovedProposal, MsigInstance
<1>3. riders' = [riders EXCEPT ![s] = @ + 1] /\ riders \in [Secrets -> Nat]
  BY DEF SubmitApproval, IInv, TypeOK
<1>4. riders[s] > 0
  BY <1>1 DEF Approvable
<1>5. \A b \in Accounts : proposals'[b] = IF b = a THEN q ELSE proposals[b]
  BY <1>1 DEF IInv, TypeOK
<1> HIDE DEF q
<1> SUFFICES ASSUME NEW t \in Secrets
             PROVE  /\ IsFiniteSet(CountedOn(t)')
                    /\ CountedOn(t)' # {} => riders'[t] > Cardinality(CountedOn(t)')
  BY DEF VersionsAreSpent
<1>6. /\ IsFiniteSet(CountedOn(t))
      /\ CountedOn(t) # {} => riders[t] > Cardinality(CountedOn(t))
  BY DEF VersionsAreSpent
<1>7. CASE t # s
  <2>1. \A b \in Accounts :
           proposals'[b] # NoProposal /\ t \in Approvers(proposals'[b])
               <=> proposals[b] # NoProposal /\ t \in Approvers(proposals[b])
    BY <1>1, <1>2, <1>5, <1>7
  <2>2. CountedOn(t)' = CountedOn(t) /\ riders'[t] = riders[t]
    BY <1>3, <1>7, <2>1 DEF CountedOn
  <2> QED
    BY <1>6, <2>2
<1>8. CASE t = s
  <2>1. \A b \in Accounts :
           proposals'[b] # NoProposal /\ s \in Approvers(proposals'[b])
               <=> b = a \/ (proposals[b] # NoProposal /\ s \in Approvers(proposals[b]))
    BY <1>2, <1>5
  <2>2. CountedOn(s)' = CountedOn(s) \cup {a} /\ a \notin CountedOn(s)
    BY <1>2, <2>1 DEF CountedOn
  <2> HIDE DEF CountedOn
  <2>3. /\ IsFiniteSet(CountedOn(s)')
        /\ Cardinality(CountedOn(s)') = Cardinality(CountedOn(s)) + 1
    BY <1>6, <1>8, <2>2, FS_AddElement
  <2>4. Cardinality(CountedOn(s)) \in Nat /\ riders'[s] = riders[s] + 1
    BY <1>3, <1>6, <1>8, FS_CardinalityType
  <2>5. CountedOn(s) = {} => Cardinality(CountedOn(s)) = 0
    BY FS_EmptySet
  <2>6. riders'[s] > Cardinality(CountedOn(s)')
    BY <1>1, <1>4, <1>6, <1>8, <2>3, <2>4, <2>5
  <2> QED
    BY <1>8, <2>3, <2>6
<1> QED
  BY <1>7, <1>8

LEMMA NextSpends == IInv /\ VersionsAreSpent /\ [Next]_vars => VersionsAreSpent'
<1> SUFFICES ASSUME IInv, VersionsAreSpent, [Next]_vars PROVE VersionsAreSpent'
  OBVIOUS
<1>t. riders \in [Secrets -> Nat] /\ proposals \in [Accounts -> ProposalState \cup {NoProposal}]
  BY DEF IInv, TypeOK
<1>1. ASSUME NEW a \in Accounts, NEW root \in Roots, NEW id \in ProposalIds,
             CreateProposal(a, root, id)
      PROVE  VersionsAreSpent'
  BY <1>1, MsigInstance, CreateCountsNobody
<1>2. ASSUME NEW s \in Secrets, NEW a \in Accounts, SubmitApproval(s, a)
      PROVE  VersionsAreSpent'
  BY <1>2, SubmitSpends
<1>3. ASSUME \A a \in Accounts : proposals'[a] = proposals[a] \/ proposals'[a] = NoProposal,
             riders' \in [Secrets -> Nat], \A s \in Secrets : riders'[s] >= riders[s]
      PROVE  VersionsAreSpent'
  <2>1. \A s \in Secrets : CountedOn(s)' \subseteq CountedOn(s)
    BY <1>3 DEF CountedOn
  <2> QED
    BY <1>3, <2>1, NobodyCounted
<1>4. ASSUME NEW s \in Secrets, UseVotingAccount(s) PROVE VersionsAreSpent'
  <2>1. /\ proposals' = proposals /\ riders' \in [Secrets -> Nat]
        /\ \A t \in Secrets : riders'[t] >= riders[t]
    BY <1>4, <1>t DEF UseVotingAccount
  <2> QED
    BY <1>3, <2>1
<1>5. ASSUME NEW s \in Secrets, NEW a \in Accounts, ApproveElsewhere(s, a)
      PROVE  VersionsAreSpent'
  <2>1. /\ proposals' = proposals /\ riders' \in [Secrets -> Nat]
        /\ \A t \in Secrets : riders'[t] >= riders[t]
    BY <1>5, <1>t DEF ApproveElsewhere
  <2> QED
    BY <1>3, <2>1
<1>6. ASSUME NEW a \in Accounts, NEW leaf \in Leaves, Enroll(a, leaf) PROVE VersionsAreSpent'
  <2>1. riders' = riders
        /\ \A b \in Accounts : proposals'[b] = proposals[b] \/ proposals'[b] = NoProposal
    BY <1>6, <1>t DEF Enroll
  <2> QED
    BY <1>3, <1>t, <2>1
<1>7. ASSUME UNCHANGED <<proposals, riders>> PROVE VersionsAreSpent'
  BY <1>3, <1>7, <1>t
<1>8. CASE \/ UNCHANGED vars
           \/ \E a \in Accounts : Touch(a)
           \/ \E s \in Secrets, a \in Accounts : ProveApproval(s, a)
           \/ \E program \in Programs : InitTreasury(program)
           \/ OwnerTakes \/ FundTreasury
           \/ \E a \in Accounts \cup {Foreign}, threshold \in 0..Cardinality(Secrets) :
                 Execute(a, threshold)
  <2>1. UNCHANGED <<proposals, riders>>
    BY <1>8 DEF vars, Touch, ProveApproval, InitTreasury, OwnerTakes, FundTreasury, Execute
  <2> QED
    BY <1>7, <2>1
<1> QED
  BY <1>1, <1>2, <1>4, <1>5, <1>6, <1>8 DEF Next

\* Whoever is counted on several proposals has spent as many versions of the
\* voting account, and holds a later one (approve, the nullifier of the rider).
THEOREM ApprovalsSpend == Spec => []ApprovalsSpendVersions
<1>1. Init => VersionsAreSpent
  <2> SUFFICES ASSUME Init, NEW s \in Secrets PROVE CountedOn(s) = {}
    BY FS_EmptySet DEF VersionsAreSpent
  <2> QED
    BY DEF Init, CountedOn
<1>2. VersionsAreSpent => ApprovalsSpendVersions
  BY DEF VersionsAreSpent, ApprovalsSpendVersions, CountedOn
<1>3. QED
  BY <1>1, <1>2, NextSpends, Invariance, PTL DEF Spec
=============================================================================
