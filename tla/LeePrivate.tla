------------------------------ MODULE LeePrivate ------------------------------
(***************************************************************************)
(* The private half of the LEE state machine.  Users prove transactions    *)
(* against the state they saw; proofs travel to the sequencer in any       *)
(* order, late or more than once, and are applied to the state of then.    *)
(* Hashes are injective: a commitment is the account it hides, a nullifier *)
(* the account it initialises or the commitment it spends, and the digest  *)
(* of the append-only commitment tree is the number of its leaves.         *)
(* What a program run makes of the accounts is any redistribution of their *)
(* balances; LeePublic checks the rules programs obey.                     *)
(***************************************************************************)
EXTENDS Integers, Sequences, FiniteSets, FiniteSetsExt

CONSTANTS
    PublicIds, PrivateIds,
    DUMMY_COMMITMENT,
    GenesisBalance,       \* public balances at genesis
    InitialPrivate,       \* commitments to private accounts of genesis, a sequence
    Programs(_, _),       \* Programs(pub, priv): balances a run may leave them with
    Candidates(_, _),     \* transactions users prove, given what they see on chain
    MaxBalance, MaxProven, MaxNonce, MaxLeaves, MaxBlock   \* bounds of the instance

VARIABLES
    public_state,         \* balance and nonce of each public account
    commitments,          \* CommitmentSet: leaves of the tree, in order
    root_history,         \* digests the tree had after each extension
    nullifiers,           \* NullifierSet
    block_id,
    proven                \* transactions with a valid proof, free to be submitted

vars == <<public_state, commitments, root_history, nullifiers, block_id, proven>>

Account == [balance : Nat, nonce : Nat]
DefaultAccount == [balance |-> 0, nonce |-> 0]

Commitment == [account_id : PrivateIds, account : Account]

Identities == {"AuthorizedInit", "AuthorizedUpdate", "Unauthorized"}

\* One private account of a proof: its pre state, the balance it ends with and
\* the digest its membership proof leads to.
PrivateEntry == [account_id : PrivateIds, identity : Identities, pre : Account,
                 post : Nat, digest : Nat]

PublicEntry == [account_id : PublicIds, is_authorized : BOOLEAN, pre : Account,
                post : Nat]

\* A proven transaction.  The sequencer sees of its private entries only what
\* NewCommitments and NewNullifiers show.
Transaction == [public : Seq(PublicEntry), private : Seq(PrivateEntry),
                signers : SUBSET PublicIds, nonces : [PublicIds -> Nat], expires : Nat]

ASSUME PrivateInstance ==
    /\ GenesisBalance \in [PublicIds -> Nat]
    /\ InitialPrivate \in Seq(Commitment)
    /\ \A i, j \in DOMAIN InitialPrivate :
          InitialPrivate[i].account_id = InitialPrivate[j].account_id => i = j
    /\ DUMMY_COMMITMENT \notin Commitment
    /\ MaxProven \in Nat /\ MaxNonce \in Nat /\ MaxBlock \in Nat
    /\ MaxBalance \in Nat /\ MaxLeaves \in Nat

-----------------------------------------------------------------------------
CommitmentOf(id, account) == [account_id |-> id, account |-> account]

ForAccountInitialization(id) == [kind |-> "Initialize", of |-> id]
ForAccountUpdate(commitment) == [kind |-> "Update", of |-> commitment]

IsInit(e) == e.identity \in {"AuthorizedInit", "Unauthorized"}

\* private_account_nonce_init and _increment: each value is new to the account.
NewNonce(e) == e.pre.nonce + 1

NewCommitment(e) == CommitmentOf(e.account_id, [balance |-> e.post, nonce |-> NewNonce(e)])

\* Mutant of NewNullifier: the nullifier of an update names the new version.
NewNullifierOfPost(e) ==
    IF IsInit(e)
    THEN [nullifier |-> ForAccountInitialization(e.account_id), digest |-> 1]
    ELSE [nullifier |-> ForAccountUpdate(NewCommitment(e)), digest |-> e.digest]

\* DUMMY_COMMITMENT_HASH is the digest of the tree that holds only the dummy.
NewNullifier(e) ==
    IF IsInit(e)
    THEN [nullifier |-> ForAccountInitialization(e.account_id), digest |-> 1]
    ELSE [nullifier |-> ForAccountUpdate(CommitmentOf(e.account_id, e.pre)),
          digest |-> e.digest]

NewCommitments(t) == [i \in DOMAIN t.private |-> NewCommitment(t.private[i])]
NewNullifiers(t) == [i \in DOMAIN t.private |-> NewNullifier(t.private[i])]

\* compute_digest_for_path: a path from a commitment reaches the digest of a
\* tree only when the commitment is one of its leaves; any other path leads to
\* a digest of no tree.
NoTree == 0
DigestsForPath(commitment) ==
    {NoTree} \cup {d \in 1..Len(commitments) : \E k \in 1..d : commitments[k] = commitment}

\* The assertions of compute_circuit_output on one private account.
EntryIsProvable(e) ==
    IF IsInit(e) THEN e.pre = DefaultAccount
    ELSE e.digest \in DigestsForPath(CommitmentOf(e.account_id, e.pre))

Injective(s) == \A i, j \in DOMAIN s : s[i] = s[j] => i = j

\* The accounts of a proof are distinct, being keys of ExecutionState.post_states.
CircuitAccepts(t) ==
    /\ Injective([i \in DOMAIN t.public |-> t.public[i].account_id])
    /\ Injective([i \in DOMAIN t.private |-> t.private[i].account_id])
    /\ \A i \in DOMAIN t.private : EntryIsProvable(t.private[i])
    /\ <<[i \in DOMAIN t.public |-> t.public[i].post],
         [i \in DOMAIN t.private |-> t.private[i].post]>>
         \in Programs(t.public, t.private)

-----------------------------------------------------------------------------
GenesisRoots == {1, 1 + Len(InitialPrivate)}

Init ==
    /\ public_state = [a \in PublicIds |-> [balance |-> GenesisBalance[a], nonce |-> 0]]
    /\ commitments = <<DUMMY_COMMITMENT>> \o InitialPrivate
    /\ root_history = GenesisRoots
    /\ nullifiers = {ForAccountInitialization(InitialPrivate[i].account_id) :
                        i \in DOMAIN InitialPrivate}
    /\ block_id = 0
    /\ proven = {}

\* A user proves a transaction over whatever accounts the user names.
Prove(t) ==
    /\ Cardinality(proven) < MaxProven
    /\ t \in Transaction
    /\ CircuitAccepts(t)
    /\ proven' = proven \cup {t}
    /\ UNCHANGED <<public_state, commitments, root_history, nullifiers, block_id>>

\* Mutant of ProofIsValid: the authorization marks are not tied to signatures.
ProofIsValidForAnyone(t) ==
    \A i \in DOMAIN t.public : t.public[i].pre = public_state[t.public[i].account_id]

\* The proof is verified against the public accounts of now, authorized exactly
\* when they signed.
ProofIsValid(t) ==
    \A i \in DOMAIN t.public :
        /\ t.public[i].pre = public_state[t.public[i].account_id]
        /\ t.public[i].is_authorized <=> t.public[i].account_id \in t.signers

\* Mutant of CheckNullifiers: uniqueness is left to the commitments.
CheckDigests(new) == \A i \in DOMAIN new : new[i].digest \in root_history

\* Mutant of CheckNullifiers: the digest is not looked up.
CheckUnseen(new) == \A i \in DOMAIN new : new[i].nullifier \notin nullifiers

CheckNullifiers(new) ==
    \A i \in DOMAIN new : /\ new[i].nullifier \notin nullifiers
                          /\ new[i].digest \in root_history

CheckCommitments(new) == \A i \in DOMAIN new : \A k \in DOMAIN commitments : commitments[k] # new[i]

\* from_privacy_preserving_transaction
TransactionIsValid(t) ==
    /\ t.private # <<>>
    /\ Injective([i \in DOMAIN t.public |-> t.public[i].account_id])
    /\ Injective([i \in DOMAIN t.private |-> NewNullifiers(t)[i].nullifier])
    /\ Injective(NewCommitments(t))
    /\ \A a \in t.signers : t.nonces[a] = public_state[a].nonce
    /\ block_id < t.expires
    /\ ProofIsValid(t)
    /\ CheckCommitments(NewCommitments(t))
    /\ CheckNullifiers(NewNullifiers(t))

\* Mutant of RootsAfter: the root history misses the batch.
RootsAfterNothing(new) == root_history

\* Mutant of RootsAfter: one leaf too many.
RootsAfterOneMore(new) == root_history \cup {Len(commitments) + Len(new) + 1}

\* CommitmentSet::extend records the digest after the whole batch only.
RootsAfter(new) == root_history \cup {Len(commitments) + Len(new)}

PublicAfter(t) ==
    [a \in PublicIds |->
        LET written == {i \in DOMAIN t.public : t.public[i].account_id = a}
            bump == IF a \in t.signers THEN 1 ELSE 0
        IN  [balance |-> IF written = {} THEN public_state[a].balance
                         ELSE t.public[CHOOSE i \in written : TRUE].post,
             nonce |-> public_state[a].nonce + bump]]

\* apply_state_diff; the transaction stays around and may be submitted again.
Submit(t) ==
    /\ t \in proven
    /\ \A a \in t.signers : public_state[a].nonce < MaxNonce
    /\ Len(commitments) + Len(t.private) <= MaxLeaves
    /\ TransactionIsValid(t)
    /\ public_state' = PublicAfter(t)
    /\ commitments' = commitments \o NewCommitments(t)
    /\ root_history' = RootsAfter(NewCommitments(t))
    /\ nullifiers' = nullifiers \cup {NewNullifiers(t)[i].nullifier : i \in DOMAIN t.private}
    /\ UNCHANGED <<block_id, proven>>

\* A transaction may be lost on its way or given up.
Lose(t) ==
    /\ proven' = proven \ {t}
    /\ UNCHANGED <<public_state, commitments, root_history, nullifiers, block_id>>

\* A public transfer, as LeePublic makes it.
PublicTransfer(a, b, n) ==
    /\ a # b
    /\ n <= public_state[a].balance
    /\ public_state[b].balance + n <= MaxBalance
    /\ public_state[a].nonce < MaxNonce
    /\ public_state' = [public_state EXCEPT
                          ![a] = [balance |-> @.balance - n, nonce |-> @.nonce + 1],
                          ![b].balance = @ + n]
    /\ UNCHANGED <<commitments, root_history, nullifiers, block_id, proven>>

NextBlock ==
    /\ block_id < MaxBlock
    /\ block_id' = block_id + 1
    /\ UNCHANGED <<public_state, commitments, root_history, nullifiers, proven>>

Next ==
    \/ \E t \in Candidates(public_state, commitments) : Prove(t)
    \/ \E t \in proven : Submit(t) \/ Lose(t)
    \/ \E a, b \in PublicIds, n \in 1..MaxBalance : PublicTransfer(a, b, n)
    \/ NextBlock

Spec == Init /\ [][Next]_vars
-----------------------------------------------------------------------------
\* Types of the state; every recorded digest is one the tree has had.
TypeOK ==
    /\ public_state \in [PublicIds -> Account]
    /\ commitments \in Seq(Commitment \cup {DUMMY_COMMITMENT})
    /\ Len(commitments) >= 1 /\ commitments[1] = DUMMY_COMMITMENT
    /\ \A k \in 2..Len(commitments) : commitments[k] \in Commitment
    /\ root_history \subseteq 1..Len(commitments)
    /\ nullifiers \subseteq
          [kind : {"Initialize"}, of : PrivateIds] \cup [kind : {"Update"}, of : Commitment]
    /\ block_id \in 0..MaxBlock
    /\ proven \subseteq Transaction

Live(k) == ForAccountUpdate(commitments[k]) \notin nullifiers

\* However many proofs race to spend a version of a private account, or to open
\* it, and in whatever order they arrive, one version of it is live.
OneLiveVersion ==
    \A i, j \in 2..Len(commitments) :
        /\ commitments[i].account_id = commitments[j].account_id
        /\ Live(i) /\ Live(j)
        => i = j

\* Balance neither appears nor vanishes between the public and the private
\* side: what accounts show plus what live versions hide is what genesis gave.
ValueIsConserved ==
    MapThenSumSet(LAMBDA a : public_state[a].balance, PublicIds)
    + MapThenSumSet(LAMBDA k : commitments[k].account.balance,
                    {k \in 2..Len(commitments) : Live(k)})
      = MapThenSumSet(LAMBDA a : GenesisBalance[a], PublicIds)
        + MapThenSumSet(LAMBDA k : InitialPrivate[k].account.balance, DOMAIN InitialPrivate)

\* A live version can be spent: its owner can prove it in a tree whose digest
\* the state machine still recognises, although digests inside a batch are
\* never recorded.
LiveVersionsAreSpendable ==
    \A k \in 2..Len(commitments) : Live(k) => \E d \in root_history : k <= d

\* Only versions that were really committed are ever spent.
SpentVersionsExisted ==
    \A n \in nullifiers :
        n.kind = "Update" => \E k \in 2..Len(commitments) : commitments[k] = n.of

\* A transaction with a proof debits a public account only with its signature.
PublicDebitsAreSigned ==
    [][\A a \in PublicIds :
          public_state'[a].balance < public_state[a].balance =>
              public_state'[a].nonce = public_state[a].nonce + 1]_vars
=============================================================================
