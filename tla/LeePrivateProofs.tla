--------------------------- MODULE LeePrivateProofs ---------------------------
(***************************************************************************)
(* The private state keeps one live version of every private account, for  *)
(* any accounts, programs, proofs and order of submission.  The invariant  *)
(* orders the versions of an account by nonce and says all but the last    *)
(* are spent.                                                              *)
(***************************************************************************)
EXTENDS LeePrivate, SequenceTheorems, TLAPS

Leaves == 2..Len(commitments)

\* Every account in the tree has its initialisation nullifier spent.
Opened ==
    \A k \in Leaves : ForAccountInitialization(commitments[k].account_id) \in nullifiers

\* Versions of one account are ordered by nonce.
VersionsDiffer ==
    \A i, j \in Leaves :
        /\ commitments[i].account_id = commitments[j].account_id
        /\ commitments[i].account.nonce = commitments[j].account.nonce
        => i = j

OldVersionsAreSpent ==
    \A i, j \in Leaves :
        /\ commitments[i].account_id = commitments[j].account_id
        /\ commitments[i].account.nonce < commitments[j].account.nonce
        => ~Live(i)

\* What the circuit checked about a proof stays true while the tree grows.
ProofsHold ==
    \A t \in proven :
        /\ Injective([i \in DOMAIN t.private |-> t.private[i].account_id])
        /\ \A i \in DOMAIN t.private : EntryIsProvable(t.private[i])

IInv ==
    /\ TypeOK
    /\ Opened
    /\ VersionsDiffer
    /\ OldVersionsAreSpent
    /\ ProofsHold
    /\ SpentVersionsExisted
    /\ Len(commitments) \in root_history

-----------------------------------------------------------------------------
LEMMA InitIInv == Init => IInv
<1> SUFFICES ASSUME Init PROVE IInv
  OBVIOUS
<1> USE PrivateInstance
<1> DEFINE C == Commitment \cup {DUMMY_COMMITMENT}
<1>1. /\ commitments \in Seq(C)
      /\ Len(commitments) = 1 + Len(InitialPrivate)
      /\ commitments[1] = DUMMY_COMMITMENT
      /\ \A k \in Leaves : commitments[k] = InitialPrivate[k - 1] /\ k - 1 \in DOMAIN InitialPrivate
  <2>1. <<DUMMY_COMMITMENT>> \in Seq(C) /\ Len(<<DUMMY_COMMITMENT>>) = 1
    OBVIOUS
  <2>2. InitialPrivate \in Seq(C) /\ DOMAIN InitialPrivate = 1..Len(InitialPrivate)
        /\ Len(InitialPrivate) \in Nat
    OBVIOUS
  <2>3. QED
    BY <2>1, <2>2, ConcatProperties DEF Init, Leaves
<1>2. \A k \in Leaves : commitments[k] \in Commitment
  BY <1>1
<1>3. Len(InitialPrivate) \in Nat
  OBVIOUS
<1>4. TypeOK
  <2>1. public_state \in [PublicIds -> Account]
    BY DEF Init, Account
  <2>2. root_history \subseteq 1..Len(commitments)
    BY <1>1, <1>3 DEF Init, GenesisRoots
  <2>3. nullifiers \subseteq [kind : {"Initialize"}, of : PrivateIds]
    <3> SUFFICES ASSUME NEW n \in nullifiers PROVE n \in [kind : {"Initialize"}, of : PrivateIds]
      OBVIOUS
    <3>1. PICK i \in DOMAIN InitialPrivate :
             n = ForAccountInitialization(InitialPrivate[i].account_id)
      BY DEF Init
    <3>2. InitialPrivate[i] \in Commitment
      OBVIOUS
    <3> QED
      BY <3>1, <3>2 DEF ForAccountInitialization, Commitment
  <2>4. QED
    BY <1>1, <1>2, <1>3, <2>1, <2>2, <2>3 DEF TypeOK, Init, Leaves
<1>5. Opened
  <2> SUFFICES ASSUME NEW k \in Leaves
               PROVE  ForAccountInitialization(commitments[k].account_id) \in nullifiers
    BY DEF Opened
  <2>1. k - 1 \in DOMAIN InitialPrivate /\ commitments[k] = InitialPrivate[k - 1]
    BY <1>1
  <2>2. nullifiers = {ForAccountInitialization(InitialPrivate[i].account_id) :
                        i \in DOMAIN InitialPrivate}
    BY DEF Init
  <2> QED
    BY <2>1, <2>2, Zenon
<1>6. \A i, j \in Leaves : commitments[i].account_id = commitments[j].account_id => i = j
  BY <1>1, <1>3 DEF Leaves
<1>7. VersionsDiffer
  BY <1>6 DEF VersionsDiffer
<1>8. OldVersionsAreSpent
  <2> SUFFICES ASSUME NEW i \in Leaves, NEW j \in Leaves,
                      commitments[i].account_id = commitments[j].account_id,
                      commitments[i].account.nonce < commitments[j].account.nonce
               PROVE  FALSE
    BY DEF OldVersionsAreSpent
  <2>1. i = j
    BY <1>6
  <2>2. commitments[i].account.nonce \in Nat
    BY <1>2 DEF Commitment, Account
  <2> QED
    BY <2>1, <2>2
<1>9. ProofsHold /\ Len(commitments) \in root_history
  BY <1>1 DEF Init, ProofsHold, GenesisRoots
<1>10. SpentVersionsExisted
  BY DEF Init, SpentVersionsExisted, ForAccountInitialization
<1> QED
  BY <1>4, <1>5, <1>7, <1>8, <1>9, <1>10 DEF IInv

\* Steps that leave the tree and the nullifiers alone.
LEMMA TreeUnchanged ==
    ASSUME IInv, UNCHANGED <<commitments, root_history, nullifiers>>, TypeOK', ProofsHold'
    PROVE  IInv'
<1>1. Leaves' = Leaves
  BY DEF Leaves
<1>2. Opened' /\ VersionsDiffer'
  BY <1>1 DEF IInv, Opened, VersionsDiffer
<1>3. OldVersionsAreSpent'
  BY <1>1 DEF IInv, OldVersionsAreSpent, Live
<1>4. SpentVersionsExisted' /\ (Len(commitments) \in root_history)'
  BY DEF IInv, SpentVersionsExisted
<1> QED
  BY <1>2, <1>3, <1>4 DEF IInv

\* A leaf of the tree stays one, so a proof made before is still one.
LEMMA ProvableStays ==
    ASSUME TypeOK, NEW s \in Seq(Commitment), commitments' = commitments \o s,
           NEW e \in PrivateEntry, EntryIsProvable(e)
    PROVE  EntryIsProvable(e)'
<1> DEFINE C == Commitment \cup {DUMMY_COMMITMENT}
<1>1. commitments \in Seq(C) /\ s \in Seq(C)
  BY DEF TypeOK
<1>2. /\ Len(commitments') = Len(commitments) + Len(s)
      /\ Len(commitments) \in Nat /\ Len(s) \in Nat
      /\ \A k \in 1..Len(commitments) : commitments'[k] = commitments[k]
  BY <1>1, ConcatProperties
<1>3. CASE IsInit(e)
  BY <1>3 DEF EntryIsProvable, IsInit
<1>4. CASE ~IsInit(e)
  <2> DEFINE c == CommitmentOf(e.account_id, e.pre)
  <2>1. e.digest \in DigestsForPath(c)
    BY <1>4 DEF EntryIsProvable
  <2>2. CASE e.digest = NoTree
    BY <1>4, <2>2 DEF EntryIsProvable, DigestsForPath, IsInit
  <2>3. CASE e.digest \in 1..Len(commitments) /\ \E k \in 1..e.digest : commitments[k] = c
    <3>1. PICK k \in 1..e.digest : commitments[k] = c
      BY <2>3
    <3>2. e.digest \in 1..Len(commitments') /\ k \in 1..Len(commitments)
      BY <1>2, <2>3
    <3>3. commitments'[k] = c
      BY <1>2, <3>1, <3>2
    <3>4. e.digest \in DigestsForPath(c)'
      BY <3>2, <3>3, <3>1 DEF DigestsForPath, CommitmentOf
    <3> QED
      BY <1>4, <3>4 DEF EntryIsProvable, IsInit, CommitmentOf
  <2> QED
    BY <2>1, <2>2, <2>3 DEF DigestsForPath
<1> QED
  BY <1>3, <1>4
-----------------------------------------------------------------------------
LEMMA FunctionIsSeq ==
    ASSUME NEW S, NEW n \in Nat, NEW f \in [1..n -> S]
    PROVE  f \in Seq(S) /\ Len(f) = n
<1>1. f \in Seq(S)
  BY SeqDef
<1> QED
  BY <1>1, LenProperties

\* The tree after a transaction: its commitments come after the old leaves.
LEMMA TreeAfter ==
    ASSUME TypeOK, NEW t \in proven, commitments' = commitments \o NewCommitments(t)
    PROVE  /\ NewCommitments(t) \in Seq(Commitment)
           /\ Len(commitments) \in Nat /\ Len(t.private) \in Nat
           /\ DOMAIN t.private = 1..Len(t.private)
           /\ \A i \in DOMAIN t.private : t.private[i] \in PrivateEntry
           /\ Len(NewCommitments(t)) = Len(t.private)
           /\ Len(commitments') = Len(commitments) + Len(t.private)
           /\ commitments' \in Seq(Commitment \cup {DUMMY_COMMITMENT})
           /\ \A k \in 1..Len(commitments) : commitments'[k] = commitments[k]
           /\ \A k \in Leaves' : k \notin Leaves =>
                 /\ k - Len(commitments) \in DOMAIN t.private
                 /\ commitments'[k] = NewCommitment(t.private[k - Len(commitments)])
<1> DEFINE C == Commitment \cup {DUMMY_COMMITMENT}
<1>1. t.private \in Seq(PrivateEntry) /\ commitments \in Seq(C)
  BY DEF TypeOK, Transaction
<1>2. /\ DOMAIN t.private = 1..Len(t.private) /\ Len(t.private) \in Nat
      /\ \A i \in DOMAIN t.private : t.private[i] \in PrivateEntry
      /\ Len(commitments) \in Nat
  BY <1>1
<1>3. \A i \in DOMAIN t.private : NewCommitment(t.private[i]) \in Commitment
  <2> TAKE i \in DOMAIN t.private
  <2> QED
    BY <1>2 DEF NewCommitment, CommitmentOf, NewNonce, PrivateEntry, Commitment, Account
<1>4. NewCommitments(t) \in [1..Len(t.private) -> Commitment]
  BY <1>2, <1>3 DEF NewCommitments
<1>5. NewCommitments(t) \in Seq(Commitment) /\ NewCommitments(t) \in Seq(C)
      /\ Len(NewCommitments(t)) = Len(t.private)
  <2>1. NewCommitments(t) \in [1..Len(t.private) -> C]
    BY <1>4
  <2> QED
    BY Zenon, <1>2, <1>4, <2>1, FunctionIsSeq
<1>6. /\ commitments' \in Seq(C)
      /\ Len(commitments') = Len(commitments) + Len(t.private)
      /\ \A k \in 1..Len(commitments) : commitments'[k] = commitments[k]
      /\ \A k \in (Len(commitments) + 1)..(Len(commitments) + Len(t.private)) :
            commitments'[k] = NewCommitments(t)[k - Len(commitments)]
  <2> HIDE DEF C
  <2>1. /\ commitments \o NewCommitments(t) \in Seq(C)
        /\ Len(commitments \o NewCommitments(t)) = Len(commitments) + Len(NewCommitments(t))
        /\ \A k \in 1..Len(commitments) + Len(NewCommitments(t)) :
              (commitments \o NewCommitments(t))[k] =
                  IF k <= Len(commitments) THEN commitments[k]
                  ELSE NewCommitments(t)[k - Len(commitments)]
    BY Zenon, <1>1, <1>5, ConcatProperties
  <2> QED
    BY <1>2, <1>5, <2>1
<1>7. \A k \in Leaves' : k \notin Leaves =>
         /\ k - Len(commitments) \in DOMAIN t.private
         /\ commitments'[k] = NewCommitment(t.private[k - Len(commitments)])
  <2> SUFFICES ASSUME NEW k \in Leaves', k \notin Leaves
               PROVE  /\ k - Len(commitments) \in DOMAIN t.private
                      /\ commitments'[k] = NewCommitment(t.private[k - Len(commitments)])
    BY Zenon
  <2>1. Len(commitments) >= 1
    BY DEF TypeOK
  <2>2. k \in (Len(commitments) + 1)..(Len(commitments) + Len(t.private))
    BY <1>2, <1>6, <2>1 DEF Leaves
  <2>3. k - Len(commitments) \in 1..Len(t.private)
    BY <1>2, <2>2
  <2> QED
    BY <1>2, <1>6, <2>2, <2>3 DEF NewCommitments
<1> QED
  BY Zenon, <1>2, <1>5, <1>6, <1>7

\* An accepted update was proved from a leaf of the tree.
LEMMA UpdateHasLeaf ==
    ASSUME IInv, NEW t \in proven, Submit(t), NEW i \in DOMAIN t.private,
           ~IsInit(t.private[i])
    PROVE  \E k \in Leaves :
              /\ commitments[k] = CommitmentOf(t.private[i].account_id, t.private[i].pre)
              /\ commitments[k].account_id = t.private[i].account_id
<1> DEFINE e == t.private[i]
<1>1. TypeOK /\ commitments' = commitments \o NewCommitments(t)
  BY DEF IInv, Submit
<1>2. e \in PrivateEntry /\ Len(commitments) \in Nat
  BY <1>1, TreeAfter
<1>3. e.digest \in 1..Len(commitments)
  BY Zenon, <1>1 DEF Submit, TransactionIsValid, CheckNullifiers, NewNullifiers, TypeOK, NewNullifier
<1>4. EntryIsProvable(e)
  BY Zenon DEF IInv, ProofsHold
<1>5. PICK k \in 1..e.digest : commitments[k] = CommitmentOf(e.account_id, e.pre)
  BY <1>3, <1>4 DEF EntryIsProvable, DigestsForPath, NoTree
<1>6. commitments[k] \in Commitment /\ commitments[k].account_id = e.account_id
  BY <1>2, <1>5 DEF CommitmentOf, PrivateEntry, Commitment
<1>7. k # 1
  BY <1>1, <1>6, PrivateInstance DEF TypeOK
<1>8. k \in Leaves
  BY <1>2, <1>3, <1>7 DEF Leaves
<1> QED
  BY <1>5, <1>6, <1>8

\* An accepted entry makes the newest version of its account and leaves every
\* earlier one spent.
LEMMA EntrySpendsTheLast ==
    ASSUME IInv, NEW t \in proven, Submit(t), NEW i \in DOMAIN t.private,
           NEW j \in Leaves, commitments[j].account_id = t.private[i].account_id
    PROVE  /\ commitments[j].account.nonce < NewNonce(t.private[i])
           /\ ForAccountUpdate(commitments[j]) \in nullifiers'
<1> DEFINE e == t.private[i]
<1>1. TypeOK /\ commitments' = commitments \o NewCommitments(t)
  BY DEF IInv, Submit
<1>2. e \in PrivateEntry /\ e.pre.nonce \in Nat /\ Len(commitments) \in Nat
  BY <1>1, TreeAfter DEF PrivateEntry, Account
<1>3. /\ NewNullifier(e).nullifier \notin nullifiers
      /\ NewNullifier(e).digest \in 1..Len(commitments)
      /\ NewNullifier(e).nullifier \in nullifiers'
      /\ nullifiers \subseteq nullifiers'
  BY Zenon, <1>1 DEF Submit, TransactionIsValid, CheckNullifiers, NewNullifiers, TypeOK
<1>4. commitments[j] \in Commitment /\ commitments[j].account.nonce \in Nat
  BY <1>1 DEF TypeOK, Leaves, Commitment, Account
<1>5. ~IsInit(e)
  BY <1>3 DEF IInv, Opened, NewNullifier
<1>8. PICK k \in Leaves : commitments[k] = CommitmentOf(e.account_id, e.pre)
  BY <1>5, UpdateHasLeaf
<1>9. /\ commitments[k].account_id = e.account_id
      /\ commitments[k].account.nonce = e.pre.nonce
      /\ Live(k) /\ ForAccountUpdate(commitments[k]) \in nullifiers'
  BY <1>3, <1>5, <1>8 DEF CommitmentOf, Live, NewNullifier
<1>10. commitments[j].account.nonce <= e.pre.nonce
  BY <1>2, <1>4, <1>8, <1>9 DEF IInv, OldVersionsAreSpent
<1>11. CASE commitments[j].account.nonce = e.pre.nonce
  <2>1. j = k
    BY <1>8, <1>9, <1>11 DEF IInv, VersionsDiffer
  <2> QED
    BY <1>2, <1>9, <1>11, <2>1 DEF NewNonce
<1>12. CASE commitments[j].account.nonce < e.pre.nonce
  <2>1. ~Live(j)
    BY <1>8, <1>9, <1>12 DEF IInv, OldVersionsAreSpent
  <2> QED
    BY <1>2, <1>3, <1>4, <1>12, <2>1 DEF NewNonce, Live
<1> QED
  BY <1>2, <1>4, <1>10, <1>11, <1>12

LEMMA SubmitKeepsTypes ==
    ASSUME IInv, NEW t \in proven, Submit(t)
    PROVE  TypeOK' /\ ProofsHold' /\ (Len(commitments) \in root_history)'
<1> USE PrivateInstance
<1>1. TypeOK /\ commitments' = commitments \o NewCommitments(t) /\ proven' = proven
  BY DEF IInv, Submit
<1>2. t \in Transaction
  BY <1>1 DEF TypeOK
<1>3. public_state' \in [PublicIds -> Account]
  <2> SUFFICES ASSUME NEW a \in PublicIds PROVE PublicAfter(t)[a] \in Account
    BY Zenon DEF Submit, PublicAfter
  <2> DEFINE written == {i \in DOMAIN t.public : t.public[i].account_id = a}
  <2>1. public_state[a].balance \in Nat /\ public_state[a].nonce \in Nat
    BY <1>1 DEF TypeOK, Account
  <2>2. ASSUME written # {} PROVE t.public[CHOOSE i \in written : TRUE].post \in Nat
    <3>1. (CHOOSE i \in written : TRUE) \in DOMAIN t.public
      BY <2>2
    <3>2. t.public \in Seq(PublicEntry)
      BY <1>2 DEF Transaction
    <3>3. \A i \in DOMAIN t.public : t.public[i] \in PublicEntry
      BY <3>2
    <3> HIDE DEF written
    <3> QED
      BY <3>1, <3>3 DEF PublicEntry
  <2> HIDE DEF written
  <2>3. PublicAfter(t)[a] =
          [balance |-> IF written = {} THEN public_state[a].balance
                       ELSE t.public[CHOOSE i \in written : TRUE].post,
           nonce |-> public_state[a].nonce + (IF a \in t.signers THEN 1 ELSE 0)]
    BY DEF PublicAfter, written
  <2> QED
    BY <2>1, <2>2, <2>3 DEF Account
<1>4. /\ commitments' \in Seq(Commitment \cup {DUMMY_COMMITMENT})
      /\ Len(commitments') >= 1 /\ commitments'[1] = DUMMY_COMMITMENT
      /\ \A k \in Leaves' : commitments'[k] \in Commitment
  <2>1. \A k \in Leaves' : k \notin Leaves => commitments'[k] \in Commitment
    <3> SUFFICES ASSUME NEW k \in Leaves', k \notin Leaves PROVE commitments'[k] \in Commitment
      OBVIOUS
    <3> DEFINE e == t.private[k - Len(commitments)]
    <3>1. e \in PrivateEntry /\ commitments'[k] = NewCommitment(e)
      BY Zenon, <1>1, TreeAfter
    <3> HIDE DEF e
    <3> QED
      BY <3>1 DEF NewCommitment, CommitmentOf, NewNonce, PrivateEntry, Commitment, Account
  <2>2. \A k \in Leaves : k \in 1..Len(commitments) /\ commitments[k] \in Commitment
    BY <1>1, TreeAfter DEF TypeOK, Leaves
  <2>3. \A k \in Leaves' : commitments'[k] \in Commitment
    BY Zenon, <1>1, <2>1, <2>2, TreeAfter
  <2>4. Len(commitments) >= 1 /\ commitments[1] = DUMMY_COMMITMENT
    BY <1>1 DEF TypeOK
  <2>5. /\ Len(commitments) \in Nat /\ Len(t.private) \in Nat
        /\ Len(commitments') = Len(commitments) + Len(t.private)
        /\ commitments' \in Seq(Commitment \cup {DUMMY_COMMITMENT})
        /\ \A k \in 1..Len(commitments) : commitments'[k] = commitments[k]
    BY Zenon, <1>1, TreeAfter
  <2>6. Len(commitments') >= 1 /\ commitments'[1] = DUMMY_COMMITMENT
    BY <2>4, <2>5
  <2> QED
    BY <2>3, <2>5, <2>6
<1>5. root_history' \subseteq 1..Len(commitments') /\ Len(commitments') \in root_history'
  <2>1. root_history' = root_history \cup {Len(commitments')}
    BY <1>1, TreeAfter DEF Submit, RootsAfter
  <2>2. Len(commitments') \in Nat /\ Len(commitments') >= Len(commitments) /\ Len(commitments) >= 1
    BY <1>1, TreeAfter DEF TypeOK
  <2>3. Len(commitments) \in Nat
    BY <1>1, TreeAfter
  <2>4. \A d \in root_history : d \in 1..Len(commitments)
    BY <1>1 DEF TypeOK
  <2>5. \A d \in root_history' : d \in 1..Len(commitments')
    BY <2>1, <2>2, <2>3, <2>4
  <2> QED
    BY <2>1, <2>5
<1>6. nullifiers' \subseteq
          [kind : {"Initialize"}, of : PrivateIds] \cup [kind : {"Update"}, of : Commitment]
  <2> SUFFICES ASSUME NEW n \in nullifiers', n \notin nullifiers
               PROVE  n \in [kind : {"Initialize"}, of : PrivateIds]
                            \cup [kind : {"Update"}, of : Commitment]
    BY <1>1 DEF TypeOK
  <2>1. PICK i \in DOMAIN t.private : n = NewNullifier(t.private[i]).nullifier
    BY Zenon DEF Submit, NewNullifiers
  <2>2. t.private[i] \in PrivateEntry
    BY Zenon, <1>1, TreeAfter
  <2> QED
    BY <2>1, <2>2 DEF NewNullifier, ForAccountInitialization, ForAccountUpdate, CommitmentOf,
                      PrivateEntry, Commitment
<1>7. ProofsHold'
  <2> SUFFICES ASSUME NEW u \in proven, NEW i \in DOMAIN u.private
               PROVE  EntryIsProvable(u.private[i])'
    BY Zenon, <1>1 DEF IInv, ProofsHold, Injective
  <2>1. u.private \in Seq(PrivateEntry)
    BY <1>1 DEF TypeOK, Transaction
  <2>2. u.private[i] \in PrivateEntry /\ EntryIsProvable(u.private[i])
    <3>1. \A k \in DOMAIN u.private : u.private[k] \in PrivateEntry
      BY <2>1
    <3> QED
      BY Zenon, <3>1 DEF IInv, ProofsHold
  <2>3. NewCommitments(t) \in Seq(Commitment)
    BY <1>1, TreeAfter
  <2> QED
    BY Zenon, <1>1, <2>2, <2>3, ProvableStays
<1>8. block_id' \in 0..MaxBlock /\ proven' \subseteq Transaction
  BY <1>1 DEF Submit, TypeOK
<1> QED
  BY <1>3, <1>4, <1>5, <1>6, <1>7, <1>8 DEF TypeOK, Leaves

LEMMA SubmitKeepsVersions ==
    ASSUME IInv, NEW t \in proven, Submit(t)
    PROVE  Opened' /\ VersionsDiffer' /\ OldVersionsAreSpent' /\ SpentVersionsExisted'
<1> DEFINE L == Len(commitments)
           e(k) == t.private[k - L]
<1>1. TypeOK /\ commitments' = commitments \o NewCommitments(t) /\ L \in Nat
  BY Zenon, TreeAfter DEF IInv, Submit
<1>2. /\ \A k \in Leaves : k \in Leaves' /\ commitments'[k] = commitments[k]
      /\ nullifiers \subseteq nullifiers'
  BY <1>1, TreeAfter DEF Leaves, Submit
<1>3. \A k \in Leaves' : k \notin Leaves =>
         /\ k - L \in DOMAIN t.private
         /\ e(k) \in PrivateEntry
         /\ commitments'[k].account_id = e(k).account_id
         /\ commitments'[k].account.nonce = NewNonce(e(k))
         /\ e(k).pre.nonce \in Nat
         /\ NewNullifier(e(k)).nullifier \in nullifiers'
  <2> SUFFICES ASSUME NEW k \in Leaves', k \notin Leaves
               PROVE  /\ k - L \in DOMAIN t.private
                      /\ e(k) \in PrivateEntry
                      /\ commitments'[k].account_id = e(k).account_id
                      /\ commitments'[k].account.nonce = NewNonce(e(k))
                      /\ e(k).pre.nonce \in Nat
                      /\ NewNullifier(e(k)).nullifier \in nullifiers'
    OBVIOUS
  <2>1. k - L \in DOMAIN t.private /\ e(k) \in PrivateEntry
        /\ commitments'[k] = NewCommitment(e(k))
    BY Zenon, <1>1, TreeAfter
  <2>2. NewNullifier(e(k)).nullifier \in nullifiers'
    BY <2>1 DEF Submit, NewNullifiers
  <2> QED
    BY <2>1, <2>2 DEF NewCommitment, CommitmentOf, PrivateEntry, Account
<1>4. \A j \in Leaves, k \in Leaves' :
         k \notin Leaves /\ commitments[j].account_id = commitments'[k].account_id =>
             /\ commitments[j].account.nonce < commitments'[k].account.nonce
             /\ ForAccountUpdate(commitments[j]) \in nullifiers'
  BY <1>3, EntrySpendsTheLast
<1>5. \A j, k \in Leaves' :
         /\ j \notin Leaves /\ k \notin Leaves
         /\ commitments'[j].account_id = commitments'[k].account_id
         => j = k
  <2> SUFFICES ASSUME NEW j \in Leaves', NEW k \in Leaves', j \notin Leaves, k \notin Leaves,
                      commitments'[j].account_id = commitments'[k].account_id
               PROVE  j = k
    OBVIOUS
  <2>1. j - L \in DOMAIN t.private /\ k - L \in DOMAIN t.private
        /\ t.private[j - L].account_id = t.private[k - L].account_id
    BY <1>3
  <2>2. j - L = k - L
    BY Zenon, <2>1 DEF IInv, ProofsHold, Injective
  <2> QED
    BY <1>1, <2>2 DEF Leaves
<1>6. \A j \in Leaves : commitments[j].account.nonce \in Nat
  BY <1>1 DEF TypeOK, Leaves, Commitment, Account
<1>7. Opened'
  <2> SUFFICES ASSUME NEW k \in Leaves'
               PROVE  ForAccountInitialization(commitments'[k].account_id) \in nullifiers'
    BY Zenon DEF Opened, ForAccountInitialization
  <2>1. CASE k \in Leaves
    BY <1>2, <2>1 DEF IInv, Opened
  <2>2. CASE k \notin Leaves /\ IsInit(e(k))
    BY <1>3, <2>2 DEF NewNullifier
  <2>3. CASE k \notin Leaves /\ ~IsInit(e(k))
    <3>1. PICK d \in Leaves : commitments[d].account_id = e(k).account_id
      BY <1>1, <1>3, <2>3, UpdateHasLeaf
    <3> QED
      BY <1>2, <1>3, <2>3, <3>1 DEF IInv, Opened
  <2> QED
    BY <2>1, <2>2, <2>3
<1>8. VersionsDiffer'
  <2> SUFFICES ASSUME NEW i \in Leaves', NEW j \in Leaves',
                      commitments'[i].account_id = commitments'[j].account_id,
                      commitments'[i].account.nonce = commitments'[j].account.nonce
               PROVE  i = j
    BY DEF VersionsDiffer
  <2>1. CASE i \in Leaves /\ j \in Leaves
    BY <1>2, <2>1 DEF IInv, VersionsDiffer
  <2>2. CASE i \in Leaves /\ j \notin Leaves
    BY <1>2, <1>4, <1>6, <2>2
  <2>3. CASE i \notin Leaves /\ j \in Leaves
    BY <1>2, <1>4, <1>6, <2>3
  <2>4. CASE i \notin Leaves /\ j \notin Leaves
    BY <1>5, <2>4
  <2> QED
    BY <2>1, <2>2, <2>3, <2>4
<1>9. OldVersionsAreSpent'
  <2> SUFFICES ASSUME NEW i \in Leaves', NEW j \in Leaves',
                      commitments'[i].account_id = commitments'[j].account_id,
                      commitments'[i].account.nonce < commitments'[j].account.nonce
               PROVE  ForAccountUpdate(commitments'[i]) \in nullifiers'
    BY DEF OldVersionsAreSpent, Live, ForAccountUpdate
  <2>1. CASE i \in Leaves /\ j \in Leaves
    BY <1>2, <2>1 DEF IInv, OldVersionsAreSpent, Live
  <2>2. CASE i \in Leaves /\ j \notin Leaves
    BY <1>2, <1>4, <2>2
  <2>3. CASE i \notin Leaves /\ j \in Leaves
    <3>1. /\ commitments[j].account.nonce < commitments'[i].account.nonce
          /\ commitments'[j] = commitments[j]
          /\ commitments'[i].account.nonce \in Nat
      BY <1>2, <1>3, <1>4, <2>3 DEF NewNonce
    <3> QED
      BY <1>6, <2>3, <3>1
  <2>4. CASE i \notin Leaves /\ j \notin Leaves
    <3>1. i = j /\ commitments'[i].account.nonce \in Nat
      BY <1>3, <1>5, <2>4 DEF NewNonce
    <3> QED
      BY <3>1
  <2> QED
    BY <2>1, <2>2, <2>3, <2>4
<1>10. SpentVersionsExisted'
  <2> SUFFICES ASSUME NEW n \in nullifiers', n.kind = "Update"
               PROVE  \E k \in Leaves' : commitments'[k] = n.of
    BY DEF SpentVersionsExisted, Leaves
  <2>1. CASE n \in nullifiers
    BY <1>2, <2>1 DEF IInv, SpentVersionsExisted, Leaves
  <2>2. CASE n \notin nullifiers
    <3>1. PICK i \in DOMAIN t.private : n = NewNullifier(t.private[i]).nullifier
      BY Zenon, <2>2 DEF Submit, NewNullifiers
    <3>2. ~IsInit(t.private[i])
      BY <3>1 DEF NewNullifier, ForAccountInitialization
    <3>3. PICK d \in Leaves :
             commitments[d] = CommitmentOf(t.private[i].account_id, t.private[i].pre)
      BY <3>2, UpdateHasLeaf
    <3>4. n.of = commitments[d]
      BY <3>1, <3>2, <3>3 DEF NewNullifier, ForAccountUpdate
    <3> QED
      BY <1>2, <3>4
  <2> QED
    BY <2>1, <2>2
<1> QED
  BY <1>7, <1>8, <1>9, <1>10

LEMMA NextIInv == IInv /\ [Next]_vars => IInv'
<1> SUFFICES ASSUME IInv, [Next]_vars PROVE IInv'
  OBVIOUS
<1> USE PrivateInstance
<1>1. ASSUME NEW t \in Candidates(public_state, commitments), Prove(t) PROVE IInv'
  <2>1. UNCHANGED <<public_state, commitments, root_history, nullifiers, block_id>>
        /\ proven' = proven \cup {t} /\ t \in Transaction /\ CircuitAccepts(t)
    BY <1>1 DEF Prove
  <2>2. TypeOK'
    <3>1. TypeOK /\ proven \cup {t} \subseteq Transaction
      BY <2>1 DEF IInv, TypeOK
    <3> QED
      BY <2>1, <3>1 DEF TypeOK, Leaves
  <2>3. ProofsHold'
    <3>a. \A e : EntryIsProvable(e)' <=> EntryIsProvable(e)
      BY <2>1 DEF EntryIsProvable, DigestsForPath
    <3> SUFFICES ASSUME NEW u \in proven'
                 PROVE  /\ Injective([i \in DOMAIN u.private |-> u.private[i].account_id])
                        /\ \A i \in DOMAIN u.private : EntryIsProvable(u.private[i])
      BY Zenon, <3>a DEF ProofsHold
    <3>1. CASE u = t
      BY <2>1, <3>1 DEF CircuitAccepts
    <3>2. CASE u \in proven
      BY <3>2 DEF IInv, ProofsHold
    <3> QED
      BY <2>1, <3>1, <3>2
  <2> QED
    BY <2>1, <2>2, <2>3, TreeUnchanged
<1>2. ASSUME NEW t \in proven, Submit(t) PROVE IInv'
  BY <1>2, SubmitKeepsTypes, SubmitKeepsVersions DEF IInv
<1>3. ASSUME NEW t \in proven, Lose(t) PROVE IInv'
  <2>1. TypeOK'
    BY <1>3 DEF IInv, TypeOK, Lose
  <2>2. ProofsHold'
    BY Zenon, <1>3 DEF IInv, ProofsHold, Lose, EntryIsProvable, DigestsForPath
  <2> QED
    BY <1>3, <2>1, <2>2, TreeUnchanged DEF Lose
<1>4. ASSUME NEW a \in PublicIds, NEW b \in PublicIds, NEW n \in 1..MaxBalance,
             PublicTransfer(a, b, n)
      PROVE  IInv'
  <2>1. TypeOK'
    <3>1. public_state[a] \in Account /\ public_state[b] \in Account
          /\ public_state \in [PublicIds -> Account]
      BY DEF IInv, TypeOK
    <3>2. /\ public_state[a].balance - n \in Nat /\ public_state[a].nonce + 1 \in Nat
          /\ public_state[b].balance + n \in Nat /\ public_state[b].nonce \in Nat
      <4>1. n <= public_state[a].balance /\ n \in Nat
        BY <1>4 DEF PublicTransfer
      <4>2. /\ public_state[a].balance \in Nat /\ public_state[a].nonce \in Nat
            /\ public_state[b].balance \in Nat /\ public_state[b].nonce \in Nat
        BY ONLY <3>1 DEF Account
      <4>3. QED
        BY ONLY <4>1, <4>2
    <3>3. /\ [balance |-> public_state[a].balance - n, nonce |-> public_state[a].nonce + 1]
                \in Account
          /\ [public_state[b] EXCEPT !.balance = @ + n] \in Account
      BY Zenon, <3>1, <3>2 DEF Account
    <3>4. public_state' \in [PublicIds -> Account]
      BY Zenon, <1>4, <3>1, <3>3 DEF PublicTransfer
    <3> QED
      BY Zenon, <1>4, <3>4 DEF IInv, TypeOK, PublicTransfer
  <2>2. ProofsHold'
    BY Zenon, <1>4 DEF IInv, ProofsHold, PublicTransfer, EntryIsProvable, DigestsForPath
  <2> QED
    BY <1>4, <2>1, <2>2, TreeUnchanged DEF PublicTransfer
<1>5. ASSUME NextBlock PROVE IInv'
  <2>1. TypeOK'
    BY <1>5 DEF IInv, TypeOK, NextBlock
  <2>2. ProofsHold'
    BY Zenon, <1>5 DEF IInv, ProofsHold, NextBlock, EntryIsProvable, DigestsForPath
  <2> QED
    BY <1>5, <2>1, <2>2, TreeUnchanged DEF NextBlock
<1>6. ASSUME UNCHANGED vars PROVE IInv'
  <2>1. TypeOK'
    BY <1>6 DEF IInv, TypeOK, vars
  <2>2. ProofsHold'
    BY Zenon, <1>6 DEF IInv, ProofsHold, vars, EntryIsProvable, DigestsForPath
  <2> QED
    BY <1>6, <2>1, <2>2, TreeUnchanged DEF vars
<1> QED
  BY <1>1, <1>2, <1>3, <1>4, <1>5, <1>6 DEF Next

LEMMA Invariance == Spec => []IInv
  BY InitIInv, NextIInv, PTL DEF Spec

\* check_nullifiers_are_valid with the circuit's derivation of nullifiers and
\* nonces leaves at most one version of a private account unspent.
THEOREM OneVersionLives == Spec => []OneLiveVersion
<1>1. IInv => OneLiveVersion
  <2> SUFFICES ASSUME IInv, NEW i \in Leaves, NEW j \in Leaves,
                      commitments[i].account_id = commitments[j].account_id,
                      Live(i), Live(j)
               PROVE  i = j
    BY DEF OneLiveVersion, Leaves
  <2>1. commitments[i].account.nonce \in Nat /\ commitments[j].account.nonce \in Nat
    BY DEF IInv, TypeOK, Leaves, Commitment, Account
  <2>2. /\ ~(commitments[i].account.nonce < commitments[j].account.nonce)
        /\ ~(commitments[j].account.nonce < commitments[i].account.nonce)
    BY DEF IInv, OldVersionsAreSpent
  <2>3. commitments[i].account.nonce = commitments[j].account.nonce
    BY <2>1, <2>2
  <2> QED
    BY <2>3 DEF IInv, VersionsDiffer
<1> QED
  BY <1>1, Invariance, PTL

\* Every live version is in a tree whose digest the state machine recognises.
THEOREM LiveVersionsSpendable == Spec => []LiveVersionsAreSpendable
<1>1. IInv => LiveVersionsAreSpendable
  <2> SUFFICES ASSUME IInv, NEW k \in 2..Len(commitments)
               PROVE  \E d \in root_history : k <= d
    BY DEF LiveVersionsAreSpendable
  <2> QED
    BY DEF IInv
<1> QED
  BY <1>1, Invariance, PTL

\* A nullifier of an update was made from a commitment of the tree.
THEOREM OnlyRealVersionsSpent == Spec => []SpentVersionsExisted
<1>1. IInv => SpentVersionsExisted
  BY DEF IInv
<1> QED
  BY <1>1, Invariance, PTL

\* The private state stays well typed.
THEOREM PrivateTypes == Spec => []TypeOK
<1>1. IInv => TypeOK
  BY DEF IInv
<1> QED
  BY <1>1, Invariance, PTL
=============================================================================
