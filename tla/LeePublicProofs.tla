--------------------------- MODULE LeePublicProofs ---------------------------
(***************************************************************************)
(* What LeePublic promises for any programs, accounts and transactions.    *)
(* The inductive invariant adds to the checked properties what the diff of *)
(* a running chain may hold: it never touches a nonce, never replaces an   *)
(* owner, and every claim and every debit in it already has its reason.    *)
(***************************************************************************)
EXTENDS LeePublic, SumProofs, SequenceTheorems

\* A diff entry, against the published account it would replace.
DiffIsJustified ==
    \A a \in DOMAIN state_diff :
        /\ state_diff[a].nonce = public_state[a].nonce
        /\ public_state[a].program_owner # DEFAULT_PROGRAM_ID =>
              state_diff[a].program_owner = public_state[a].program_owner
        /\ state_diff[a].program_owner # public_state[a].program_owner =>
              a \in Sources(tx)
        /\ \/ state_diff[a].balance < public_state[a].balance
           \/ state_diff[a].data # public_state[a].data /\ public_state[a].data # NoData
           => public_state[a].program_owner \in executed

\* The running transaction still passes the first checks, and every applied
\* one has been overtaken by the nonce of its first signer.
NoncesOvertake ==
    /\ tx # None => TransactionIsValid(tx)
    /\ \A t \in applied : t.signers # <<>> =>
          t.nonces[1] < public_state[t.signers[1]].nonce

NoncesOvertakeTyped ==
    /\ NoncesOvertake
    /\ \A t \in applied : Len(t.nonces) = Len(t.signers)

\* Pending calls were asked for by the transaction or by a program that ran.
CallersRan ==
    \A i \in DOMAIN chained_calls : chained_calls[i].caller \in executed \cup {None}

IInv ==
    /\ TypeOK
    /\ CallersRan
    /\ UnownedAccountsAreEmpty
    /\ AuthorizationHasASource
    /\ DiffIsJustified
    /\ NoncesOvertakeTyped

Bumps(t, a) == Cardinality({i \in DOMAIN t.signers : t.signers[i] = a})

-----------------------------------------------------------------------------
\* A signature list bumps a nonce by a natural number, and by at least one for
\* each account on it.
LEMMA BumpsType ==
    ASSUME NEW t \in PublicTransaction, NEW a \in AccountIds
    PROVE  /\ Bumps(t, a) \in Nat
           /\ a \in SignerSet(t) => Bumps(t, a) > 0
<1> DEFINE S == {i \in DOMAIN t.signers : t.signers[i] = a}
<1>1. t.signers \in Seq(AccountIds)
  BY DEF PublicTransaction
<1>2. DOMAIN t.signers = 1..Len(t.signers) /\ Len(t.signers) \in Nat
  BY <1>1
<1>3. IsFiniteSet(1..Len(t.signers))
  BY <1>2, FS_Interval
<1>4. IsFiniteSet(S)
  BY <1>2, <1>3, FS_Subset
<1>5. Cardinality(S) \in Nat /\ (Cardinality(S) = 0 <=> S = {})
  BY <1>4, FS_CardinalityType, FS_EmptySet
<1>6. a \in SignerSet(t) => S # {}
  BY DEF SignerSet
<1>7. QED
  BY <1>5, <1>6 DEF Bumps

\* Balances are natural numbers, which lets them be compared.
LEMMA BalanceType ==
    ASSUME NEW account \in Account
    PROVE  account.balance \in Nat
  BY ConstantTypes DEF Account

LEMMA InitIInv == Init => IInv
<1> SUFFICES ASSUME Init PROVE IInv
  OBVIOUS
<1> USE ConstantTypes, InstanceTypes
<1>1. TypeOK
  BY DEF Init, TypeOK
<1>2. UnownedAccountsAreEmpty
  BY DEF Init, UnownedAccountsAreEmpty, DefaultAccount
<1>3. AuthorizationHasASource /\ DiffIsJustified /\ NoncesOvertakeTyped /\ CallersRan
  BY DEF Init, CallersRan, AuthorizationHasASource, DiffIsJustified, NoncesOvertake, NoncesOvertakeTyped
<1>4. QED
  BY <1>1, <1>2, <1>3 DEF IInv

\* Begin hands the first call the accounts of the transaction, signers marked.
LEMMA BeginIInv ==
    ASSUME IInv, NEW t \in Transactions, Begin(t)
    PROVE  IInv'
<1> USE ConstantTypes, InstanceTypes DEF IInv, TypeOK
<1>1. t \in PublicTransaction /\ t # None
  OBVIOUS
<1>2. /\ t.program_id \in Owners /\ t.instruction \in Instructions
      /\ t.account_ids \in Seq(AccountIds) /\ t.signers \in Seq(AccountIds)
  BY <1>1 DEF PublicTransaction
<1>3. SignerSet(t) \subseteq AccountIds
  BY <1>2 DEF SignerSet
<1> DEFINE pres == [i \in DOMAIN t.account_ids |->
                      [account_id    |-> t.account_ids[i],
                       account       |-> public_state[t.account_ids[i]],
                       is_authorized |-> t.account_ids[i] \in SignerSet(t)]]
<1>4. pres \in Seq(PreState)
  <2>1. DOMAIN t.account_ids = 1..Len(t.account_ids) /\ Len(t.account_ids) \in Nat
    BY <1>2
  <2>2. \A i \in DOMAIN t.account_ids : pres[i] \in PreState
    BY <1>2 DEF PreState
  <2>3. pres \in [1..Len(t.account_ids) -> PreState]
    BY Zenon, <2>1, <2>2
  <2>4. QED
    BY <2>1, <2>3, SeqDef
<1>5. InitialFrame(t) \in Frame
  BY <1>2, <1>3, <1>4 DEF InitialFrame, Frame, ChainedCall
<1>6. /\ chained_calls' = <<InitialFrame(t)>> /\ tx' = t
      /\ UNCHANGED <<public_state, programs, now, state_diff, chain_calls_counter,
                     executed, applied>>
      /\ TransactionIsValid(t)
  BY DEF Begin
<1>7. TypeOK'
  BY <1>1, <1>5, <1>6
<1>8. AuthorizationHasASource' /\ CallersRan'
  BY <1>6 DEF AuthorizationHasASource, CallersRan, Sources, InitialFrame
<1>9. DiffIsJustified'
  BY <1>6 DEF DiffIsJustified, Begin
<1>10. NoncesOvertakeTyped' /\ UnownedAccountsAreEmpty'
  BY <1>6 DEF NoncesOvertake, NoncesOvertakeTyped, TransactionIsValid, UnownedAccountsAreEmpty
<1>11. QED
  BY <1>7, <1>8, <1>9, <1>10

\* What a transaction that ran the programs ran, with sources for its
\* authorizations, may make of account a: old at its start, new in its diff.
Justified(a, old, new, sources, ran) ==
    /\ new.nonce = old.nonce
    /\ old.program_owner # DEFAULT_PROGRAM_ID => new.program_owner = old.program_owner
    /\ new.program_owner # old.program_owner => a \in sources
    /\ \/ new.balance < old.balance
       \/ new.data # old.data /\ old.data # NoData
       => old.program_owner \in ran

\* One account of one output: a valid pair and a granted claim keep an account
\* that the calls before it left justified.
LEMMA ClaimedIsJustified ==
    ASSUME NEW a, NEW sources, NEW ran, NEW p \in ProgramIds, p \in ran,
           NEW old \in Account, NEW pre \in Account, NEW post \in PostState,
           old.program_owner = DEFAULT_PROGRAM_ID => old.balance = 0 /\ old.data = NoData,
           Justified(a, old, pre, sources, ran),
           PairIsValid(pre, post.account, p),
           post.claim.kind # "None" =>
              post.account.program_owner = DEFAULT_PROGRAM_ID /\ a \in sources
    PROVE  /\ Claimed(post, p) \in Account
           /\ Justified(a, old, Claimed(post, p), sources, ran)
<1> DEFINE new == Claimed(post, p)
<1>1. post.account \in Account
  BY DEF PostState
<1>2. /\ new \in Account /\ new.nonce = post.account.nonce
      /\ new.balance = post.account.balance /\ new.data = post.account.data
      /\ post.claim.kind = "None" => new.program_owner = post.account.program_owner
  BY <1>1 DEF Claimed, Account, Owners
<1>3. /\ new.balance \in Nat /\ pre.balance \in Nat /\ old.balance \in Nat
  BY <1>2, BalanceType
<1>4. /\ new.nonce = old.nonce
      /\ old.program_owner # DEFAULT_PROGRAM_ID => new.program_owner = old.program_owner
      /\ new.program_owner # old.program_owner => a \in sources
  BY <1>2 DEF Justified, PairIsValid
<1>5. ASSUME \/ new.balance < old.balance
             \/ new.data # old.data /\ old.data # NoData
      PROVE  old.program_owner \in ran
  <2>1. old.program_owner # DEFAULT_PROGRAM_ID
    BY <1>3, <1>5
  <2>2. pre.program_owner = old.program_owner /\ pre # DefaultAccount
    BY <2>1 DEF Justified, DefaultAccount
  <2>3. CASE \/ pre.balance < old.balance
             \/ pre.data # old.data /\ old.data # NoData
    BY <2>3 DEF Justified
  <2>4. CASE new.balance < pre.balance \/ new.data # pre.data
    BY <1>2, <2>2, <2>4 DEF PairIsValid
  <2>5. QED
    BY <1>3, <1>5, <2>3, <2>4
<1>6. QED
  BY <1>2, <1>4, <1>5 DEF Justified

\* An output that passes the checks of a call: what validate_execution and the
\* claim check leave possible for each account it writes.
LEMMA WrittenIsJustified ==
    ASSUME IInv, chained_calls # <<>>,
           NEW out \in ProgramOutput,
           CallIsAllowed(Head(chained_calls)),
           OutputIsValid(Head(chained_calls), out),
           executed' = executed \cup {Head(chained_calls).call.program_id},
           state_diff' = Written(out, Head(chained_calls).call.program_id),
           UNCHANGED <<public_state, tx>>
    PROVE  /\ DOMAIN state_diff' \subseteq AccountIds
           /\ \A a \in DOMAIN state_diff' : state_diff'[a] \in Account
           /\ DiffIsJustified'
           /\ AuthorizedAfter(Head(chained_calls), out) \subseteq Sources(tx)'
<1> DEFINE frame == Head(chained_calls)
           p == frame.call.program_id
           pres == out.pre_states
           posts == out.post_states
<1> USE DEF IInv
<1>1. frame \in Frame /\ Tail(chained_calls) \in Seq(Frame) /\ 1 \in DOMAIN chained_calls
      /\ chained_calls[1] = frame
  BY HeadTailProperties DEF TypeOK
<1>2. /\ p \in ProgramIds /\ frame.call.pda_seeds \subseteq Seeds
      /\ frame.caller \in ProgramIds \cup {None} /\ frame.authorized \subseteq AccountIds
  BY <1>1 DEF Frame, ChainedCall, CallIsAllowed, TypeOK
<1>3. /\ pres \in Seq(PreState) /\ posts \in Seq(PostState)
      /\ Len(pres) = Len(posts)
      /\ \A i \in DOMAIN pres : pres[i] \in PreState /\ posts[i] \in PostState
  <2>1. pres \in Seq(PreState) /\ posts \in Seq(PostState)
    BY DEF ProgramOutput
  <2>2. Len(pres) = Len(posts)
    BY DEF OutputIsValid, ValidateExecution
  <2>3. QED
    BY <2>1, <2>2
<1>4. \A i \in DOMAIN pres :
         /\ pres[i].account_id \in AccountIds /\ pres[i].account \in Account
         /\ posts[i].account \in Account /\ posts[i].claim \in Claim
  BY <1>3 DEF PreState, PostState
<1>5. \A i \in DOMAIN pres :
         /\ PairIsValid(pres[i].account, posts[i].account, p)
         /\ ClaimIsValid(pres[i], posts[i], p)
         /\ pres[i].account = View(pres[i].account_id)
         /\ pres[i].is_authorized <=> Authorized(frame, pres[i].account_id)
  <2>1. DOMAIN pres = DOMAIN posts
    BY <1>3
  <2>2. QED
    BY <2>1 DEF OutputIsValid, ValidateExecution, ClaimsAreValid, PreStatesAreGenuine
<1>6. \A a : Authorized(frame, a) => a \in Sources(tx)'
  <2>1. frame.authorized \subseteq Sources(tx)
    BY <1>1 DEF AuthorizationHasASource
  <2>2. frame.caller \in executed \cup {None}
    BY <1>1 DEF CallersRan
  <2>3. Sources(tx) \subseteq Sources(tx)'
    BY DEF Sources
  <2>4. AuthorizedPdas(frame.caller, frame.call.pda_seeds) \subseteq Sources(tx)
    BY <1>2, <2>2 DEF AuthorizedPdas, Sources
  <2>5. QED
    BY <2>1, <2>3, <2>4 DEF Authorized
<1>7. AuthorizedAfter(frame, out) \subseteq Sources(tx)'
  BY <1>4, <1>5, <1>6 DEF AuthorizedAfter, Authorized
<1>8. /\ DOMAIN state_diff' = DOMAIN state_diff \cup Ids(pres)
      /\ Ids(pres) \subseteq AccountIds
  BY <1>4 DEF Written, Ids
<1>9. ASSUME NEW a \in DOMAIN state_diff'
      PROVE  /\ state_diff'[a] \in Account
             /\ state_diff'[a].nonce = public_state[a].nonce
             /\ public_state[a].program_owner # DEFAULT_PROGRAM_ID =>
                   state_diff'[a].program_owner = public_state[a].program_owner
             /\ state_diff'[a].program_owner # public_state[a].program_owner =>
                   a \in Sources(tx)'
             /\ \/ state_diff'[a].balance < public_state[a].balance
                \/ state_diff'[a].data # public_state[a].data /\ public_state[a].data # NoData
                => public_state[a].program_owner \in executed'
  <2>1. CASE a \notin Ids(pres)
    <3>1. a \in DOMAIN state_diff /\ state_diff'[a] = state_diff[a]
      BY <1>8, <2>1 DEF Written
    <3>2. Sources(tx) \subseteq Sources(tx)' /\ executed \subseteq executed'
      BY DEF Sources
    <3>3. QED
      BY <3>1, <3>2 DEF DiffIsJustified, TypeOK
  <2>2. CASE a \in Ids(pres)
    <3>1. PICK i \in DOMAIN pres :
             pres[i].account_id = a /\ state_diff'[a] = Claimed(posts[i], p)
      BY Zenon, <2>2, <1>8 DEF Written, Ids
    <3>2. /\ a \in AccountIds /\ public_state[a] \in Account
          /\ pres[i].account \in Account /\ posts[i] \in PostState /\ posts[i].claim \in Claim
          /\ pres[i].account = View(a)
          /\ PairIsValid(pres[i].account, posts[i].account, p)
          /\ ClaimIsValid(pres[i], posts[i], p)
          /\ pres[i].is_authorized => a \in Sources(tx)'
      BY <1>3, <1>4, <1>5, <1>6, <3>1 DEF TypeOK
    <3>3. posts[i].claim.kind # "None" =>
             posts[i].account.program_owner = DEFAULT_PROGRAM_ID /\ a \in Sources(tx)'
      <4> SUFFICES ASSUME posts[i].claim.kind # "None"
                   PROVE  a \in Sources(tx)'
        BY <3>2 DEF ClaimIsValid
      <4>1. CASE posts[i].claim.kind = "Authorized"
        BY <3>2, <4>1 DEF ClaimIsValid
      <4>2. CASE posts[i].claim.kind = "Pda"
        <5>1. posts[i].claim.seed \in Seeds
          BY <3>2, <4>2 DEF Claim
        <5>2. a = PdaOf(p, posts[i].claim.seed)
          BY <3>1, <3>2, <4>2 DEF ClaimIsValid
        <5>3. p \in executed'
          OBVIOUS
        <5>4. \E q \in executed', s \in Seeds : a = PdaOf(q, s)
          BY Zenon, <5>1, <5>2, <5>3
        <5>5. QED
          BY <5>4 DEF Sources
      <4>3. posts[i].claim.kind \in {"None", "Authorized", "Pda"}
        BY <3>2 DEF Claim
      <4>4. QED
        BY <4>1, <4>2, <4>3
    <3>4. Justified(a, public_state[a], View(a), Sources(tx)', executed')
      <4>1. Sources(tx) \subseteq Sources(tx)' /\ executed \subseteq executed'
        BY DEF Sources
      <4>2. CASE a \in DOMAIN state_diff
        BY <4>1, <4>2 DEF View, DiffIsJustified, Justified
      <4>3. CASE a \notin DOMAIN state_diff
        <5>1. View(a) = public_state[a]
          BY <4>3 DEF View
        <5>2. public_state[a].balance \in Nat
          BY <3>2, BalanceType
        <5>3. QED
          BY <5>1, <5>2 DEF Justified
      <4>4. QED
        BY <4>2, <4>3
    <3>5. public_state[a].program_owner = DEFAULT_PROGRAM_ID =>
             public_state[a].balance = 0 /\ public_state[a].data = NoData
      BY <3>2 DEF UnownedAccountsAreEmpty
    <3>6. /\ Claimed(posts[i], p) \in Account
          /\ Justified(a, public_state[a], Claimed(posts[i], p), Sources(tx)', executed')
      <4>1. p \in executed' /\ Justified(a, public_state[a], pres[i].account, Sources(tx)', executed')
        BY <3>2, <3>4
      <4>2. p \in ProgramIds
        BY <1>2
      <4>3. /\ public_state[a] \in Account /\ pres[i].account \in Account
            /\ posts[i] \in PostState
            /\ PairIsValid(pres[i].account, posts[i].account, p)
        BY <3>2
      <4> HIDE DEF p, pres, posts
      <4>4. QED
        BY ONLY Zenon, <3>3, <3>5, <4>1, <4>2, <4>3, ClaimedIsJustified
    <3>7. QED
      BY <3>1, <3>6 DEF Justified
  <2>3. QED
    BY <2>1, <2>2
<1>10. DOMAIN state_diff' \subseteq AccountIds
  BY <1>8 DEF TypeOK
<1>11. DiffIsJustified'
  BY <1>9 DEF DiffIsJustified
<1>12. QED
  BY <1>7, <1>9, <1>10, <1>11

LEMMA RunCallIInv ==
    ASSUME IInv, RunCall
    PROVE  IInv'
<1> DEFINE frame == Head(chained_calls)
<1> USE DEF IInv
<1>1. PICK out \in Outputs(frame) :
        /\ OutputIsValid(frame, out)
        /\ state_diff' = Written(out, frame.call.program_id)
        /\ chained_calls' = NewFrames(frame, out) \o Tail(chained_calls)
  BY DEF RunCall
<1>2. /\ chained_calls # <<>> /\ CallIsAllowed(frame)
      /\ executed' = executed \cup {frame.call.program_id}
      /\ chain_calls_counter' = chain_calls_counter + 1
      /\ UNCHANGED <<public_state, programs, now, tx, applied>>
  BY DEF RunCall, NextCounter
<1>3. out \in ProgramOutput
  BY <1>1 DEF OutputIsValid
<1>4. /\ DOMAIN state_diff' \subseteq AccountIds
      /\ \A a \in DOMAIN state_diff' : state_diff'[a] \in Account
      /\ DiffIsJustified'
      /\ AuthorizedAfter(frame, out) \subseteq Sources(tx)'
  BY <1>1, <1>2, <1>3, WrittenIsJustified
<1>5. /\ frame \in Frame /\ Tail(chained_calls) \in Seq(Frame)
      /\ \A i \in DOMAIN Tail(chained_calls) :
            i + 1 \in DOMAIN chained_calls /\ Tail(chained_calls)[i] = chained_calls[i + 1]
  BY <1>2, HeadTailProperties DEF TypeOK
<1>6. /\ frame.call.program_id \in ProgramIds /\ frame.authorized \subseteq AccountIds
      /\ out.chained_calls \in Seq(ChainedCall)
  BY <1>2, <1>3, <1>5 DEF Frame, ChainedCall, ProgramOutput, CallIsAllowed, TypeOK
<1>7. AuthorizedAfter(frame, out) \subseteq AccountIds
  BY <1>6 DEF AuthorizedAfter
<1> DEFINE new == NewFrames(frame, out)
           rest == Tail(chained_calls)
<1>8. /\ new \in Seq(Frame)
      /\ \A i \in DOMAIN new : /\ new[i].caller = frame.call.program_id
                               /\ new[i].authorized = AuthorizedAfter(frame, out)
  <2>1. /\ DOMAIN out.chained_calls = 1..Len(out.chained_calls)
        /\ Len(out.chained_calls) \in Nat
        /\ \A i \in DOMAIN out.chained_calls : out.chained_calls[i] \in ChainedCall
    BY <1>6
  <2>2. new \in [1..Len(out.chained_calls) -> Frame]
    BY <1>6, <1>7, <2>1 DEF NewFrames, Frame
  <2>3. new \in Seq(Frame)
    BY <2>1, <2>2, SeqDef
  <2>4. QED
    BY <2>3 DEF NewFrames
<1>9. /\ new \o rest \in Seq(Frame)
      /\ \A i \in DOMAIN (new \o rest) :
            \/ \E j \in DOMAIN new : (new \o rest)[i] = new[j]
            \/ \E j \in DOMAIN rest : (new \o rest)[i] = rest[j]
  <2>1. /\ new \o rest \in Seq(Frame)
        /\ Len(new \o rest) = Len(new) + Len(rest)
        /\ \A i \in 1..(Len(new) + Len(rest)) :
              (new \o rest)[i] = IF i <= Len(new) THEN new[i] ELSE rest[i - Len(new)]
    BY <1>5, <1>8, ConcatProperties
  <2>2. QED
    BY <1>5, <1>8, <2>1
<1>10. AuthorizationHasASource' /\ CallersRan'
  <2> SUFFICES ASSUME NEW i \in DOMAIN (new \o rest)
               PROVE  /\ (new \o rest)[i].authorized \subseteq Sources(tx)'
                      /\ (new \o rest)[i].caller \in executed' \cup {None}
    BY Zenon, <1>1 DEF AuthorizationHasASource, CallersRan
  <2>1. CASE \E j \in DOMAIN new : (new \o rest)[i] = new[j]
    BY <1>2, <1>4, <1>8, <2>1
  <2>2. CASE \E j \in DOMAIN rest : (new \o rest)[i] = rest[j]
    <3>1. Sources(tx) \subseteq Sources(tx)'
      BY <1>2 DEF Sources
    <3>2. QED
      BY <1>2, <1>5, <2>2, <3>1 DEF AuthorizationHasASource, CallersRan
  <2>3. QED
    BY <1>9, <2>1, <2>2
<1>11. TypeOK'
  <2>1. chained_calls' \in Seq(Frame)
    BY <1>1, <1>9
  <2>2. chain_calls_counter' \in 0..(MAX_NUMBER_CHAINED_CALLS + 1)
    BY <1>2, InstanceTypes DEF TypeOK, CallIsAllowed
  <2>3. executed' \subseteq ProgramIds
    BY <1>2, <1>6 DEF TypeOK
  <2>4. tx' = tx /\ tx # None
    BY <1>2 DEF TypeOK
  <2>5. /\ public_state' \in [AccountIds -> Account] /\ programs' \subseteq ProgramIds
        /\ now' \in [block_id : 0..MaxTime, timestamp : 0..MaxTime]
        /\ tx' \in Transactions \cup {None} /\ applied' \subseteq Transactions
    BY <1>2 DEF TypeOK
  <2>6. QED
    BY <1>4, <2>1, <2>2, <2>3, <2>4, <2>5 DEF TypeOK
<1>12. UnownedAccountsAreEmpty' /\ NoncesOvertakeTyped'
  BY <1>2 DEF UnownedAccountsAreEmpty, NoncesOvertakeTyped, NoncesOvertake, TransactionIsValid
<1>13. QED
  BY <1>4, <1>10, <1>11, <1>12

\* Err leaves nothing of the chain, and the published state alone.
LEMMA IdleIInv ==
    ASSUME IInv, Idle, UNCHANGED <<public_state, programs, now, applied>>
    PROVE  IInv'
<1> USE DEF IInv, Idle
<1>1. TypeOK'
  BY InstanceTypes DEF TypeOK
<1>2. AuthorizationHasASource' /\ CallersRan' /\ DiffIsJustified'
  BY DEF AuthorizationHasASource, CallersRan, DiffIsJustified
<1>3. UnownedAccountsAreEmpty' /\ NoncesOvertakeTyped'
  BY DEF UnownedAccountsAreEmpty, NoncesOvertakeTyped, NoncesOvertake, TransactionIsValid
<1>4. QED
  BY <1>1, <1>2, <1>3

\* What a step of the state machine does to one published account: it leaves it
\* alone, or replaces it by the chain's account with the nonces bumped.
LEMMA CommitAccount ==
    ASSUME IInv, Commit, NEW a \in AccountIds
    PROVE  /\ tx \in Transactions /\ tx \in PublicTransaction
           /\ View(a) \in Account
           /\ Bumps(tx, a) \in Nat
           /\ public_state'[a] \in Account
           /\ public_state'[a].nonce = public_state[a].nonce + Bumps(tx, a)
           /\ public_state'[a].program_owner = View(a).program_owner
           /\ public_state'[a].balance = View(a).balance
           /\ public_state'[a].data = View(a).data
<1>1. tx \in Transactions /\ tx \in PublicTransaction
  BY InstanceTypes DEF IInv, TypeOK, Commit
<1>2. View(a) \in Account /\ View(a).nonce = public_state[a].nonce
  BY DEF IInv, TypeOK, View, DiffIsJustified
<1>3. Bumps(tx, a) \in Nat
  BY <1>1, BumpsType
<1>4. public_state'[a] = [View(a) EXCEPT !.nonce = @ + Bumps(tx, a)]
  BY DEF Commit, Applied, Bumps
<1>5. QED
  BY <1>1, <1>2, <1>3, <1>4 DEF Account

LEMMA CommitIInv ==
    ASSUME IInv, Commit
    PROVE  IInv'
<1>1. Idle /\ UNCHANGED <<programs, now>> /\ applied' = applied \cup {tx}
      /\ ModifiedDefaultsAreClaimed
  BY DEF Commit, DiffIsApplicable
<1>2. tx \in Transactions /\ tx \in PublicTransaction /\ TransactionIsValid(tx)
  BY InstanceTypes DEF IInv, TypeOK, Commit, NoncesOvertakeTyped, NoncesOvertake
<1>3. public_state' \in [AccountIds -> Account]
  <2>1. \A a \in AccountIds : public_state'[a] \in Account
    BY CommitAccount
  <2>2. public_state' = [a \in AccountIds |-> public_state'[a]]
    BY DEF Commit, Applied
  <2>3. QED
    BY <2>1, <2>2
<1>4. TypeOK'
  BY <1>1, <1>2, <1>3, InstanceTypes DEF IInv, TypeOK, Idle
<1>5. AuthorizationHasASource' /\ CallersRan' /\ DiffIsJustified'
  BY <1>1 DEF Idle, AuthorizationHasASource, CallersRan, DiffIsJustified
<1>6. UnownedAccountsAreEmpty'
  <2> SUFFICES ASSUME NEW a \in AccountIds,
                      public_state'[a].program_owner = DEFAULT_PROGRAM_ID
               PROVE  public_state'[a].balance = 0 /\ public_state'[a].data = NoData
    BY DEF UnownedAccountsAreEmpty
  <2>1. View(a).program_owner = DEFAULT_PROGRAM_ID
    BY CommitAccount
  <2>2. View(a) = public_state[a]
    BY <1>1, <2>1 DEF View, ModifiedDefaultsAreClaimed, IInv, DiffIsJustified
  <2>3. View(a).balance = 0 /\ View(a).data = NoData
    BY <2>1, <2>2 DEF IInv, UnownedAccountsAreEmpty
  <2>4. QED
    BY <2>3, CommitAccount
<1>7. NoncesOvertakeTyped'
  <2>1. ASSUME NEW t \in applied, t.signers # <<>>
        PROVE  t.nonces[1] < public_state'[t.signers[1]].nonce
    <3>1. t \in PublicTransaction /\ t.nonces[1] < public_state[t.signers[1]].nonce
          /\ Len(t.nonces) = Len(t.signers)
      BY <2>1, InstanceTypes DEF IInv, TypeOK, NoncesOvertakeTyped, NoncesOvertake
    <3>2. t.signers[1] \in AccountIds /\ t.nonces[1] \in Nat
      BY <2>1, <3>1 DEF PublicTransaction
    <3>3. public_state[t.signers[1]].nonce \in Nat
      BY <3>2 DEF IInv, TypeOK, Account
    <3>4. QED
      BY <3>1, <3>2, <3>3, CommitAccount
  <2>2. ASSUME tx.signers # <<>>
        PROVE  tx.nonces[1] < public_state'[tx.signers[1]].nonce
    <3>1. /\ 1 \in DOMAIN tx.signers /\ tx.signers[1] \in AccountIds
      BY <1>2, <2>2 DEF PublicTransaction
    <3>2. tx.signers[1] \in SignerSet(tx)
      BY <3>1 DEF SignerSet
    <3>3. Bumps(tx, tx.signers[1]) > 0 /\ Bumps(tx, tx.signers[1]) \in Nat
      BY <1>2, <3>1, <3>2, BumpsType
    <3>4. public_state[tx.signers[1]].nonce = tx.nonces[1]
      BY <1>2, <3>1 DEF TransactionIsValid
    <3>5. public_state[tx.signers[1]].nonce \in Nat
      BY <3>1 DEF IInv, TypeOK, Account
    <3>6. QED
      BY <3>1, <3>3, <3>4, <3>5, CommitAccount
  <2>3. tx' = None
    BY <1>1 DEF Idle
  <2>4. \A t \in applied' : Len(t.nonces) = Len(t.signers)
    BY <1>1, <1>2 DEF IInv, NoncesOvertakeTyped, TransactionIsValid
  <2>5. QED
    BY <1>1, <2>1, <2>2, <2>3, <2>4 DEF NoncesOvertakeTyped, NoncesOvertake
<1>8. QED
  BY <1>4, <1>5, <1>6, <1>7 DEF IInv

LEMMA OtherIInv ==
    ASSUME IInv, NextBlock \/ (\E p \in ProgramIds : Deploy(p)) \/ UNCHANGED vars
    PROVE  IInv'
<1>1. /\ UNCHANGED <<public_state, runVars, applied>>
      /\ programs' \subseteq ProgramIds
      /\ now' \in [block_id : 0..MaxTime, timestamp : 0..MaxTime]
  <2>1. CASE NextBlock
    BY <2>1, ConstantTypes DEF NextBlock, IInv, TypeOK
  <2>2. CASE \E p \in ProgramIds : Deploy(p)
    BY <2>2 DEF Deploy, IInv, TypeOK
  <2>3. CASE UNCHANGED vars
    BY <2>3 DEF vars, IInv, TypeOK
  <2>4. QED
    BY <2>1, <2>2, <2>3
<1>2. TypeOK'
  BY <1>1 DEF IInv, TypeOK, runVars
<1>3. UNCHANGED <<public_state, tx, state_diff, chained_calls, executed, applied>>
  BY <1>1 DEF runVars
<1>4. CallersRan' /\ UnownedAccountsAreEmpty'
  BY <1>3 DEF IInv, CallersRan, UnownedAccountsAreEmpty
<1>5. Sources(tx)' = Sources(tx)
  BY <1>3 DEF Sources
<1>6. AuthorizationHasASource'
  BY <1>3, <1>5 DEF IInv, AuthorizationHasASource
<1>7. DiffIsJustified'
  BY <1>3, <1>5 DEF IInv, DiffIsJustified
<1>8. NoncesOvertakeTyped'
  BY <1>3 DEF IInv, NoncesOvertakeTyped, NoncesOvertake, TransactionIsValid
<1>9. QED
  BY <1>2, <1>4, <1>6, <1>7, <1>8 DEF IInv

LEMMA NextIInv == IInv /\ [Next]_vars => IInv'
<1> SUFFICES ASSUME IInv, [Next]_vars PROVE IInv'
  OBVIOUS
<1>1. CASE \E t \in Transactions : Begin(t)
  BY <1>1, BeginIInv
<1>2. CASE RunCall
  BY <1>2, RunCallIInv
<1>3. CASE FailCall
  BY <1>3, IdleIInv DEF FailCall
<1>4. CASE Commit
  BY <1>4, CommitIInv
<1>5. CASE FailCommit
  BY <1>5, IdleIInv DEF FailCommit
<1>6. CASE NextBlock \/ (\E p \in ProgramIds : Deploy(p)) \/ UNCHANGED vars
  BY <1>6, OtherIInv
<1>7. QED
  BY <1>1, <1>2, <1>3, <1>4, <1>5, <1>6 DEF Next

LEMMA SpecIInv == Spec => []IInv
<1>1. QED
  BY InitIInv, NextIInv, PTL DEF Spec

-----------------------------------------------------------------------------
\* The state keeps its type whatever programs journal: an output is checked
\* before anything of it is stored.
THEOREM TypeCorrect == Spec => []TypeOK
<1>1. IInv => TypeOK
  BY DEF IInv
<1>2. QED
  BY <1>1, SpecIInv, PTL

\* No program, chain or transaction can publish an account that has balance or
\* data and no owner (rule 7 of validate_execution with the final claim check).
THEOREM UnownedAreEmpty == Spec => []UnownedAccountsAreEmpty
<1>1. IInv => UnownedAccountsAreEmpty
  BY DEF IInv
<1>2. QED
  BY <1>1, SpecIInv, PTL

\* Authorization of a pending call comes from a signature or from a PDA of a
\* program that ran in the transaction.
THEOREM AuthorizationSourced == Spec => []AuthorizationHasASource
<1>1. IInv => AuthorizationHasASource
  BY DEF IInv
<1>2. QED
  BY <1>1, SpecIInv, PTL

\* The nonce check of from_public_transaction with the bump of
\* apply_state_diff: a signed transaction is never applied a second time.
THEOREM AppliedOnce == Spec => []SignedTransactionsAreAppliedOnce
<1>1. IInv => SignedTransactionsAreAppliedOnce
  <2> SUFFICES ASSUME IInv, NEW t \in applied, t.signers # <<>>, TransactionIsValid(t)
               PROVE  FALSE
    BY DEF SignedTransactionsAreAppliedOnce
  <2>1. t \in PublicTransaction
    BY InstanceTypes DEF IInv, TypeOK
  <2>2. 1 \in DOMAIN t.signers /\ t.signers[1] \in AccountIds
    BY <2>1 DEF PublicTransaction
  <2>3. public_state[t.signers[1]].nonce = t.nonces[1]
    BY <2>2 DEF TransactionIsValid
  <2>4. t.nonces[1] < public_state[t.signers[1]].nonce
    BY DEF IInv, NoncesOvertakeTyped, NoncesOvertake
  <2>5. public_state[t.signers[1]].nonce \in Nat
    BY <2>2 DEF IInv, TypeOK, Account
  <2>6. QED
    BY <2>3, <2>4, <2>5
<1>2. QED
  BY <1>1, SpecIInv, PTL

\* A step either leaves the published accounts alone or is a commit.
LEMMA OnlyCommitPublishes ==
    ASSUME [Next]_vars, ~Commit
    PROVE  UNCHANGED public_state
  BY Zenon DEF Next, Begin, RunCall, FailCall, FailCommit, Deploy, NextBlock, vars

\* What a commit does to an account, in terms of what it was before.
LEMMA CommitIsJustified ==
    ASSUME IInv, Commit, NEW a \in AccountIds
    PROVE  /\ public_state[a].program_owner # DEFAULT_PROGRAM_ID =>
                 public_state'[a].program_owner = public_state[a].program_owner
           /\ public_state'[a].program_owner # public_state[a].program_owner =>
                 a \in Sources(tx)
           /\ \/ public_state'[a].balance < public_state[a].balance
              \/ public_state'[a].data # public_state[a].data /\ public_state[a].data # NoData
              => public_state[a].program_owner \in executed
<1>1. public_state[a].balance \in Nat
  <2>1. public_state[a] \in Account
    BY DEF IInv, TypeOK
  <2>2. QED
    BY ONLY <2>1, BalanceType
<1>a. /\ public_state'[a].program_owner = View(a).program_owner
      /\ public_state'[a].balance = View(a).balance
      /\ public_state'[a].data = View(a).data
  BY CommitAccount
<1>2. CASE a \in DOMAIN state_diff
  BY <1>2, <1>a DEF IInv, DiffIsJustified, View
<1>3. CASE a \notin DOMAIN state_diff
  <2>1. View(a) = public_state[a]
    BY <1>3 DEF View
  <2>2. QED
    BY <1>1, <1>a, <2>1
<1>4. QED
  BY <1>2, <1>3

\* An owner is never replaced.
THEOREM OwnersForever == Spec => OwnersAreForever
<1>1. IInv /\ [Next]_vars =>
        [\A a \in AccountIds :
           public_state[a].program_owner # DEFAULT_PROGRAM_ID =>
               public_state'[a].program_owner = public_state[a].program_owner]_vars
  BY OnlyCommitPublishes, CommitIsJustified
<1>2. QED
  BY <1>1, SpecIInv, PTL DEF Spec, OwnersAreForever

\* An account gets an owner only by its own signature or as a PDA of a program
\* that ran.
THEOREM ClaimsSourced == Spec => ClaimsHaveASource
<1>1. IInv /\ [Next]_vars =>
        [\A a \in AccountIds :
           public_state'[a].program_owner # public_state[a].program_owner =>
               a \in Sources(tx)]_vars
  BY OnlyCommitPublishes, CommitIsJustified
<1>2. QED
  BY <1>1, SpecIInv, PTL DEF Spec, ClaimsHaveASource

\* Balance is taken and data rewritten only with the account's owner running.
THEOREM OwnerTakes == Spec => OnlyTheOwnerTakes
<1>1. IInv /\ [Next]_vars =>
        [\A a \in AccountIds :
           \/ public_state'[a].balance < public_state[a].balance
           \/ public_state'[a].data # public_state[a].data /\ public_state[a].data # NoData
           => public_state[a].program_owner \in executed]_vars
  <2> SUFFICES ASSUME IInv, [Next]_vars, NEW a \in AccountIds,
                      \/ public_state'[a].balance < public_state[a].balance
                      \/ /\ public_state'[a].data # public_state[a].data
                         /\ public_state[a].data # NoData
               PROVE  public_state[a].program_owner \in executed
    OBVIOUS
  <2>1. public_state[a].balance \in Nat
    <3>1. public_state[a] \in Account
      BY DEF IInv, TypeOK
    <3>2. QED
      BY ONLY <3>1, BalanceType
  <2>2. Commit
    BY <2>1, OnlyCommitPublishes
  <2>3. QED
    BY <2>2, CommitIsJustified
<1>2. QED
  BY <1>1, SpecIInv, PTL DEF Spec, OnlyTheOwnerTakes

-----------------------------------------------------------------------------
(* Balance.  A failed transaction drops its diff, so the published accounts *)
(* have to carry the genesis total as well as the accounts the chain shows. *)

Shown == [a \in AccountIds |-> View(a).balance]
Published == [a \in AccountIds |-> public_state[a].balance]
Given == [a \in AccountIds |-> GenesisAccounts[a].balance]

BalanceInv ==
    /\ SumFunctionOnSet(Shown, AccountIds) = SumFunctionOnSet(Given, AccountIds)
    /\ SumFunctionOnSet(Published, AccountIds) = SumFunctionOnSet(Given, AccountIds)

\* What accounts show are numbers, also in the midst of a chain.
LEMMA ShownAreNumbers ==
    ASSUME TypeOK
    PROVE  Numbers(Shown, AccountIds)
<1> SUFFICES ASSUME NEW a \in AccountIds PROVE View(a).balance \in Int
  BY DEF Numbers, Shown
<1>1. View(a) \in Account
  BY DEF TypeOK, View
<1>2. View(a).balance \in Nat
  BY ONLY <1>1, BalanceType
<1> QED
  BY <1>2

LEMMA ShownAreNumbersNext ==
    ASSUME TypeOK'
    PROVE  Numbers(Shown', AccountIds)
<1> SUFFICES ASSUME NEW a \in AccountIds PROVE View(a)'.balance \in Int
  BY DEF Numbers, Shown
<1>1. View(a)' \in Account
  BY DEF TypeOK, View
<1>2. View(a)'.balance \in Nat
  BY ONLY <1>1, BalanceType
<1> QED
  BY <1>2

\* A call that passes validate_execution moves balance among its accounts only.
LEMMA WrittenConserves ==
    ASSUME IInv, TypeOK', UNCHANGED public_state,
           NEW out \in ProgramOutput, NEW frame, NEW p,
           OutputIsValid(frame, out), p = frame.call.program_id,
           state_diff' = Written(out, p)
    PROVE  SumFunctionOnSet(Shown', AccountIds) = SumFunctionOnSet(Shown, AccountIds)
<1> DEFINE pres == out.pre_states
           posts == out.post_states
           D == DOMAIN pres
           x == [i \in DOMAIN pres |-> pres[i].account.balance]
           y == [i \in DOMAIN posts |-> posts[i].account.balance]
           h == [i \in D |-> pres[i].account_id]
<1>1. /\ pres \in Seq(PreState) /\ posts \in Seq(PostState)
      /\ Len(pres) = Len(posts) /\ UniqueIds(pres)
      /\ TotalBalance(pres) = TotalBalance(posts)
      /\ \A i \in D : pres[i].account = View(pres[i].account_id)
  BY DEF ProgramOutput, OutputIsValid, ValidateExecution, PreStatesAreGenuine
<1>2. /\ D = 1..Len(pres) /\ DOMAIN posts = D /\ Len(pres) \in Nat
      /\ \A i \in D : pres[i] \in PreState /\ posts[i] \in PostState
  BY <1>1
<1>3. IsFiniteSet(D) /\ IsFiniteSet(AccountIds)
  BY <1>2, FS_Interval, ConstantTypes
<1>4. SumFunctionOnSet(x, D) = SumFunctionOnSet(y, D)
  BY <1>1, <1>2 DEF TotalBalance, SumFunction
<1>5. ASSUME NEW i \in D
      PROVE  h[i] \in AccountIds /\ x[i] = Shown[h[i]] /\ y[i] = Shown'[h[i]]
  <2>1. /\ pres[i].account_id \in AccountIds /\ posts[i].account \in Account
        /\ pres[i].account = View(pres[i].account_id)
    BY <1>1, <1>2 DEF PreState, PostState
  <2> DEFINE a == pres[i].account_id
  <2>2. a \in Ids(pres) /\ \A k \in D : pres[k].account_id = a => k = i
    BY <1>1 DEF Ids, UniqueIds
  <2>3. (CHOOSE k \in DOMAIN out.pre_states : out.pre_states[k].account_id = a) = i
    BY <2>2
  <2>4. a \in DOMAIN state_diff' /\ state_diff'[a] = Claimed(posts[i], p)
    BY <2>2, <2>3 DEF Written
  <2>5. Claimed(posts[i], p).balance = posts[i].account.balance
    BY <2>1 DEF Claimed, Account
  <2>6. View(a)' = state_diff'[a]
    BY <2>4 DEF View
  <2> QED
    BY <1>2, <2>1, <2>4, <2>5, <2>6 DEF Shown
<1>6. \A i, j \in D : h[i] = h[j] => i = j
  BY <1>1 DEF UniqueIds
<1>7. ASSUME NEW a \in AccountIds, \A i \in D : h[i] # a
      PROVE  Shown[a] = Shown'[a]
  <2>1. a \notin Ids(pres)
    BY Zenon, <1>7 DEF Ids
  <2>2. View(a)' = View(a)
    BY <2>1 DEF View, Written
  <2> QED
    BY <2>2 DEF Shown
<1>8. Numbers(Shown, AccountIds) /\ Numbers(Shown', AccountIds)
  BY ShownAreNumbers, ShownAreNumbersNext DEF IInv
<1> DEFINE f == Shown
           g == Shown'
<1> HIDE DEF x, y, h, D, f, g
<1>9. /\ Moved(AccountIds, f, g, D, h, x, y)
      /\ Numbers(f, AccountIds) /\ Numbers(g, AccountIds)
  BY <1>5, <1>6, <1>7, <1>8 DEF f, g, Moved
<1>10. /\ SumFunctionOnSet(f, AccountIds) \in Int /\ SumFunctionOnSet(x, D) \in Int
       /\ SumFunctionOnSet(g, AccountIds)
          = SumFunctionOnSet(f, AccountIds) + (SumFunctionOnSet(y, D) - SumFunctionOnSet(x, D))
  BY <1>3, <1>9, SumMoved
<1>11. PICK a, b \in Int : a = SumFunctionOnSet(f, AccountIds) /\ b = SumFunctionOnSet(x, D)
  BY <1>10
<1>12. a + (b - b) = a
  BY <1>11
<1>13. SumFunctionOnSet(g, AccountIds) = a + (b - b)
  BY <1>4, <1>10, <1>11
<1> QED
  BY <1>11, <1>12, <1>13 DEF f, g

LEMMA InitBalance == Init => BalanceInv
<1> SUFFICES ASSUME Init PROVE Shown = Given /\ Published = Given
  BY DEF BalanceInv
<1> QED
  BY DEF Init, Shown, Published, Given, View

\* Without a diff the accounts show what is published.
LEMMA IdleShows ==
    ASSUME Idle
    PROVE  Shown' = Published'
  BY DEF Idle, Shown, Published, View

LEMMA NextBalance ==
    ASSUME IInv, BalanceInv, [Next]_vars
    PROVE  BalanceInv'
<1> USE DEF BalanceInv
<1>t. TypeOK'
  BY NextIInv DEF IInv
<1>g. Given' = Given
  BY DEF Given
<1>1. CASE UNCHANGED <<public_state, state_diff>>
  BY <1>1, <1>g DEF Shown, Published, View
<1>2. CASE RunCall
  <2>1. PICK out \in Outputs(Head(chained_calls)) :
           /\ OutputIsValid(Head(chained_calls), out)
           /\ state_diff' = Written(out, Head(chained_calls).call.program_id)
    BY <1>2 DEF RunCall
  <2>2. out \in ProgramOutput /\ UNCHANGED public_state
    BY <1>2, <2>1 DEF OutputIsValid, RunCall
  <2>3. SumFunctionOnSet(Shown', AccountIds) = SumFunctionOnSet(Shown, AccountIds)
    BY <1>t, <2>1, <2>2, WrittenConserves
  <2>4. Published' = Published
    BY <2>2 DEF Published
  <2> QED
    BY <1>g, <2>3, <2>4
<1>3. CASE FailCall \/ FailCommit
  <2>1. Idle /\ UNCHANGED public_state
    BY <1>3 DEF FailCall, FailCommit
  <2>2. Published' = Published
    BY <2>1 DEF Published
  <2> QED
    BY <1>g, <2>1, <2>2, IdleShows
<1>4. CASE Commit
  <2>1. Published' = Shown
    BY <1>4, CommitAccount DEF Published, Shown
  <2>2. Idle
    BY <1>4 DEF Commit
  <2> QED
    BY <1>g, <2>1, <2>2, IdleShows
<1> QED
  BY <1>1, <1>2, <1>3, <1>4 DEF Next, Begin, Deploy, NextBlock, vars, runVars

\* validate_execution compares totals call by call; no chain of calls, valid or
\* given up half way, makes or loses native balance.
THEOREM BalanceConserved == Spec => []BalanceIsConserved
<1>1. BalanceInv => BalanceIsConserved
  BY DEF BalanceInv, BalanceIsConserved, SumFunction, Shown, Given
<1>2. Init => BalanceInv
  BY InitBalance
<1>3. IInv /\ BalanceInv /\ [Next]_vars => BalanceInv'
  BY NextBalance
<1> QED
  BY <1>1, <1>2, <1>3, SpecIInv, PTL DEF Spec
=============================================================================
