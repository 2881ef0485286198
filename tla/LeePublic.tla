------------------------------ MODULE LeePublic ------------------------------
(***************************************************************************)
(* The public half of the LEE state machine: ValidatedStateDiff::          *)
(* from_public_transaction runs a transaction as a chain of program calls  *)
(* over a private diff, and V03State::apply_state_diff publishes the diff. *)
(* Programs are arbitrary: Execute(program, caller, pre_states,            *)
(* instruction) is the set of outputs a run of the guest can journal, and  *)
(* the empty set when the guest panics.                                    *)
(***************************************************************************)
EXTENDS LeeProgram

CONSTANTS
    Execute(_, _, _, _),       \* Program::execute
    Admissible(_, _, _, _),    \* the layer above: may this diff be applied?
    Transactions,              \* public transactions users may submit
    GenesisAccounts,           \* public state after genesis
    GenesisPrograms,           \* programs deployed at genesis
    MAX_NUMBER_CHAINED_CALLS,
    MaxNonce,                  \* bound of the instance on account nonces
    MaxApplied                 \* bound of the instance on applied transactions

VARIABLES
    public_state,         \* V03State.public_state, total: absent is default
    programs,             \* ids in V03State.programs
    now,                  \* block id and timestamp of the block being built
    tx,                   \* the transaction being executed, None when idle
    state_diff,           \* its accumulated writes
    chained_calls,        \* calls still to run, with the data of their caller
    chain_calls_counter,
    executed,             \* history: programs run so far for tx
    applied               \* history: transactions applied so far

runVars == <<tx, state_diff, chained_calls, chain_calls_counter, executed>>
vars == <<public_state, programs, now, runVars, applied>>

\* A transaction with its TransactionOrigin, which only Admissible looks at.
PublicTransaction ==
    [origin : {"User", "Sequencer"}, program_id : Owners,
     account_ids : Seq(AccountIds), signers : Seq(AccountIds), nonces : Seq(Nat),
     instruction : Instructions]

Frame == [call : ChainedCall, caller : ProgramIds \cup {None},
          authorized : SUBSET AccountIds]

\* The genesis state gives every non-empty account an owner.
ASSUME InstanceTypes ==
    /\ Transactions \subseteq PublicTransaction
    /\ None \notin Transactions
    /\ GenesisAccounts \in [AccountIds -> Account]
    /\ \A a \in AccountIds :
          GenesisAccounts[a].program_owner = DEFAULT_PROGRAM_ID =>
              GenesisAccounts[a] = DefaultAccount
    /\ GenesisPrograms \subseteq ProgramIds
    /\ MAX_NUMBER_CHAINED_CALLS \in Nat
    /\ MaxNonce \in Nat
    /\ MaxApplied \in Nat

SignerSet(t) == {t.signers[i] : i \in DOMAIN t.signers}

\* What a call sees: the diff of the chain laid over the public state.
View(a) == IF a \in DOMAIN state_diff THEN state_diff[a] ELSE public_state[a]

-----------------------------------------------------------------------------
\* Mutant of Idle: the counter of the finished chain is kept.
IdleKeepsCounter ==
    /\ tx' = None
    /\ state_diff' = [a \in {} |-> DefaultAccount]
    /\ chained_calls' = <<>>
    /\ UNCHANGED chain_calls_counter
    /\ executed' = {}

Idle ==
    /\ tx' = None
    /\ state_diff' = [a \in {} |-> DefaultAccount]
    /\ chained_calls' = <<>>
    /\ chain_calls_counter' = 0
    /\ executed' = {}

Init ==
    /\ public_state = GenesisAccounts
    /\ programs = GenesisPrograms
    /\ now = [block_id |-> 0, timestamp |-> 0]
    /\ tx = None
    /\ state_diff = [a \in {} |-> DefaultAccount]
    /\ chained_calls = <<>>
    /\ chain_calls_counter = 0
    /\ executed = {}
    /\ applied = {}

\* The checks before the first call.
TransactionIsValid(t) ==
    /\ \A i, j \in DOMAIN t.account_ids : t.account_ids[i] = t.account_ids[j] => i = j
    /\ Len(t.nonces) = Len(t.signers)
    /\ \A i \in DOMAIN t.signers : public_state[t.signers[i]].nonce = t.nonces[i]

InitialFrame(t) ==
    [call |-> [program_id  |-> t.program_id,
               pre_states  |-> [i \in DOMAIN t.account_ids |->
                                  [account_id    |-> t.account_ids[i],
                                   account       |-> public_state[t.account_ids[i]],
                                   is_authorized |-> t.account_ids[i] \in SignerSet(t)]],
               instruction |-> t.instruction,
               pda_seeds   |-> {}],
     caller |-> None,
     authorized |-> SignerSet(t)]

\* Nothing happens to a transaction that fails the first checks.
Begin(t) ==
    /\ tx = None
    /\ TransactionIsValid(t)
    /\ Cardinality(applied) < MaxApplied
    /\ \A a \in SignerSet(t) : public_state[a].nonce + Len(t.signers) <= MaxNonce
    /\ tx' = t
    /\ chained_calls' = <<InitialFrame(t)>>
    /\ UNCHANGED <<public_state, programs, now, state_diff, chain_calls_counter,
                   executed, applied>>

-----------------------------------------------------------------------------
Outputs(frame) ==
    Execute(frame.call.program_id, frame.caller, frame.call.pre_states,
            frame.call.instruction)

Authorized(frame, a) ==
    a \in AuthorizedPdas(frame.caller, frame.call.pda_seeds) \cup frame.authorized

\* Mutant of PreStatesAreGenuine: a program's word is taken for the accounts.
PreStatesAreMarked(frame, out) ==
    \A i \in DOMAIN out.pre_states :
        LET pre == out.pre_states[i] IN
        pre.is_authorized <=> Authorized(frame, pre.account_id)

\* Mutant of PreStatesAreGenuine: a program's word is taken for the marks.
PreStatesAreCurrent(frame, out) ==
    \A i \in DOMAIN out.pre_states :
        out.pre_states[i].account = View(out.pre_states[i].account_id)

\* Pre states must be the accounts as the chain left them, marked authorized
\* exactly when they are.
PreStatesAreGenuine(frame, out) ==
    \A i \in DOMAIN out.pre_states :
        LET pre == out.pre_states[i] IN
        /\ pre.account = View(pre.account_id)
        /\ pre.is_authorized <=> Authorized(frame, pre.account_id)

ClaimsAreValid(out, program) ==
    \A i \in DOMAIN out.post_states :
        ClaimIsValid(out.pre_states[i], out.post_states[i], program)

OutputIsValid(frame, out) ==
    /\ PreStatesAreGenuine(frame, out)
    /\ out.self_program_id = frame.call.program_id
    /\ out.caller_program_id = frame.caller
    /\ ValidateExecution(out.pre_states, out.post_states, frame.call.program_id)
    /\ IsValidFor(out.block_window, now.block_id)
    /\ IsValidFor(out.timestamp_window, now.timestamp)
    /\ ClaimsAreValid(out, frame.call.program_id)
    /\ out \in ProgramOutput    \* the journal decodes

CallIsAllowed(frame) ==
    /\ chain_calls_counter <= MAX_NUMBER_CHAINED_CALLS
    /\ frame.call.program_id \in programs

\* The diff after a call; ids are unique, so one position speaks for each.
Written(out, program) ==
    [a \in DOMAIN state_diff \cup Ids(out.pre_states) |->
        IF a \in Ids(out.pre_states)
        THEN LET i == CHOOSE k \in DOMAIN out.pre_states :
                          out.pre_states[k].account_id = a
             IN  Claimed(out.post_states[i], program)
        ELSE state_diff[a]]

\* Mutant of AuthorizedAfter: the marks of the caller's own pre states count.
AuthorizedAfterByCaller(frame, out) ==
    frame.authorized \cup
    {a \in AccountIds : \E i \in DOMAIN frame.call.pre_states :
        /\ frame.call.pre_states[i].account_id = a
        /\ frame.call.pre_states[i].is_authorized}

\* Authorization only grows along the chain.
AuthorizedAfter(frame, out) ==
    frame.authorized \cup
    {a \in AccountIds : \E i \in DOMAIN out.pre_states :
        out.pre_states[i].account_id = a /\ out.pre_states[i].is_authorized}

NewFrames(frame, out) ==
    [i \in DOMAIN out.chained_calls |->
        [call |-> out.chained_calls[i], caller |-> frame.call.program_id,
         authorized |-> AuthorizedAfter(frame, out)]]

\* Mutant of NextCounter: the increment is forgotten.
SameCounter == chain_calls_counter

NextCounter == chain_calls_counter + 1

\* One iteration of the loop: the first pending call runs and its own calls
\* go before the others.
RunCall ==
    /\ chained_calls # <<>>
    /\ LET frame == Head(chained_calls) IN
       /\ CallIsAllowed(frame)
       /\ \E out \in Outputs(frame) :
            /\ OutputIsValid(frame, out)
            /\ state_diff' = Written(out, frame.call.program_id)
            /\ chained_calls' = NewFrames(frame, out) \o Tail(chained_calls)
       /\ executed' = executed \cup {frame.call.program_id}
    /\ chain_calls_counter' = NextCounter
    /\ UNCHANGED <<public_state, programs, now, tx, applied>>

\* Any failing check returns Err: the diff is dropped with its transaction.
FailCall ==
    /\ chained_calls # <<>>
    /\ LET frame == Head(chained_calls) IN
       \/ ~CallIsAllowed(frame)
       \/ Outputs(frame) = {}
       \/ ~ \A out \in Outputs(frame) : OutputIsValid(frame, out)
    /\ Idle
    /\ UNCHANGED <<public_state, programs, now, applied>>

-----------------------------------------------------------------------------
\* Mutant of ModifiedDefaultsAreClaimed: only a written balance needs a claim.
ModifiedBalancesAreClaimed ==
    \A a \in DOMAIN state_diff :
        \/ public_state[a].program_owner # DEFAULT_PROGRAM_ID
        \/ public_state[a].balance = state_diff[a].balance
        \/ state_diff[a].program_owner # DEFAULT_PROGRAM_ID

\* Every account that was unowned and is written must have been claimed.
ModifiedDefaultsAreClaimed ==
    \A a \in DOMAIN state_diff :
        \/ public_state[a].program_owner # DEFAULT_PROGRAM_ID
        \/ public_state[a] = state_diff[a]
        \/ state_diff[a].program_owner # DEFAULT_PROGRAM_ID

DiffIsApplicable ==
    ModifiedDefaultsAreClaimed /\ Admissible(tx, public_state, state_diff, now)

\* Mutant of Applied: only accounts the programs touched get their new nonce.
AppliedToTouched(t) ==
    [a \in AccountIds |->
        IF a \in DOMAIN state_diff
        THEN [View(a) EXCEPT !.nonce =
                @ + Cardinality({i \in DOMAIN t.signers : t.signers[i] = a})]
        ELSE View(a)]

\* apply_state_diff: write the diff, then bump a nonce once per signature.
Applied(t) ==
    [a \in AccountIds |->
        [View(a) EXCEPT !.nonce =
            @ + Cardinality({i \in DOMAIN t.signers : t.signers[i] = a})]]

Commit ==
    /\ tx # None
    /\ chained_calls = <<>>
    /\ DiffIsApplicable
    /\ public_state' = Applied(tx)
    /\ applied' = applied \cup {tx}
    /\ Idle
    /\ UNCHANGED <<programs, now>>

FailCommit ==
    /\ tx # None
    /\ chained_calls = <<>>
    /\ ~DiffIsApplicable
    /\ Idle
    /\ UNCHANGED <<public_state, programs, now, applied>>

\* from_program_deployment_transaction: a deployed program is never replaced.
Deploy(p) ==
    /\ tx = None
    /\ p \notin programs
    /\ programs' = programs \cup {p}
    /\ UNCHANGED <<public_state, now, runVars, applied>>

\* The sequencer opens the next block, stamped with the wall clock, which may
\* stand still or step back.
NextBlock ==
    /\ tx = None
    /\ now.block_id < MaxTime
    /\ \E ts \in 0..MaxTime :
          now' = [block_id |-> now.block_id + 1, timestamp |-> ts]
    /\ UNCHANGED <<public_state, programs, runVars, applied>>

Next ==
    \/ \E t \in Transactions : Begin(t)
    \/ RunCall
    \/ FailCall
    \/ Commit
    \/ FailCommit
    \/ \E p \in ProgramIds : Deploy(p)
    \/ NextBlock

\* The loop runs to its end in one thread once a transaction is taken.
Fairness == WF_vars(RunCall \/ FailCall) /\ WF_vars(Commit \/ FailCommit)

Spec == Init /\ [][Next]_vars /\ Fairness
-----------------------------------------------------------------------------
\* Types of the state; between transactions nothing of the last one is left.
TypeOK ==
    /\ public_state \in [AccountIds -> Account]
    /\ programs \subseteq ProgramIds
    /\ now \in [block_id : 0..MaxTime, timestamp : 0..MaxTime]
    /\ tx \in Transactions \cup {None}
    /\ DOMAIN state_diff \subseteq AccountIds
    /\ \A a \in DOMAIN state_diff : state_diff[a] \in Account
    /\ chained_calls \in Seq(Frame)
    /\ chain_calls_counter \in 0..(MAX_NUMBER_CHAINED_CALLS + 1)
    /\ executed \subseteq ProgramIds
    /\ applied \subseteq Transactions
    /\ tx = None => /\ DOMAIN state_diff = {} /\ executed = {}
                    /\ chained_calls = <<>> /\ chain_calls_counter = 0

\* An account nobody owns holds no balance and no data.  Every program may add
\* balance to an unowned account and write its data while the chain runs, and
\* the chain may unwind in any order; rule 7 of validate_execution and the
\* final claim check together must keep such an account from being published,
\* where rule 7 would lock its balance in for good.
UnownedAccountsAreEmpty ==
    \A a \in AccountIds :
        public_state[a].program_owner = DEFAULT_PROGRAM_ID =>
            public_state[a].balance = 0 /\ public_state[a].data = NoData

\* Native balance is neither created nor destroyed, at any point of a chain in
\* which programs leave accounts out, hand each other accounts as they were
\* before their own write, or with a balance they made up: only the comparison
\* with the state of the chain and the rule on totals stand against that.
BalanceIsConserved ==
    SumFunction([a \in AccountIds |-> View(a).balance])
        = SumFunction([a \in AccountIds |-> GenesisAccounts[a].balance])

\* The programs whose PDAs the chain can have authorized are those it ran.
Sources(t) == SignerSet(t) \cup {PdaOf(p, s) : p \in executed, s \in Seeds}

\* Authorization, once given, is inherited by every later call, so it must
\* never start anywhere but at a signature or at a PDA of a program that ran.
AuthorizationHasASource ==
    \A i \in DOMAIN chained_calls : chained_calls[i].authorized \subseteq Sources(tx)

\* An owner is never replaced, whatever chain of claims programs attempt.
OwnersAreForever ==
    [][\A a \in AccountIds :
          public_state[a].program_owner # DEFAULT_PROGRAM_ID =>
              public_state'[a].program_owner = public_state[a].program_owner]_vars

\* An unowned account is claimed only when it signed or is a PDA of a program
\* the transaction ran.
ClaimsHaveASource ==
    [][\A a \in AccountIds :
          public_state'[a].program_owner # public_state[a].program_owner =>
              a \in Sources(tx)]_vars

\* A transaction lowers a balance or rewrites data that was there before only
\* if the account's owner was one of the programs it ran.
OnlyTheOwnerTakes ==
    [][\A a \in AccountIds :
          \/ public_state'[a].balance < public_state[a].balance
          \/ public_state'[a].data # public_state[a].data /\ public_state[a].data # NoData
          => public_state[a].program_owner \in executed]_vars

\* A signed transaction is applied at most once: each application leaves a
\* signer's nonce above the one the transaction carries, for good.
SignedTransactionsAreAppliedOnce ==
    \A t \in applied : t.signers # <<>> => ~TransactionIsValid(t)

\* Every transaction taken is finished, although programs may call each other
\* in circles.
TransactionsEnd == tx # None ~> tx = None
=============================================================================
