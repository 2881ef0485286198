----------------------------- MODULE LeeProgram -----------------------------
(***************************************************************************)
(* Accounts, program outputs and the rules every program execution is held *)
(* to (lee/state_machine/core/src/{account,program}.rs).  No variables:    *)
(* LeePublic runs these rules along a chain of calls.                      *)
(*                                                                         *)
(* Identifiers, instructions and account data are opaque values; balances  *)
(* keep their upper bound (u128::MAX is MaxBalance); the account id hashed *)
(* from a program and a seed is PdaOf(program, seed).                      *)
(***************************************************************************)
EXTENDS Integers, Sequences, FiniteSets, FiniteSetsExt

CONSTANTS
    AccountIds,          \* account ids of the instance
    ProgramIds,          \* ids of programs that can ever be deployed
    DEFAULT_PROGRAM_ID,  \* the owner of an account nobody has claimed
    None,                \* Rust's Option::None
    Data, NoData,        \* account payloads and the empty one
    Seeds,               \* PDA seeds
    PdaOf(_, _),         \* AccountId::for_public_pda(program, seed)
    Instructions,        \* serialized instructions
    MaxBalance,          \* u128::MAX
    MaxTime              \* largest block id or timestamp, Rust's u64::MAX

ASSUME ConstantTypes ==
    /\ IsFiniteSet(AccountIds)
    /\ DEFAULT_PROGRAM_ID \notin ProgramIds
    /\ None \notin ProgramIds
    /\ NoData \in Data
    /\ MaxBalance \in Nat
    /\ MaxTime \in Nat
    /\ \A p \in ProgramIds, s \in Seeds : PdaOf(p, s) \in AccountIds

Owners == ProgramIds \cup {DEFAULT_PROGRAM_ID}

Account == [program_owner : Owners, balance : 0..MaxBalance,
            data : Data, nonce : Nat]

DefaultAccount == [program_owner |-> DEFAULT_PROGRAM_ID, balance |-> 0,
                   data |-> NoData, nonce |-> 0]

PreState == [account_id : AccountIds, account : Account, is_authorized : BOOLEAN]

Claim == [kind : {"None", "Authorized"}] \cup [kind : {"Pda"}, seed : Seeds]

PostState == [account : Account, claim : Claim]

\* ValidityWindow; an absent bound is 0, respectively MaxTime + 1.
Window == [from : 0..MaxTime, to : 0..(MaxTime + 1)]

ChainedCall == [program_id : Owners, pre_states : Seq(PreState),
                instruction : Instructions, pda_seeds : SUBSET Seeds]

ProgramOutput == [self_program_id : ProgramIds,
                  caller_program_id : ProgramIds \cup {None},
                  pre_states : Seq(PreState), post_states : Seq(PostState),
                  chained_calls : Seq(ChainedCall),
                  block_window : Window, timestamp_window : Window]

-----------------------------------------------------------------------------
\* ValidityWindow::is_valid_for: the upper end is exclusive.
IsValidFor(window, value) == window.from <= value /\ value < window.to

\* compute_public_authorized_pdas: the seeds belong to the caller, and a
\* top-level call has none.
AuthorizedPdas(caller, seeds) ==
    IF caller = None THEN {} ELSE {PdaOf(caller, s) : s \in seeds}

Ids(pres) == {pres[i].account_id : i \in DOMAIN pres}

\* validate_uniqueness_of_account_ids.
UniqueIds(pres) ==
    \A i, j \in DOMAIN pres : pres[i].account_id = pres[j].account_id => i = j

TotalBalance(states) ==
    SumFunction([i \in DOMAIN states |-> states[i].account.balance])

\* Mutant of PairIsValid: the owner is not asked when balance decreases.
PairIsValidWithoutDebitRule(pre, post, program) ==
    /\ pre.nonce = post.nonce
    /\ pre.program_owner = post.program_owner
    /\ \/ pre.data = post.data
       \/ pre = DefaultAccount
       \/ pre.program_owner = program
    /\ post.program_owner = DEFAULT_PROGRAM_ID => pre = DefaultAccount

\* Rules 3 to 7 of validate_execution, for one account.
PairIsValid(pre, post, program) ==
    /\ pre.nonce = post.nonce
    /\ pre.program_owner = post.program_owner
    /\ post.balance < pre.balance => pre.program_owner = program
    /\ \/ pre.data = post.data
       \/ pre = DefaultAccount
       \/ pre.program_owner = program
    /\ post.program_owner = DEFAULT_PROGRAM_ID => pre = DefaultAccount

\* validate_execution.  The two-word sum of the code cannot overflow with
\* fewer than 2^128 accounts, so the exact sum stands for it.
ValidateExecution(pres, posts, program) ==
    /\ UniqueIds(pres)
    /\ Len(pres) = Len(posts)
    /\ \A i \in DOMAIN pres : PairIsValid(pres[i].account, posts[i].account, program)
    /\ TotalBalance(pres) = TotalBalance(posts)

\* Mutants of ClaimIsValid: an owned account can be claimed; a claim needs no
\* authorization.
ClaimIsValidOnOwned(pre, post, program) ==
    post.claim.kind # "None" =>
        /\ post.claim.kind = "Authorized" => pre.is_authorized
        /\ post.claim.kind = "Pda" => pre.account_id = PdaOf(program, post.claim.seed)

ClaimIsValidUnauthorized(pre, post, program) ==
    post.claim.kind # "None" =>
        /\ post.account.program_owner = DEFAULT_PROGRAM_ID
        /\ post.claim.kind = "Pda" => pre.account_id = PdaOf(program, post.claim.seed)

\* The claim a post state asks for is granted to the executing program.
ClaimIsValid(pre, post, program) ==
    post.claim.kind # "None" =>
        /\ post.account.program_owner = DEFAULT_PROGRAM_ID
        /\ post.claim.kind = "Authorized" => pre.is_authorized
        /\ post.claim.kind = "Pda" => pre.account_id = PdaOf(program, post.claim.seed)

\* The account written to the diff: a granted claim makes the program its owner.
Claimed(post, program) ==
    IF post.claim.kind = "None" THEN post.account
    ELSE [post.account EXCEPT !.program_owner = program]
=============================================================================
