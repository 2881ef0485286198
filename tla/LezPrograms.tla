----------------------------- MODULE LezPrograms -----------------------------
(***************************************************************************)
(* The system programs of the zone, as the outputs they journal, and the   *)
(* guard the zone puts on user transactions (lez/common/transaction.rs).   *)
(* A program is an operator from its inputs to the set of its outputs,     *)
(* empty when it panics; LezProgram is the Execute of LeePublic.           *)
(***************************************************************************)
EXTENDS LeeProgram, SequencesExt

CONSTANTS
    AUTH, VAULT, BRIDGE, FAUCET, CLOCK,     \* program ids
    Users,                                  \* account ids of key holders
    VaultSeed(_),                           \* compute_vault_seed(owner)
    BridgeSeed, FaucetSeed,
    ClockIds,                               \* the three clock accounts
    ClockIntervals                          \* <<1, 10, 50>> in the code

BridgeId == PdaOf(BRIDGE, BridgeSeed)
FaucetId == PdaOf(FAUCET, FaucetSeed)
VaultId(vault_program, owner) == PdaOf(vault_program, VaultSeed(owner))

AuthInstruction == [op : {"Initialize"}] \cup [op : {"Transfer"}, amount : 0..MaxBalance]

VaultInstruction ==
    [op : {"VaultTransfer"}, recipient_id : Users, amount : 0..MaxBalance]
    \cup [op : {"Claim"}, amount : 0..MaxBalance]

BridgeInstruction ==
    [op : {"Deposit"}, vault_program_id : ProgramIds, recipient_id : Users,
     amount : 0..MaxBalance]
    \cup [op : {"Withdraw"}, amount : 0..MaxBalance]

FaucetInstruction ==
    [op : {"GenesisTransferVault"}, vault_program_id : ProgramIds, recipient_id : Users,
     amount : 0..MaxBalance]
    \cup [op : {"GenesisTransferDirect"}, amount : 0..MaxBalance]

ClockInstruction == [op : {"Tick"}, timestamp : 0..MaxTime]

LezInstruction ==
    AuthInstruction \cup VaultInstruction \cup BridgeInstruction \cup FaucetInstruction
    \cup ClockInstruction

Unbounded == [from |-> 0, to |-> MaxTime + 1]

\* The one output of a run that does not panic.
Output(self, caller, pres, posts, calls) ==
    {[self_program_id |-> self, caller_program_id |-> caller, pre_states |-> pres,
      post_states |-> posts, chained_calls |-> calls,
      block_window |-> Unbounded, timestamp_window |-> Unbounded]}

Kept(account) == [account |-> account, claim |-> [kind |-> "None"]]

ClaimAuthorized(account) == [account |-> account, claim |-> [kind |-> "Authorized"]]

UnchangedPostStates(pres) == [i \in DOMAIN pres |-> Kept(pres[i].account)]

AuthorizedForCallee(pre) == [pre EXCEPT !.is_authorized = TRUE]

Call(program, pres, instruction, seeds) ==
    [program_id |-> program, pre_states |-> pres, instruction |-> instruction,
     pda_seeds |-> seeds]

TransferOf(n) == [op |-> "Transfer", amount |-> n]

VaultTransferOf(ins) ==
    [op |-> "VaultTransfer", recipient_id |-> ins.recipient_id, amount |-> ins.amount]

-----------------------------------------------------------------------------
Initialize(self, caller, pres) ==
    IF Len(pres) = 1 /\ pres[1].account = DefaultAccount
    THEN Output(self, caller, pres, <<ClaimAuthorized(pres[1].account)>>, <<>>)
    ELSE {}

\* Mutant of Transfer: the sender's authorization is not asserted.
TransferUnauthorized(self, caller, pres, amount) ==
    IF /\ Len(pres) = 2
       /\ amount <= pres[1].account.balance
       /\ pres[2].account.balance + amount <= MaxBalance
    THEN LET sender == [pres[1].account EXCEPT !.balance = @ - amount]
             recipient == [pres[2].account EXCEPT !.balance = @ + amount]
         IN  Output(self, caller, pres,
                    <<Kept(sender),
                      IF recipient.program_owner = DEFAULT_PROGRAM_ID
                      THEN ClaimAuthorized(recipient) ELSE Kept(recipient)>>, <<>>)
    ELSE {}

Transfer(self, caller, pres, amount) ==
    IF /\ Len(pres) = 2
       /\ pres[1].is_authorized
       /\ amount <= pres[1].account.balance
       /\ pres[2].account.balance + amount <= MaxBalance
    THEN LET sender == [pres[1].account EXCEPT !.balance = @ - amount]
             recipient == [pres[2].account EXCEPT !.balance = @ + amount]
         IN  Output(self, caller, pres,
                    <<Kept(sender),
                      IF recipient.program_owner = DEFAULT_PROGRAM_ID
                      THEN ClaimAuthorized(recipient) ELSE Kept(recipient)>>, <<>>)
    ELSE {}

AuthenticatedTransfer(self, caller, pres, ins) ==
    CASE ins.op = "Initialize" -> Initialize(self, caller, pres)
      [] ins.op = "Transfer"   -> Transfer(self, caller, pres, ins.amount)
      [] OTHER -> {}

\* The vault is authorized for the callee by its seed, whatever account it is:
\* the runtime rejects the call if the seed does not derive it.
VaultTransfer(self, caller, pres, ins) ==
    IF Len(pres) = 2
    THEN Output(self, caller, pres, UnchangedPostStates(pres),
           <<Call(pres[1].account.program_owner,
                  <<pres[1], AuthorizedForCallee(pres[2])>>,
                  TransferOf(ins.amount), {VaultSeed(ins.recipient_id)})>>)
    ELSE {}

VaultClaim(self, caller, pres, ins) ==
    IF Len(pres) = 2 /\ pres[1].is_authorized
    THEN Output(self, caller, pres, UnchangedPostStates(pres),
           <<Call(pres[2].account.program_owner,
                  <<AuthorizedForCallee(pres[2]), pres[1]>>,
                  TransferOf(ins.amount), {VaultSeed(pres[1].account_id)})>>)
    ELSE {}

Vault(self, caller, pres, ins) ==
    CASE ins.op = "VaultTransfer" -> VaultTransfer(self, caller, pres, ins)
      [] ins.op = "Claim"         -> VaultClaim(self, caller, pres, ins)
      [] OTHER -> {}

Deposit(self, caller, pres, ins) ==
    IF /\ caller = None
       /\ Len(pres) = 2
       /\ pres[1].account_id = PdaOf(self, BridgeSeed)
       /\ pres[2].account_id = VaultId(ins.vault_program_id, ins.recipient_id)
    THEN Output(self, caller, pres, UnchangedPostStates(pres),
           <<Call(ins.vault_program_id, <<AuthorizedForCallee(pres[1]), pres[2]>>,
                  VaultTransferOf(ins), {BridgeSeed})>>)
    ELSE {}

Withdraw(self, caller, pres, ins) ==
    IF /\ caller = None
       /\ Len(pres) = 2
       /\ pres[2].account_id = PdaOf(self, BridgeSeed)
       /\ pres[1].account.program_owner = pres[2].account.program_owner
    THEN Output(self, caller, pres, UnchangedPostStates(pres),
           <<Call(pres[2].account.program_owner, pres, TransferOf(ins.amount), {})>>)
    ELSE {}

Bridge(self, caller, pres, ins) ==
    CASE ins.op = "Deposit"  -> Deposit(self, caller, pres, ins)
      [] ins.op = "Withdraw" -> Withdraw(self, caller, pres, ins)
      [] OTHER -> {}

GenesisTransfer(self, caller, pres, program, instruction) ==
    IF /\ caller = None
       /\ Len(pres) = 2
       /\ pres[1].account_id = PdaOf(self, FaucetSeed)
    THEN Output(self, caller, pres, UnchangedPostStates(pres),
           <<Call(program, <<AuthorizedForCallee(pres[1]), pres[2]>>,
                  instruction, {FaucetSeed})>>)
    ELSE {}

Faucet(self, caller, pres, ins) ==
    CASE ins.op = "GenesisTransferVault" ->
           GenesisTransfer(self, caller, pres, ins.vault_program_id,
                           VaultTransferOf(ins))
      [] ins.op = "GenesisTransferDirect" /\ Len(pres) = 2 ->
           GenesisTransfer(self, caller, pres, pres[1].account.program_owner,
                           TransferOf(ins.amount))
      [] OTHER -> {}

\* Mutant of UpdateIfMultiple: the block before the multiple is taken.
UpdateIfNextIsMultiple(pre, divisor, block_id, data) ==
    IF (block_id + 1) % divisor = 0 THEN Kept([pre.account EXCEPT !.data = data])
    ELSE Kept(pre.account)

UpdateIfMultiple(pre, divisor, block_id, data) ==
    IF block_id % divisor = 0 THEN Kept([pre.account EXCEPT !.data = data])
    ELSE Kept(pre.account)

\* The clock counts its own runs: the id it writes is the last one plus one.
Clock(self, caller, pres, ins) ==
    IF /\ ins.op = "Tick"
       /\ Len(pres) = 3
       /\ \A i \in 1..3 : /\ pres[i].account_id = ClockIds[i]
                          /\ pres[i].account.program_owner = self
    THEN LET block_id == pres[1].account.data.block_id + 1
             updated == [block_id |-> block_id, timestamp |-> ins.timestamp]
         IN  Output(self, caller, pres,
               [i \in 1..3 |->
                  UpdateIfMultiple(pres[i], ClockIntervals[i], block_id, updated)], <<>>)
    ELSE {}

LezProgram(program, caller, pres, ins) ==
    CASE program = AUTH   -> AuthenticatedTransfer(program, caller, pres, ins)
      [] program = VAULT  -> Vault(program, caller, pres, ins)
      [] program = BRIDGE -> Bridge(program, caller, pres, ins)
      [] program = FAUCET -> Faucet(program, caller, pres, ins)
      [] program = CLOCK  -> Clock(program, caller, pres, ins)
      [] OTHER -> {}

-----------------------------------------------------------------------------
\* Mutant of RestrictedAccounts: the faucet is forgotten.
RestrictedClocks == {ClockIds[i] : i \in DOMAIN ClockIds}

RestrictedAccounts == {ClockIds[i] : i \in DOMAIN ClockIds} \cup {FaucetId}

\* Mutant of OnlyBalanceIncreased: the order of the balances is not compared.
OnlyBalanceChanged(pre, post) == [post EXCEPT !.balance = pre.balance] = pre

OnlyBalanceIncreased(pre, post) ==
    /\ [post EXCEPT !.balance = pre.balance] = pre
    /\ pre.balance <= post.balance

\* validate_on_state, for public transactions: users leave clocks and faucet as
\* they are and may only feed the bridge.  The sequencer's own transactions
\* skip the check.  (The branch that turns down a private transaction on the
\* bridge has no counterpart: every transaction here is public.)
ValidateOnState(t, old, diff, time) ==
    t.origin = "User" =>
        /\ \A a \in RestrictedAccounts \cap DOMAIN diff : diff[a] = old[a]
        /\ BridgeId \in DOMAIN diff => OnlyBalanceIncreased(old[BridgeId], diff[BridgeId])
=============================================================================
