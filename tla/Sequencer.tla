------------------------------- MODULE Sequencer -------------------------------
(***************************************************************************)
(* The sequencer: mempool, block production, the publisher's drive task,   *)
(* the database and what Bedrock (L1) reports, with crashes between any    *)
(* two steps.  Two tasks share the database: the producer (main loop) and  *)
(* the drive task.  Each reads the list of deposit records and later       *)
(* writes all of it back, and nothing keeps them apart.  Transactions are  *)
(* model values; the ledger is the sequence of transactions applied to it. *)
(* The clock transaction that ends every block shows only in its size.     *)
(* Withdrawals share one reconciliation key.  Bedrock, the zone SDK and    *)
(* tokio's channels are external.                                          *)
(***************************************************************************)
EXTENDS Integers, Sequences, FiniteSets, SequencesExt

CONSTANTS
    UserTxs,              \* transactions users send
    Withdrawals,          \* those that call Bridge::Withdraw
    Deposits,             \* Bedrock deposit operations
    Undecodable,          \* deposits whose metadata names no recipient
    BridgeFunds,          \* deposits the bridge account can pay at genesis
    None,
    Size,                 \* encoded size of a transaction
    MaxBlockSize, HeaderSize, ClockSize, BLOCK_HEADER_OVERHEAD,
    MaxTxsInBlock, MempoolSize, PUBLISH_INBOX_CAPACITY,
    MaxBlocks,            \* bounds of the instance: blocks stored,
    MaxIdleBlocks,        \* blocks stored when an empty one is still built,
    MaxSends,             \* how often a user sends the same transaction,
    MaxFaults             \* crashes, refused blocks and checkpoints not saved

VARIABLES
    db,                   \* rocksdb
    state, chain_height,  \* SequencerCore
    channel, front_buffer,\* MemPool
    waiting,              \* pushes that wait for room in the channel, in order
    replay,               \* what the replay task has still to push
    producer,             \* where produce_new_block is, and what it holds
    drive,                \* where the drive task is, and what it holds
    inbox,                \* blocks handed to the drive task
    sdk,                  \* zone SDK: position in the L1 stream, unsent blocks
    l1,                   \* finalized operations of the channel
    sent,                 \* how often each user transaction was sent
    exposed,              \* history: deposits whose record was overwritten, or
                          \* which were reported again when it was gone
    built, faults         \* blocks built so far (their hashes), faults so far

mempool == <<channel, front_buffer, waiting>>
core == <<state, chain_height, producer, built>>
driver == <<drive, inbox, sdk>>
vars == <<db, core, mempool, replay, driver, l1, sent, exposed, faults>>

Txs == UserTxs \cup Deposits

GENESIS_BLOCK_ID == 1
Genesis == [id |-> GENESIS_BLOCK_ID, hash |-> 0, prev |-> 0, txs |-> <<>>]

Block == [id : Nat, hash : Nat, prev : Nat, txs : Seq(Txs)]
Record == [id : Deposits, submitted : Nat]     \* submitted 0: not in a block yet
NoBlock == 0

Op == [kind : {"Inscription"}, block : Block]
      \cup [kind : {"Deposit"}, id : Deposits]
      \cup [kind : {"Withdraw"}]

ASSUME SequencerInstance ==
    /\ IsFiniteSet(Txs)
    /\ UserTxs \cap Deposits = {}
    /\ Withdrawals \subseteq UserTxs
    /\ Undecodable \subseteq Deposits
    /\ Size \in [Txs -> Nat]
    /\ {BridgeFunds, MaxBlockSize, HeaderSize, ClockSize, BLOCK_HEADER_OVERHEAD,
        MaxTxsInBlock, MempoolSize, PUBLISH_INBOX_CAPACITY, MaxBlocks,
        MaxIdleBlocks, MaxSends, MaxFaults} \subseteq Nat

Idle == [at |-> "idle"]

\* The operation the drive task is at, and the drive task when it is done with it.
NextOp == Head(drive.ops)
AfterOp == IF Len(drive.ops) = 1 THEN Idle ELSE [at |-> "ops", ops |-> Tail(drive.ops)]

-----------------------------------------------------------------------------
(* The database.                                                           *)

LastBlock == db.blocks[Len(db.blocks)]

\* The cell of the unseen-withdrawal counter is absent, or holds a number.
Unseen == Nat \cup {None}

\* mark_pending_deposit_events_submitted, on the records it read.
MarkSubmitted(records, deposits, id) ==
    [i \in DOMAIN records |->
        IF records[i].id \in deposits THEN [records[i] EXCEPT !.submitted = id] ELSE records[i]]

\* Mutant of RemoveFulfilled: everything in a block is dropped at once.
RemoveSubmitted(records, finalized) == SelectSeq(records, LAMBDA r : r.submitted = NoBlock)

\* remove_fulfilled_pending_deposit_events_up_to_block, on the records it read.
RemoveFulfilled(records, finalized) ==
    SelectSeq(records, LAMBDA r : r.submitted = NoBlock \/ r.submitted > finalized)

\* Every increment of a block reads the counter from the database, not from
\* the batch, so several count as one.
Incremented(unseen) == IF unseen = None THEN 1 ELSE unseen + 1

\* Mutant of Consumed: an unchecked subtraction.
ConsumedUnchecked(unseen) == IF unseen = None THEN None ELSE unseen - 1

\* consume_unseen_withdraw_count: at zero the cell is deleted.
Consumed(unseen) ==
    CASE unseen = None -> None
      [] unseen = 0 -> None
      [] OTHER -> unseen - 1

Recorded(records) == {r.id : r \in Range(records)}

RecordOf(records, d) == {r \in Range(records) : r.id = d}

\* The deposits whose record has changed since a task read the list: writing
\* the list back undoes that change.
Overwritten(records) ==
    {d \in Deposits : RecordOf(records, d) # RecordOf(db.records, d)}

-----------------------------------------------------------------------------
(* The mempool and the producer.                                           *)

\* A push that finds the channel full waits its turn.
Push(t) ==
    IF waiting = <<>> /\ Len(channel) < MempoolSize
    THEN channel' = Append(channel, t) /\ UNCHANGED waiting
    ELSE waiting' = Append(waiting, t) /\ UNCHANGED channel

\* send_transaction refuses what is too large for a block, not what it has
\* seen before.
Send(t) ==
    /\ sent[t] < MaxSends
    /\ Size[t] <= MaxBlockSize - BLOCK_HEADER_OVERHEAD
    /\ Push(t)
    /\ sent' = [sent EXCEPT ![t] = @ + 1]
    /\ UNCHANGED <<db, core, front_buffer, replay, driver, l1, exposed, faults>>

SizeOf(txs) == HeaderSize + ClockSize + FoldSeq(LAMBDA t, n : n + Size[t], 0, txs)

Minted(ledger) == Range(ledger) \cap Deposits

\* A withdrawal pays into the bridge account, a deposit is paid out of it.
CanPay(ledger) ==
    Len(SelectSeq(ledger, LAMBDA t : t \in Deposits))
        < BridgeFunds + Len(SelectSeq(ledger, LAMBDA t : t \in Withdrawals))

\* Applying one popped transaction to a block under construction b:
\* txs and ledger so far, what goes back to the front, and how it ended.
TryTx(b, t) ==
    CASE b.end # "no" -> b
      [] SizeOf(Append(b.txs, t)) > MaxBlockSize ->
            [b EXCEPT !.front = <<t>>, !.popped = @ + 1, !.end = "full"]
      [] t \in UserTxs /\ t \in Range(b.ledger) -> [b EXCEPT !.popped = @ + 1]
      [] t \in Deposits /\ ~CanPay(b.ledger) -> [b EXCEPT !.popped = @ + 1, !.end = "error"]
      [] OTHER -> [b EXCEPT !.txs = Append(@, t), !.ledger = Append(@, t), !.popped = @ + 1,
                            !.end = IF Len(b.txs) + 1 >= MaxTxsInBlock THEN "full" ELSE "no"]

\* pop takes from the front buffer first.
Queue == Reverse(front_buffer) \o channel

\* build_block_from_mempool up to the clock transaction.
BuiltFrom(queue) ==
    FoldLeft(TryTx, [txs |-> <<>>, ledger |-> state, front |-> <<>>, popped |-> 0, end |-> "no"],
             queue)

RestOfChannel(b) ==
    SubSeq(channel, IF b.popped > Len(front_buffer) THEN b.popped - Len(front_buffer) + 1 ELSE 1,
           Len(channel))

\* produce_new_block builds; the lock on the core is held until the block is
\* stored.  An error leaves what was applied so far in the ledger in memory.
Build ==
    LET b == BuiltFrom(Queue) IN
    /\ producer = Idle
    /\ Len(db.blocks) < IF Queue = <<>> THEN MaxIdleBlocks ELSE MaxBlocks
    /\ state' = b.ledger
    /\ front_buffer' = b.front
    /\ channel' = RestOfChannel(b)
    /\ IF b.end = "error"
       THEN /\ producer' = [at |-> "failed"]
            /\ UNCHANGED <<chain_height, built>>
       ELSE /\ chain_height' = chain_height + 1
            /\ built' = built + 1
            /\ producer' = [at |-> "built",
                            block |-> [id |-> chain_height + 1, hash |-> built + 1,
                                       prev |-> LastBlock.hash, txs |-> b.txs]]
    /\ UNCHANGED <<db, waiting, replay, driver, l1, sent, exposed, faults>>

\* publish_block waits for room in the inbox.
Publish ==
    /\ producer.at = "built"
    /\ Len(inbox) < PUBLISH_INBOX_CAPACITY
    /\ inbox' = Append(inbox, producer.block)
    /\ producer' = [producer EXCEPT !.at = "published"]
    /\ UNCHANGED <<db, state, chain_height, built, mempool, replay, drive, sdk, l1, sent, exposed, faults>>

\* atomic_update reads the records and the counter ...
StoreRead ==
    /\ producer.at = "published"
    /\ producer' = [at |-> "read", block |-> producer.block,
                    records |-> db.records, unseen |-> db.unseen]
    /\ UNCHANGED <<db, state, chain_height, built, mempool, replay, driver, l1, sent, exposed, faults>>

\* Mutant of Stored: the state is written by the next update.
StoredWithoutState(b, records, unseen) ==
    [db EXCEPT !.blocks = Append(@, b), !.records = records, !.unseen = unseen]

\* The one batch that atomic_update writes.
Stored(b, records, unseen) ==
    [db EXCEPT !.blocks = Append(@, b), !.state = state, !.records = records, !.unseen = unseen]

\* ... and writes everything in one batch, the records only if one is marked.
StoreWrite ==
    LET b == producer.block
        minted == Minted(b.txs)
        marked == MarkSubmitted(producer.records, minted, b.id)
        withdrawals == Range(b.txs) \cap Withdrawals
        marking == Recorded(producer.records) \cap minted # {}
    IN
    /\ producer.at = "read"
    /\ db' = Stored(b, IF marking THEN marked ELSE db.records,
                    IF withdrawals = {} THEN db.unseen ELSE Incremented(producer.unseen))
    /\ exposed' = IF marking THEN exposed \cup Overwritten(producer.records) ELSE exposed
    /\ producer' = Idle
    /\ UNCHANGED <<state, chain_height, built, mempool, replay, driver, l1, sent, faults>>

DriveWaitsWith(t) == drive.at = "push" /\ NextOp.id = t

\* The task that start_from_config spawns for deposits not yet in a block
\* pushes one after the other.
ReplayPush ==
    /\ replay # <<>>
    /\ \A d \in Range(waiting) \cap Deposits : DriveWaitsWith(d)
    /\ Push(Head(replay))
    /\ replay' = Tail(replay)
    /\ UNCHANGED <<db, core, front_buffer, driver, l1, sent, exposed, faults>>

\* Room in the channel goes to the push that waits longest.
Admit ==
    /\ waiting # <<>>
    /\ Len(channel) < MempoolSize
    /\ channel' = Append(channel, Head(waiting))
    /\ waiting' = Tail(waiting)
    /\ drive' = IF DriveWaitsWith(Head(waiting)) THEN AfterOp ELSE drive
    /\ UNCHANGED <<db, core, front_buffer, replay, inbox, sdk, l1, sent, exposed, faults>>

-----------------------------------------------------------------------------
(* The drive task.                                                         *)

\* A block from the inbox goes to the SDK, which submits it in its own time.
RecvPublish ==
    /\ drive = Idle
    /\ inbox # <<>>
    /\ sdk' = [sdk EXCEPT !.unsent = Append(@, Head(inbox))]
    /\ inbox' = Tail(inbox)
    /\ UNCHANGED <<db, core, mempool, replay, drive, l1, sent, exposed, faults>>

\* "zone-sdk publish failed" is logged and the block dropped.
PublishFails ==
    /\ drive = Idle
    /\ inbox # <<>>
    /\ faults < MaxFaults
    /\ faults' = faults + 1
    /\ inbox' = Tail(inbox)
    /\ UNCHANGED <<db, core, mempool, replay, drive, sdk, l1, sent, exposed>>

\* Event::BlocksProcessed: the checkpoint behind the new operations is
\* persisted first, then the operations are handled one by one.
NextEvent(k) ==
    /\ drive = Idle
    /\ k \in sdk.cursor..Len(l1)
    /\ sdk' = [sdk EXCEPT !.cursor = k]
    /\ sdk' # db.checkpoint
    /\ db' = [db EXCEPT !.checkpoint = sdk']
    /\ drive' = IF k = sdk.cursor THEN Idle
                ELSE [at |-> "ops", ops |-> SubSeq(l1, sdk.cursor + 1, k)]
    /\ UNCHANGED <<core, mempool, replay, inbox, l1, sent, exposed, faults>>

\* "Failed to persist zone-sdk checkpoint" is logged and the operations are
\* handled all the same: the next start has them reported again.
NextEventUnsaved(k) ==
    /\ drive = Idle
    /\ k \in sdk.cursor + 1..Len(l1)
    /\ faults < MaxFaults
    /\ faults' = faults + 1
    /\ sdk' = [sdk EXCEPT !.cursor = k]
    /\ drive' = [at |-> "ops", ops |-> SubSeq(l1, sdk.cursor + 1, k)]
    /\ UNCHANGED <<db, core, mempool, replay, inbox, l1, sent, exposed>>

\* on_finalized_block marks blocks by id, then reads the deposit records.
FinalizeBlock ==
    /\ drive.at = "ops" /\ NextOp.kind = "Inscription"
    /\ db' = [db EXCEPT !.finalized = @ \cup {b.id : b \in {b \in Range(db.blocks) :
                                                             b.id <= NextOp.block.id}}]
    /\ drive' = [at |-> "remove", ops |-> drive.ops, records |-> db.records]
    /\ UNCHANGED <<core, mempool, replay, inbox, sdk, l1, sent, exposed, faults>>

RemoveWrite ==
    LET kept == RemoveFulfilled(drive.records, NextOp.block.id) IN
    /\ drive.at = "remove"
    /\ IF kept = drive.records
       THEN UNCHANGED <<db, exposed>>
       ELSE /\ db' = [db EXCEPT !.records = kept]
            /\ exposed' = exposed \cup Overwritten(drive.records)
    /\ drive' = AfterOp
    /\ UNCHANGED <<core, mempool, replay, inbox, sdk, l1, sent, faults>>

\* on_deposit_event: a deposit with a record is skipped.  One that is in a
\* block already and has lost its record is taken for a new one.
ObserveDeposit ==
    /\ drive.at = "ops" /\ NextOp.kind = "Deposit"
    /\ IF NextOp.id \in Recorded(db.records)
       THEN drive' = AfterOp /\ UNCHANGED exposed
       ELSE /\ drive' = [at |-> "add", ops |-> drive.ops, records |-> db.records]
            /\ exposed' = exposed \cup ({NextOp.id} \cap Minted(db.state))
    /\ UNCHANGED <<db, core, mempool, replay, inbox, sdk, l1, sent, faults>>

\* The record is written before anything is queued; a deposit that makes no
\* transaction keeps it.
AddWrite ==
    /\ drive.at = "add"
    /\ db' = [db EXCEPT !.records = Append(drive.records,
                                          [id |-> NextOp.id, submitted |-> NoBlock])]
    /\ exposed' = exposed \cup Overwritten(drive.records)
    /\ drive' = IF NextOp.id \in Undecodable THEN AfterOp
                ELSE [at |-> "enqueue", ops |-> drive.ops]
    /\ UNCHANGED <<core, mempool, replay, inbox, sdk, l1, sent, faults>>

\* mempool_handle.push: the drive task waits with its transaction.
EnqueueDeposit ==
    /\ drive.at = "enqueue"
    /\ Push(NextOp.id)
    /\ drive' = IF waiting' = waiting THEN AfterOp ELSE [drive EXCEPT !.at = "push"]
    /\ UNCHANGED <<db, core, front_buffer, replay, inbox, sdk, l1, sent, exposed, faults>>

\* on_withdraw_event
ObserveWithdraw ==
    /\ drive.at = "ops" /\ NextOp.kind = "Withdraw"
    /\ db' = [db EXCEPT !.unseen = Consumed(@)]
    /\ drive' = AfterOp
    /\ UNCHANGED <<core, mempool, replay, inbox, sdk, l1, sent, exposed, faults>>

-----------------------------------------------------------------------------
(* Bedrock, and the process as a whole.                                    *)

OnL1(b) == \E i \in DOMAIN l1 : l1[i].kind = "Inscription" /\ l1[i].block = b

\* A block becomes final, with the withdrawals it carries; one that is there
\* already is not inscribed again.
Inscribe ==
    LET b == Head(sdk.unsent)
        withdrawn == SelectSeq(b.txs, LAMBDA t : t \in Withdrawals)
    IN
    /\ sdk.unsent # <<>>
    /\ sdk' = [sdk EXCEPT !.unsent = Tail(@)]
    /\ l1' = IF OnL1(b) THEN l1
             ELSE Append(l1, [kind |-> "Inscription", block |-> b])
                  \o [i \in DOMAIN withdrawn |-> [kind |-> "Withdraw"]]
    /\ UNCHANGED <<db, core, mempool, replay, drive, inbox, sent, exposed, faults>>

Deposited(d) == \E i \in DOMAIN l1 : l1[i].kind = "Deposit" /\ l1[i].id = d

Deposit(d) ==
    /\ ~Deposited(d)
    /\ l1' = Append(l1, [kind |-> "Deposit", id |-> d])
    /\ UNCHANGED <<db, core, mempool, replay, driver, sent, exposed, faults>>

IsDecodable(r) == r.id \notin Undecodable

\* Mutant of Unsubmitted: deposits in blocks that are not final are queued too.
UnsubmittedOrPending(records) == SelectSeq(records, IsDecodable)

\* The records that replay_unfulfilled_deposit_events queues.
Unsubmitted(records) ==
    SelectSeq(records, LAMBDA r : r.submitted = NoBlock /\ IsDecodable(r))

\* Mutant of Restart: nothing is queued again.
RestartWithoutReplay ==
    /\ state' = db.state
    /\ chain_height' = LastBlock.id
    /\ channel' = <<>> /\ front_buffer' = <<>> /\ waiting' = <<>>
    /\ replay' = <<>>
    /\ producer' = Idle /\ drive' = Idle
    /\ inbox' = IF db.checkpoint = None THEN <<Genesis>> ELSE <<>>
    /\ sdk' = IF db.checkpoint = None THEN [cursor |-> 0, unsent |-> <<>>] ELSE db.checkpoint

\* start_from_config on the database as it is.  Without a checkpoint the
\* genesis block is published (again).
Restart ==
    LET pending == Unsubmitted(db.records) IN
    /\ state' = db.state
    /\ chain_height' = LastBlock.id
    /\ channel' = <<>> /\ front_buffer' = <<>> /\ waiting' = <<>>
    /\ replay' = [i \in DOMAIN pending |-> pending[i].id]
    /\ producer' = Idle /\ drive' = Idle
    /\ inbox' = IF db.checkpoint = None THEN <<Genesis>> ELSE <<>>
    /\ sdk' = IF db.checkpoint = None THEN [cursor |-> 0, unsent |-> <<>>] ELSE db.checkpoint

\* The process dies, by itself or because produce_new_block failed, and is
\* started again.
Crash ==
    /\ faults < MaxFaults
    /\ faults' = faults + 1
    /\ Restart
    /\ UNCHANGED <<db, l1, built, sent, exposed>>

Init ==
    /\ db = [blocks |-> <<Genesis>>, finalized |-> {}, state |-> <<>>, records |-> <<>>,
             unseen |-> None, checkpoint |-> None]
    /\ state = <<>> /\ chain_height = GENESIS_BLOCK_ID
    /\ channel = <<>> /\ front_buffer = <<>> /\ waiting = <<>> /\ replay = <<>>
    /\ producer = Idle /\ drive = Idle
    /\ inbox = <<Genesis>>
    /\ sdk = [cursor |-> 0, unsent |-> <<>>]
    /\ l1 = <<>>
    /\ sent = [t \in UserTxs |-> 0]
    /\ exposed = {}
    /\ built = 0 /\ faults = 0

Producing == Build \/ Publish \/ StoreRead \/ StoreWrite
Handling == FinalizeBlock \/ RemoveWrite \/ ObserveDeposit \/ AddWrite \/ EnqueueDeposit
            \/ ObserveWithdraw
Observing == \E k \in 0..Len(l1) : NextEvent(k) \/ NextEventUnsaved(k)

Next ==
    \/ \E t \in UserTxs : Send(t)
    \/ Admit
    \/ ReplayPush
    \/ Producing
    \/ RecvPublish
    \/ PublishFails
    \/ Observing
    \/ Handling
    \/ Inscribe
    \/ \E d \in Deposits : Deposit(d)
    \/ Crash

Spec == Init /\ [][Next]_vars

\* Tokio polls every task that can move, and Bedrock finalizes what it is sent
\* and reports it.  Nobody has to send, deposit or crash.
FairSpec ==
    /\ Spec
    /\ WF_vars(Admit) /\ WF_vars(ReplayPush) /\ WF_vars(Producing)
    /\ WF_vars(RecvPublish) /\ WF_vars(Handling) /\ WF_vars(Inscribe)
    /\ WF_vars(\E k \in 0..Len(l1) : k > sdk.cursor /\ NextEvent(k))

-----------------------------------------------------------------------------
\* Types of the state.
TypeOK ==
    /\ db \in [blocks : Seq(Block), finalized : SUBSET Nat, state : Seq(Txs),
               records : Seq(Record), unseen : Unseen,
               checkpoint : {None} \cup [cursor : Nat, unsent : Seq(Block)]]
    /\ db.blocks # <<>>
    /\ state \in Seq(Txs) /\ chain_height \in Nat
    /\ channel \in Seq(Txs) /\ front_buffer \in Seq(Txs) /\ waiting \in Seq(Txs)
    /\ replay \in Seq(Deposits)
    /\ producer.at \in {"idle", "built", "published", "read", "failed"}
    /\ drive.at \in {"idle", "ops", "remove", "add", "enqueue", "push"}
    /\ inbox \in Seq(Block)
    /\ sdk \in [cursor : Nat, unsent : Seq(Block)]
    /\ l1 \in Seq(Op)
    /\ sent \in [UserTxs -> 0..MaxSends] /\ exposed \subseteq Deposits
    /\ built \in Nat /\ faults \in Nat

\* However the process dies, the state in the database is what its blocks
\* produce from genesis, and the blocks are linked by id and hash: open_db
\* finds every block, and whoever replays them arrives at the same state.
DatabaseIsAChain ==
    /\ db.state = FlattenSeq([i \in DOMAIN db.blocks |-> db.blocks[i].txs])
    /\ \A i \in DOMAIN db.blocks : db.blocks[i].id = i
    /\ \A i \in 2..Len(db.blocks) : db.blocks[i].prev = db.blocks[i - 1].hash

\* No deposit is paid out twice, in memory or on disk, although its event may
\* be reported again and its record replayed after a crash at any step.  Two
\* things undo the protection the record gives, and the property says that
\* nothing else does: the other task writing back a list it read before, and a
\* report that comes again once the record has been dropped.
DepositsAreMintedOnce ==
    \A i, j \in DOMAIN state :
        state[i] = state[j] /\ state[i] \in Deposits \ exposed => i = j

\* The record of a deposit in a stored block is dropped only when Bedrock has
\* finalized a block of that height or above.  Finality is noted by height, so
\* after a crash or a refused publication it need not be the same block;
\* without one it is.
RecordsOutliveTheirBlock ==
    \A i \in DOMAIN db.blocks : \A d \in (Range(db.blocks[i].txs) \cap Deposits) \ exposed :
        d \notin Recorded(db.records) =>
            /\ \E k \in DOMAIN l1 : /\ l1[k].kind = "Inscription"
                                    /\ l1[k].block.id >= db.blocks[i].id
            /\ faults = 0 => OnL1(db.blocks[i])

\* While a recorded deposit is in no block, its transaction is queued, or in
\* the hands of the drive task or of the producer, or the main loop has ended.
RecordedAreQueued ==
    \A r \in {r \in Range(db.records) : r.submitted = NoBlock /\ IsDecodable(r)} :
        \/ r.id \in Range(waiting \o channel \o front_buffer \o replay)
        \/ drive.at = "enqueue" /\ NextOp.id = r.id
        \/ producer.at \in {"built", "published", "read"} /\ r.id \in Range(producer.block.txs)
        \/ producer.at = "failed"
        \/ r.id \in exposed

-----------------------------------------------------------------------------
(* What must eventually happen.                                            *)

\* The producer waits for room in the drive task's inbox, the drive task for
\* room in the mempool.
Stalled == producer.at = "built" /\ Len(inbox) >= PUBLISH_INBOX_CAPACITY /\ drive.at = "push"

\* A deposit that has a record is paid out in a stored block, across a crash at
\* any step, behind whatever users send; unless a deposit that the bridge
\* cannot pay has ended the main loop, or the two tasks wait for each other, or
\* the record was overwritten.
RecordedAreMinted ==
    \A d \in Deposits \ Undecodable :
        d \in Recorded(db.records) ~>
            d \in Minted(db.state) \cup exposed \/ producer.at = "failed" \/ Stalled

-----------------------------------------------------------------------------
(* What comments of the code say, and the code does not do.                *)

\* "Set when block containing the deposit event is submitted": no record of a
\* deposit that is in a stored block says otherwise.
MintedAreMarked ==
    \A r \in Range(db.records) : r.id \in Minted(db.state) => r.submitted # NoBlock

\* "Fire-and-forget publish": a block that was built is handed off and stored,
\* or the process is started again.
BuiltAreStored == producer.at = "built" ~> producer.at = "idle"

\* A deposit can be observed again, "For that to happen Sequencer should crash
\* between receiving Deposit and Checkpoint events": what is behind the
\* persisted checkpoint was received, and no deposit is in between.
ObservedAreRecorded ==
    db.checkpoint # None =>
        \A i \in 1..db.checkpoint.cursor :
            l1[i].kind = "Deposit" =>
                \/ l1[i].id \in Recorded(db.records) \cup Minted(db.state)
                \/ drive # Idle
=============================================================================
