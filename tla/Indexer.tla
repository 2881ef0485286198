------------------------------- MODULE Indexer -------------------------------
(***************************************************************************)
(* The indexer: it follows the finalized messages of the zone's Bedrock    *)
(* channel from a persisted cursor, applies every block to the state it    *)
(* holds in memory, stores the block and its indices, and keeps a copy of  *)
(* the state ("breakpoint") every BREAKPOINT_INTERVAL blocks, from which   *)
(* the state after any stored block is recalculated on request.            *)
(*                                                                         *)
(* The process may be killed between any two writes and started again.     *)
(* The channel carries the sequencer's chain, several messages a slot, and *)
(* may also carry inscriptions that do not decode and messages that are no *)
(* blocks.  A state is the sequence of the transactions executed in it.  A *)
(* user transaction fails unless its nonce is the next one, a deposit      *)
(* when the bridge account cannot pay it; the clock invocation does not    *)
(* fail.  There is one user, and a deposit takes one unit.                 *)
(***************************************************************************)
EXTENDS Naturals, Sequences, FiniteSets, SequencesExt, FiniteSetsExt

CONSTANTS
    BREAKPOINT_INTERVAL,
    SlotContents,   \* what a slot may hold: sequences of bodies and other messages
    BridgeFunds,    \* deposits the bridge account can pay
    MaxBlocks,      \* bound: blocks the sequencer publishes
    MaxNoise,       \* bound: messages of the channel that hold no block
    MaxRestarts     \* bound: times the process is killed

Content == [kind : {"block"}, body : Seq({"user", "deposit"})]
           \union [kind : {"undecodable", "bridge_event"}]

ASSUME IndexerAssumption ==
    /\ BREAKPOINT_INTERVAL \in Nat \ {0}
    /\ \A contents \in SlotContents : \A i \in DOMAIN contents : contents[i] \in Content
    /\ {BridgeFunds, MaxBlocks, MaxNoise, MaxRestarts} \subseteq Nat

VARIABLES
    channel,        \* the finalized messages and their slots
    db,             \* RocksDB: what survives a restart
    current_state,  \* IndexerStore.current_state
    task,           \* the ingestion task: its next write and the message it is at
    restarts,
    redelivered,    \* history: a stored block was delivered again
    failed          \* history: blocks not stored yet whose put_block failed

vars == <<channel, db, current_state, task, restarts, redelivered, failed>>

Count(txs, kind) == Len(SelectSeq(txs, LAMBDA tx : tx[1] = kind))

\* The first unused nonce of the user comes from the chain so far.
Block(id, body, nonce) ==
    [block_id |-> id,
     transactions |->
        [i \in DOMAIN body |->
            IF body[i] = "user"
            THEN <<"user", nonce + Cardinality({j \in 1..i - 1 : body[j] = "user"})>>
            ELSE <<body[i], id>>]
        \o << <<"clock", id>> >>]

\* The messages of the channel.
IsBlock(msg) == msg.kind = "block"
BlocksOf(msgs) == LET found == SelectSeq(msgs, IsBlock)
                  IN  [i \in DOMAIN found |-> found[i].block]

Transactions(blocks) ==
    FlattenSeq([i \in DOMAIN blocks |-> blocks[i].transactions])

(***************************************************************************)
(* Execution.                                                              *)
(***************************************************************************)
\* Whether tx fails in a state: a nonce that is not the next, no funds to pay.
Fails(state, tx) ==
    \/ tx[1] = "user" /\ Count(state, "user") # tx[2]
    \/ tx[1] = "deposit" /\ Count(state, "deposit") >= BridgeFunds

\* The transactions of txs that fail when all before them were executed.
Failing(state, txs) ==
    {i \in DOMAIN txs : Fails(state \o SubSeq(txs, 1, i - 1), txs[i])}

\* Transactions change the state one by one; the ones before a failing one stay.
Execute(state, txs) ==
    state \o (IF Failing(state, txs) = {} THEN txs
              ELSE SubSeq(txs, 1, Min(Failing(state, txs)) - 1))

(***************************************************************************)
(* The database.                                                           *)
(***************************************************************************)
last_block(d) == Max(DOMAIN d.blocks \union {0})

\* Mutant: the breakpoint at the block itself, which may not be there yet.
BreakpointAt(id) == id \div BREAKPOINT_INTERVAL

closest_breakpoint_id(id) ==
    (IF id = 0 THEN 0 ELSE id - 1) \div BREAKPOINT_INTERVAL

\* The stored blocks start, start + 1, ..., id, up to the first that is missing.
get_block_batch_seq(d, start, id) ==
    LET run == {i \in start..id : start..i \subseteq DOMAIN d.blocks}
    IN  [i \in 1..Cardinality(run) |-> d.blocks[start + i - 1]]

\* The set of answers of calculate_state_for_id: the state, or none on an error.
calculate_state_for_id(d, id) ==
    LET br_id  == closest_breakpoint_id(id)
        blocks == get_block_batch_seq(d, br_id * BREAKPOINT_INTERVAL + 1, id)
    IN  IF \/ id > last_block(d)
           \/ br_id \notin DOMAIN d.breakpoints
           \/ Failing(d.breakpoints[br_id], Transactions(blocks)) # {}
        THEN {}
        ELSE {Execute(d.breakpoints[br_id], Transactions(blocks))}

\* Mutant: the latest breakpoint, without the blocks after it.
ClosestBreakpoint(d) == {d.breakpoints[closest_breakpoint_id(last_block(d))]}

final_state(d) == calculate_state_for_id(d, last_block(d))

\* One batch: the block, and its transactions in the list of their account.
Stored(d, block) ==
    [d EXCEPT !.blocks = (block.block_id :> block) @@ @,
              !.acc_txs = @ \o Front(block.transactions)]

next_breakpoint_id(d) == d.last_breakpoint + 1

\* Mutant: the breakpoint is taken from the newest block.
BreakpointOfLastBlock(d) ==
    IF next_breakpoint_id(d) * BREAKPOINT_INTERVAL <= last_block(d)
    THEN calculate_state_for_id(d, last_block(d))
    ELSE {}

\* The breakpoint to put now: the state after the last block it covers.
NextBreakpoint(d) ==
    IF next_breakpoint_id(d) * BREAKPOINT_INTERVAL <= last_block(d)
    THEN calculate_state_for_id(d, next_breakpoint_id(d) * BREAKPOINT_INTERVAL)
    ELSE {}

\* open_or_create puts breakpoint 0 each time the database is opened.
Opened(d) ==
    [d EXCEPT !.breakpoints = (0 :> <<>>) @@ @, !.last_breakpoint = 0]

Init ==
    /\ channel = <<>>
    /\ db = [blocks |-> << >>, breakpoints |-> (0 :> <<>>),
             last_breakpoint |-> 0, acc_txs |-> <<>>, cursor |-> 0]
    /\ current_state = <<>>
    /\ task = [at |-> "poll", pos |-> 0]
    /\ restarts = 0
    /\ redelivered = FALSE
    /\ failed = {}

(***************************************************************************)
(* The channel (external: Bedrock, written by the sequencer).              *)
(***************************************************************************)
\* The state after block id of the chain that the sequencer published.
History(id) == Transactions(SubSeq(BlocksOf(channel), 1, id))

\* The message that content makes after the messages msgs.
Message(msgs, content, slot) ==
    IF IsBlock(content)
    THEN [kind |-> "block", slot |-> slot,
          block |-> Block(Len(BlocksOf(msgs)) + 1, content.body,
                          Count(Transactions(BlocksOf(msgs)), "user"))]
    ELSE [kind |-> content.kind, slot |-> slot]

\* A slot becomes final with everything in it.  The sequencer has executed its
\* blocks on the chain so far.
NewSlot ==
    \E contents \in SlotContents :
       LET slot == IF channel = <<>> THEN 1 ELSE Last(channel).slot + 1
           msgs == FoldLeft(LAMBDA ch, c : Append(ch, Message(ch, c, slot)),
                            channel, contents)
       IN  /\ Len(BlocksOf(msgs)) <= MaxBlocks
           /\ Len(msgs) - Len(BlocksOf(msgs)) <= MaxNoise
           /\ Failing(<<>>, Transactions(BlocksOf(msgs))) = {}
           /\ channel' = msgs
           /\ UNCHANGED <<db, current_state, task, restarts, redelivered, failed>>

(***************************************************************************)
(* The ingestion task.                                                     *)
(***************************************************************************)
Goto(at) == task' = [task EXCEPT !.at = at]

InHand == channel[task.pos].block

\* Where a stream that is asked for from a cursor starts: behind its slot.
Behind(cursor) == Max({0} \union {i \in DOMAIN channel : channel[i].slot <= cursor})

\* What is done with a message: bridge events leave the cursor alone.
Handling(msg) ==
    CASE msg.kind = "block" -> "apply"
      [] msg.kind = "undecodable" -> "cursor"
      [] OTHER -> "poll"

\* Mutant: the cursor is persisted when the message arrives.
ReceiveAndPass ==
    /\ task.at = "poll"
    /\ task.pos < Len(channel)
    /\ task' = [at |-> Handling(channel[task.pos + 1]), pos |-> task.pos + 1]
    /\ db' = [db EXCEPT !.cursor = channel[task.pos + 1].slot]
    /\ UNCHANGED <<channel, current_state, restarts, redelivered, failed>>

\* stream.next(): the next message.
Receive ==
    /\ task.at = "poll"
    /\ task.pos < Len(channel)
    /\ task' = [at |-> Handling(channel[task.pos + 1]), pos |-> task.pos + 1]
    /\ UNCHANGED <<channel, db, current_state, restarts, redelivered, failed>>

\* The stream ended, after a whole slot: ask again from the cursor.
Poll ==
    /\ task.at = "poll"
    /\ task.pos \notin {0, Len(channel)} => channel[task.pos + 1].slot # channel[task.pos].slot
    /\ task' = [task EXCEPT !.pos = Behind(db.cursor)]
    /\ UNCHANGED <<channel, db, current_state, restarts, redelivered, failed>>

\* put_block, in memory, under the write lock.
Apply ==
    /\ task.at = "apply"
    /\ current_state' = Execute(current_state, InHand.transactions)
    /\ Goto(IF Failing(current_state, InHand.transactions) = {}
            THEN "store" ELSE "cursor")
    /\ redelivered' = (redelivered \/ InHand.block_id \in DOMAIN db.blocks)
    /\ failed' = IF Failing(current_state, InHand.transactions) = {} THEN failed
                 ELSE failed \union ({InHand.block_id} \ DOMAIN db.blocks)
    /\ UNCHANGED <<channel, db, restarts>>

\* put_block, in the database.
StoreBlock ==
    /\ task.at = "store"
    /\ db' = Stored(db, InHand)
    /\ Goto(IF InHand.block_id % BREAKPOINT_INTERVAL = 0
            THEN "breakpoint" ELSE "cursor")
    /\ UNCHANGED <<channel, current_state, restarts, redelivered, failed>>

\* put_next_breakpoint: an error is logged and the task goes on.
PutBreakpoint ==
    /\ task.at = "breakpoint"
    /\ \/ \E state \in NextBreakpoint(db) :
             /\ db' = [db EXCEPT !.breakpoints =
                                    (next_breakpoint_id(db) :> state) @@ @]
             /\ Goto("breakpoint_id")
       \/ /\ NextBreakpoint(db) = {}
          /\ Goto("cursor")
          /\ UNCHANGED db
    /\ UNCHANGED <<channel, current_state, restarts, redelivered, failed>>

PutBreakpointId ==
    /\ task.at = "breakpoint_id"
    /\ db' = [db EXCEPT !.last_breakpoint = next_breakpoint_id(db)]
    /\ Goto("cursor")
    /\ UNCHANGED <<channel, current_state, restarts, redelivered, failed>>

\* Mutant: the cursor names the slot to read next.
CursorPastTheSlot ==
    /\ task.at = "cursor"
    /\ db' = [db EXCEPT !.cursor = channel[task.pos].slot + 1]
    /\ Goto("poll")
    /\ UNCHANGED <<channel, current_state, restarts, redelivered, failed>>

set_zone_cursor ==
    /\ task.at = "cursor"
    /\ db' = [db EXCEPT !.cursor = channel[task.pos].slot]
    /\ Goto("poll")
    /\ UNCHANGED <<channel, current_state, restarts, redelivered, failed>>

\* The process is killed and started again: open_db.  It does not start when
\* the final state cannot be calculated.
Restart ==
    /\ restarts < MaxRestarts
    /\ restarts' = restarts + 1
    /\ db' = Opened(db)
    /\ \/ \E state \in final_state(Opened(db)) :
             /\ current_state' = state
             /\ task' = [at |-> "poll", pos |-> Behind(db.cursor)]
       \/ /\ final_state(Opened(db)) = {}
          /\ task' = [task EXCEPT !.at = "down"]
          /\ UNCHANGED current_state
    /\ UNCHANGED <<channel, redelivered, failed>>

Next ==
    \/ NewSlot
    \/ Receive \/ Poll \/ Apply \/ StoreBlock
    \/ PutBreakpoint \/ PutBreakpointId \/ set_zone_cursor
    \/ Restart

Spec == Init /\ [][Next]_vars

(***************************************************************************)
(* Properties.                                                             *)
(***************************************************************************)
\* Types of the state; the persisted cursor is never ahead of the stream.
TypeOK ==
    /\ \A i \in DOMAIN channel :
          /\ channel[i].kind \in {"block", "undecodable", "bridge_event"}
          /\ channel[i].slot \in Nat
    /\ DOMAIN db.blocks \subseteq 1..MaxBlocks
    /\ \A id \in DOMAIN db.blocks : db.blocks[id].block_id = id
    /\ 0 \in DOMAIN db.breakpoints
    /\ db.last_breakpoint \in DOMAIN db.breakpoints
    /\ db.cursor \in {0} \union {channel[i].slot : i \in 1..task.pos}
    /\ task.pos \in 0..Len(channel)
    /\ task.at \in {"poll", "apply", "store", "breakpoint", "breakpoint_id",
                    "cursor", "down"}
    /\ restarts \in 0..MaxRestarts
    /\ redelivered \in BOOLEAN
    /\ failed \subseteq 1..MaxBlocks

IsStored(block) == block.block_id \in DOMAIN db.blocks /\ db.blocks[block.block_id] = block

\* Message i comes after another one of its slot that moves the cursor.
IsLateInSlot(i) ==
    \E j \in 1..i - 1 : channel[j].slot = channel[i].slot /\ Handling(channel[j]) # "poll"

\* Blocks the task passed by without handling them.
Lost ==
    {i \in DOMAIN channel : /\ IsBlock(channel[i]) /\ ~IsStored(channel[i].block)
                            /\ channel[i].block.block_id \notin failed
                            /\ i < task.pos \/ (i = task.pos /\ task.at = "poll")}

\* Wherever the process was killed, a block whose slot the cursor has reached is
\* in the database, or its put_block failed and was logged, or it shares its
\* slot with an earlier message, which moves the cursor for both: then it is
\* still to come, or it was lost to a restart inside the slot.  Nothing else
\* loses a block.  And put_block fails for a new block only after a stored one
\* was applied again, or one was lost.
NoBlockIsSkipped ==
    /\ \A i \in DOMAIN channel :
          IsBlock(channel[i]) /\ channel[i].slot <= db.cursor =>
             \/ IsStored(channel[i].block)
             \/ channel[i].block.block_id \in failed
             \/ IsLateInSlot(i) /\ (restarts > 0 \/ i >= task.pos)
    /\ failed # {} => redelivered \/ Lost # {}

\* calculate_state_for_id may fail, but when it answers for a block up to which
\* none is missing, from whichever breakpoint, the answer is the published
\* chain executed up to that block: no breakpoint is taken from another block
\* or the wrong state, also when the state in memory has gone astray.
AnswersAreHistory ==
    \A id \in 0..MaxBlocks :
       1..id \subseteq DOMAIN db.blocks =>
          \A state \in calculate_state_for_id(db, id) : state = History(id)

\* As long as the database has been opened once, the state after every stored
\* block can be recalculated at any moment, also between the batch that stores
\* a block and the breakpoint that follows it.
CalculableUntilReopened ==
    restarts = 0 =>
       \A id \in 0..last_block(db) : calculate_state_for_id(db, id) # {}

\* Between two blocks the state in memory, from which get_account answers, is
\* the state after the last stored block, and the account's list names each of
\* its transactions once, in order; both hold through restarts as long as no
\* stored block was delivered a second time and none is missing.
CurrentIsFinal ==
    /\ task.at = "poll" /\ ~redelivered /\ failed = {}
    /\ 1..last_block(db) \subseteq DOMAIN db.blocks
    =>
       /\ current_state = History(last_block(db))
       /\ db.acc_txs = SelectSeq(current_state, LAMBDA tx : tx[1] # "clock")

\* The healthcheck: "Checking, that indexer can calculate last state".
HealthcheckAnswers == final_state(db) # {}

==============================================================================
