----------------------------- MODULE MsigPromise -----------------------------
(***************************************************************************)
(* What the multisig promises.  A proposal is opened once for a fixed set  *)
(* of members; each member is counted at most once; a payment on an open   *)
(* proposal has as many approvals as its caller asked for.  The money only *)
(* leaves whole, by a payment, until the treasury is handed to a program   *)
(* of somebody's choice; from then on nothing is promised of it.           *)
(***************************************************************************)
EXTENDS Naturals, FiniteSets

CONSTANTS Proposals, People

VARIABLES
    open, electorate, approvals,
    asked,                    \* highest threshold of a payment on each proposal
    kept, balance, paid

promised == <<open, electorate, approvals, asked, kept, balance, paid>>
votes == <<open, electorate, approvals>>
money == <<kept, balance, paid>>

PromiseInit ==
    /\ open = {}
    /\ electorate = [p \in Proposals |-> {}]
    /\ approvals = [p \in Proposals |-> {}]
    /\ asked = [p \in Proposals |-> 0]
    /\ kept = TRUE
    /\ balance = 0
    /\ paid = 0

Open(p) ==
    /\ p \notin open
    /\ open' = open \cup {p}
    /\ \E members \in SUBSET People : electorate' = [electorate EXCEPT ![p] = members]
    /\ UNCHANGED <<approvals, asked, money>>

Count(p, member) ==
    /\ p \in open
    /\ member \in electorate[p] \ approvals[p]
    /\ approvals' = [approvals EXCEPT ![p] = @ \cup {member}]
    /\ UNCHANGED <<open, electorate, asked, money>>

PayIn ==
    /\ kept
    /\ balance' > balance
    /\ UNCHANGED <<votes, asked, kept, paid>>

Pay == IF kept THEN balance' = 0 /\ paid' = paid + balance ELSE UNCHANGED <<balance, paid>>

PayOn(p, threshold) ==
    /\ p \in open
    /\ Cardinality(approvals[p]) >= threshold
    /\ asked' = [asked EXCEPT ![p] = IF threshold > @ THEN threshold ELSE @]
    /\ Pay
    /\ UNCHANGED <<votes, kept>>

PayElsewhere == Pay /\ UNCHANGED <<votes, asked, kept>>

HandOver ==
    /\ kept
    /\ kept' = FALSE
    /\ balance' = 0
    /\ paid' = 0
    /\ UNCHANGED <<votes, asked>>

Promise ==
    \/ \E p \in Proposals : Open(p)
    \/ \E p \in Proposals, member \in People : Count(p, member)
    \/ PayIn
    \/ \E p \in Proposals, threshold \in 0..Cardinality(People) : PayOn(p, threshold)
    \/ PayElsewhere
    \/ HandOver

PromiseSpec == PromiseInit /\ [][Promise]_promised
=============================================================================
