---------------------------- MODULE MCLeePublic ----------------------------
(***************************************************************************)
(* LeePublic with two programs that may do anything a guest can journal    *)
(* about the accounts they are handed: move, mint or burn balance, write   *)
(* data, claim, and call each other with stale, forged or re-marked        *)
(* accounts.                                                               *)
(***************************************************************************)
EXTENDS LeePublic

CONSTANTS P, Q, user, fresh, vault, other, s, d

\* The vault is a PDA of P, "other" one of Q.
MCPdaOf(p, seed) == IF p = P THEN vault ELSE other

MCGenesis ==
    [a \in AccountIds |->
        IF a = user THEN [program_owner |-> P, balance |-> 1, data |-> NoData, nonce |-> 0]
        ELSE DefaultAccount]

MCTransactions ==
    {[origin |-> "User", program_id |-> p, account_ids |-> <<user, a>>, signers |-> signers,
      nonces |-> [i \in DOMAIN signers |-> 0], instruction |-> "any"] :
     <<p, signers, a>> \in {<<P, <<>>, vault>>, <<P, <<user>>, vault>>,
                            <<Q, <<fresh, user>>, vault>>, <<Q, <<fresh, user>>, fresh>>}}

\* New balances of the two accounts: unchanged, moved either way, or minted.
Balances(x, y) ==
    {<<x, y>>, <<x - 1, y + 1>>, <<x + 1, y - 1>>, <<x, y + 1>>}

\* Data written to neither account or to the second.
Datas(x, y) == {<<x, y>>, <<x, d>>}

NoClaim == [kind |-> "None"]

Claims ==
    {<<NoClaim, c>> : c \in {NoClaim, [kind |-> "Authorized"], [kind |-> "Pda", seed |-> s]}}

\* A program may also leave out both accounts.
Posts(pres) ==
    {<<>>} \cup
    {[i \in 1..2 |->
        [account |-> [pres[i].account EXCEPT !.balance = b[i], !.data = w[i]],
         claim |-> c[i]]] :
     b \in Balances(pres[1].account.balance, pres[2].account.balance),
     w \in Datas(pres[1].account.data, pres[2].account.data),
     c \in Claims}

\* The accounts as a program leaves them.
Left(p, pres, posts) ==
    [i \in 1..2 |-> IF posts = <<>> THEN pres[i].account ELSE Claimed(posts[i], p)]

\* What else it may tell a callee: how they were before it wrote them, or the
\* second one with a balance it made up.
Lies(p, pres, posts) ==
    {[i \in 1..2 |-> pres[i].account],
     [Left(p, pres, posts) EXCEPT ![2].balance = MaxBalance - @]}

Call(q, pres, told, seeds, mark) ==
    [program_id |-> q, instruction |-> "any", pda_seeds |-> seeds,
     pre_states |-> [i \in 1..2 |->
         [account_id |-> pres[i].account_id,
          account |-> told[i],
          is_authorized |-> IF i = 2 THEN mark ELSE pres[i].is_authorized]]]

\* Calls to either program on these accounts; the second one, as the program
\* leaves it, is marked authorized as it was, or with or without a seed for it.
Calls(p, pres, posts) ==
    LET same == pres[2].is_authorized IN
    {<<>>} \cup
    {<<Call(q, pres, told, {}, same)>> :
        q \in {P, Q}, told \in {Left(p, pres, posts)} \cup Lies(p, pres, posts)} \cup
    {<<Call(q, pres, Left(p, pres, posts), seeds, TRUE)>> : q \in {P, Q}, seeds \in {{}, {s}}}

MCExecute(p, caller, pres, instruction) ==
    UNION {[self_program_id : {p}, caller_program_id : {caller},
            pre_states : {SubSeq(pres, 1, Len(posts))}, post_states : {posts},
            chained_calls : Calls(p, pres, posts),
            block_window : {[from |-> 0, to |-> 1]},
            timestamp_window : {[from |-> 0, to |-> MaxTime + 1]}] :
           posts \in Posts(pres)}

MCAdmissible(t, old, diff, time) == TRUE
=============================================================================
