----------------------------- MODULE MCLeePrivate -----------------------------
(***************************************************************************)
(* Two public accounts, two private ones.  Users prove transactions        *)
(* over at most two accounts, from any version of a private account that   *)
(* was ever committed and from one that never was.                         *)
(***************************************************************************)
EXTENDS LeePrivate, SequencesExt

CONSTANTS pub1, pub2, alice, bob

MCGenesisBalance == [a \in PublicIds |-> 0]
MCInitialPrivate ==
    <<[account_id |-> alice, account |-> [balance |-> 1, nonce |-> 1]]>>

\* Runs that keep the total and debit only authorized accounts.
MCPrograms(pub, priv) ==
    {<<p, q>> \in [DOMAIN pub -> 0..MaxBalance] \X [DOMAIN priv -> 0..MaxBalance] :
        /\ MapThenSumSet(LAMBDA i : p[i], DOMAIN pub)
           + MapThenSumSet(LAMBDA i : q[i], DOMAIN priv)
           = MapThenSumSet(LAMBDA i : pub[i].pre.balance, DOMAIN pub)
             + MapThenSumSet(LAMBDA i : priv[i].pre.balance, DOMAIN priv)
        /\ \A i \in DOMAIN pub : pub[i].is_authorized \/ p[i] >= pub[i].pre.balance}

\* A version nobody ever committed.
Forged == [account_id |-> bob, account |-> [balance |-> 1, nonce |-> 1]]

InitEntry(id, identity) ==
    [account_id |-> id, identity |-> identity, pre |-> DefaultAccount, post |-> 0,
     digest |-> 1]

UpdateEntry(c, d) ==
    [account_id |-> c.account_id, identity |-> "AuthorizedUpdate", pre |-> c.account,
     post |-> 0, digest |-> d]

Updates(id, leaves, d) ==
    {UpdateEntry(leaves[k], d) :
        k \in {k \in 2..Len(leaves) : leaves[k].account_id = id}}

\* An empty account is only credited, which needs no authorization.
PublicEntry1(pub) ==
    [account_id |-> pub1, is_authorized |-> pub[pub1].balance > 0, pre |-> pub[pub1],
     post |-> 0]

WithPosts(entries, posts) == [i \in DOMAIN entries |-> [entries[i] EXCEPT !.post = posts[i]]]

\* Paths end at the newest tree, at the one before, or nowhere.
PrivateChoices(leaves) ==
    {<<InitEntry(bob, "AuthorizedInit")>>, <<UpdateEntry(Forged, NoTree)>>}
    \cup {<<e>> : e \in Updates(bob, leaves, Len(leaves))
                       \cup Updates(alice, leaves, Len(leaves) - 1)}
    \cup {<<e, f>> : e \in Updates(alice, leaves, Len(leaves)),
                     f \in {InitEntry(bob, "Unauthorized")}
                           \cup Updates(bob, leaves, Len(leaves))}

\* A proof is over at most two accounts.
PublicChoices(pub, q) == IF Len(q) = 1 THEN {<<>>, <<PublicEntry1(pub)>>} ELSE {<<>>}

\* Spending is tried with and without the signature.
SignerChoices(pub, p) ==
    {{}} \cup (IF p # <<>> /\ pub[pub1].balance > 0 THEN {{pub1}} ELSE {})

MCCandidates(pub, leaves) ==
    UNION {UNION {{[public |-> WithPosts(p, posts[1]), private |-> WithPosts(q, posts[2]),
                    signers |-> s, nonces |-> [a \in PublicIds |-> pub[a].nonce],
                    expires |-> MaxBlock] :
                      posts \in MCPrograms(p, q), s \in SignerChoices(pub, p)} :
                  p \in PublicChoices(pub, q)} :
           q \in PrivateChoices(leaves)}
=============================================================================
