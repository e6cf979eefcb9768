----------------------------- MODULE MCAccounts -----------------------------
(* Instances of Accounts for TLC: which slot serves which RPC patterns.    *)
EXTENDS Accounts, TLC

CONSTANTS s1, s2

\* The data values are interchangeable; the slots are not.
Interchangeable ==
    Permutations(Users) \cup Permutations(Devices) \cup Permutations(Passwords)
        \cup Permutations(ResetTokens)

\* The life of an account to its purge: every pattern is served, and autoreg
\* and upgrade overlap all the others.
Lifecycle ==
    (s1 :> {"autoreg", "upgrade"}) @@ (s2 :> {"oauth", "login", "forgot", "reset", "delete"})

\* Concurrent autoregs.
TwoAutoregs == [s \in Slots |-> {"autoreg"}]

\* Concurrent resets.
TwoResets == (s1 :> {"autoreg", "upgrade", "forgot", "reset"}) @@ (s2 :> {"reset"})
=============================================================================
