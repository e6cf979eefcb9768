----------------------------- MODULE MCOverlaps -----------------------------
(* Instances of Overlaps for TLC: which slot serves which RPC patterns.    *)
EXTENDS Overlaps, TLC

CONSTANTS s1, s2

\* The data values are interchangeable; the slots are not.
Interchangeable ==
    Permutations(Users) \cup Permutations(Devices) \cup Permutations(Fingerprints)
        \cup Permutations(Emails) \cup Permutations(Passwords)
        \cup Permutations(ResetTokens) \cup Permutations(Identities)

\* Upgrades and resets beside every other handler and a second reset.
Writers ==
    (s1 :> {"upgrade", "reset"})
        @@ (s2 :> {"autoreg", "login", "oauth", "forgot", "reset", "delete"})
=============================================================================
