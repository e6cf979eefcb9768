----------------------------- MODULE MCSession -----------------------------
(* Instances of Session for TLC.                                           *)
EXTENDS Session, TLC

CONSTANTS s1, s2, j1, j2, j3

ThreeIds == Permutations({j1, j2, j3})
TwoIds == Permutations({j1, j2})

\* One request per token at a time, a logout beside it.
OneRefresh == (s1 :> {"open", "refresh"} @@ s2 :> {"logout"})
\* Two requests may present the same token, or one of them logs it out.
RefreshesAndLogout == (s1 :> {"open", "refresh"} @@ s2 :> {"refresh", "logout"})
=============================================================================
