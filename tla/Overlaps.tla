------------------------------ MODULE Overlaps ------------------------------
(***************************************************************************)
(* What the user-service promises although it serialises nothing.  A flush *)
(* writes what its handler made of the document it loaded: two handlers    *)
(* that overlap on one account may undo each other, and so may two that    *)
(* carry one OAuth identity.  Three history variables superimposed on      *)
(* Accounts record those overlaps, and which accounts support brought      *)
(* back; the properties below hold of everything the histories do not      *)
(* name, under every interleaving.                                         *)
(***************************************************************************)
EXTENDS Accounts

VARIABLES
    overtaken,  \* accounts written by a flush that had loaded another document
    crossed,    \* identities that two requests carried at once
    revived     \* accounts whose deletion support took back

histories == <<overtaken, crossed, revived>>

hvars == <<vars, histories>>

\* In this step slot s flushes what it made of user u.
Flushes(s, u) ==
    /\ call[s].uid = u /\ call'[s] # call[s]
    /\ users'[u] # users[u] \/ spent' # spent

Overtakes(u) == \E s \in Slots : Flushes(s, u) /\ call[s].loaded # users[u]

Crosses(i) ==
    \E s, r \in Slots : s # r /\ call'[s].identity = i /\ call'[r].identity = i

Revives(u) == users[u].deletedAt = "recent" /\ users'[u].deletedAt = "no"

HInit == Init /\ overtaken = {} /\ crossed = {} /\ revived = {}

HNext ==
    /\ Next
    /\ overtaken' = overtaken \cup {u \in Users : Overtakes(u)}
    /\ crossed' = crossed \cup {i \in Identities : Crosses(i)}
    /\ revived' = revived \cup {u \in Users : Revives(u)}

HSpec == HInit /\ [][HNext]_hvars

----------------------------------------------------------------------------
(* Properties.                                                             *)

\* createAutoregUser and upgradeAccount: once an account has a real identity,
\* no session obtained with the bare fingerprint can be refreshed for it,
\* unless support brought it back from a deletion (which an upgrade under
\* way may have overtaken).
AnchorDies ==
    \A g \in grants : g.via = "device" /\ Refreshable(g) /\ g.uid \notin revived
                        => users[g.uid].accountType = "autoreg"

\* resetPassword and deleteUser revoke what the old password opened: a login
\* session that can still be refreshed was opened with the password of
\* today, unless a flush on its account overtook another one (and took the
\* version bump back).
StaleLoginIsDead ==
    \A g \in grants : g.via = "password" /\ Refreshable(g) /\ g.uid \notin overtaken
                        => users[g.uid].passwordHash = g.cred

\* resetPassword: a link that was used is used again only by a request that
\* had loaded its account before the first use was flushed.
ReuseIsOvertaken ==
    [][\A t \in ResetTokens : spent'[t] > spent[t] /\ spent[t] > 0 =>
            \E s \in Slots : /\ call[s].pc = "apply" /\ call[s].token = t
                             /\ call[s].uid \in overtaken']_hvars

\* forgotPassword and resetPassword share one field: a mailed link that would
\* work goes on working until it is used, a newer link takes its place
\* (mailed or not: a failed dispatch is swallowed), or the account is
\* deleted.  No older link comes back, and none ends by the use of another,
\* unless that flush overtook another one.
Opens(u, t) == Active(u) /\ users[u].resetPasswordToken = t /\ t \in mailed

LinkSurvives ==
    [][\A u \in Users, t \in ResetTokens : Opens(u, t) =>
            \/ users'[u].resetPasswordToken = t
            \/ spent'[t] > spent[t]
            \/ users'[u].resetPasswordToken \notin mailed \cup {None}
            \/ users'[u].deletedAt # "no"
            \/ u \in overtaken']_hvars

\* deleteUser scrubs the address: a soft-deleted account holds one only where
\* an upgrade and the deletion overtook each other.
DeletedFreesAddress ==
    \A u \in Users : Stored(u) /\ users[u].deletedAt # "no" /\ users[u].email # None
                        => u \in overtaken

\* upgradeAccount and findOrCreateOAuthUser: an OAuth identity leads to one
\* live account, unless two requests carried it at once, support brought one
\* of the two accounts back, or a flush on one of them overtook another.
OneLiveOwner ==
    \A u, v \in Users \ (overtaken \cup revived) :
        /\ Active(u) /\ Active(v)
        /\ (users[u].oauthLinks \cap users[v].oauthLinks) \ crossed # {}
        => u = v
=============================================================================
