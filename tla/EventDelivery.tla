--------------------------- MODULE EventDelivery ---------------------------
(***************************************************************************)
(* What the transactional outbox promises to the code that stages events:  *)
(* every staged event is handed to the event bus, at least once, and never *)
(* again once its row is settled.                                          *)
(***************************************************************************)
EXTENDS Naturals

CONSTANT Events

VARIABLES
    promised,   \* the events staged with a domain mutation
    handed,     \* handed[e]: how often e was handed to the bus
    settled     \* the events that will not be handed again

vars == <<promised, handed, settled>>

Init ==
    /\ promised = {} /\ settled = {}
    /\ handed = [e \in Events |-> 0]

Promise(e) ==
    /\ e \in Events \ promised
    /\ promised' = promised \cup {e}
    /\ UNCHANGED <<handed, settled>>

\* A batch of unsettled events goes to the bus, possibly not for the first time.
Hand(S) ==
    /\ S \subseteq promised \ settled
    /\ handed' = [e \in Events |-> IF e \in S THEN handed[e] + 1 ELSE handed[e]]
    /\ UNCHANGED <<promised, settled>>

Settle(S) ==
    /\ S \subseteq promised \ settled
    /\ \A e \in S : handed[e] > 0
    /\ settled' = settled \cup S
    /\ UNCHANGED <<promised, handed>>

Next ==
    \/ \E e \in Events : Promise(e)
    \/ \E S \in (SUBSET Events) \ {{}} : Hand(S) \/ Settle(S)

Spec == Init /\ [][Next]_vars

Fairness ==
    \A e \in Events :
        /\ WF_vars(\E S \in SUBSET Events : e \in S /\ Hand(S))
        /\ WF_vars(\E S \in SUBSET Events : e \in S /\ Settle(S))

FairSpec == Spec /\ Fairness
=============================================================================
