SPECIFICATION FairSpec
INVARIANTS
    TypeOK
    GenuineNotRejected
    OnlyAttestedMerges
    AnswerTellsTheTruth
    StatusSurvives
PROPERTY EveryRequestAnswered
\* A request that is answered, and whose message is gone, is over.
CHECK_DEADLOCK FALSE
