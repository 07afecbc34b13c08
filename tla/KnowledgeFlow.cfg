SPECIFICATION FlowSpec
CONSTANTS
    Target = 3
    HardLimit = 4
    Overlap = 1
    Transcripts <- MCTranscripts
    TokensOf <- MCTokensOf
    RepliesTo <- MCRepliesTo
    ThreadsIn <- MCThreadsIn
    FaultsIn <- MCFaultsIn
    RunsOn <- MCRunsOn
    Ascii <- MCAscii
    Attends = {"Ann"}
    Mentioned = {}
    QuestionsOn <- MCQuestionsOn
    MaxQuestions = 2
    PoolLimit = 1
    OutputLimit = 2
    Attempts = 2
CHECK_DEADLOCK FALSE
INVARIANTS TypeOK WindowsSound CheckpointRestores EvidenceSeenByModel CitedClaimsSurvive RejectedForCause ProvenanceTrue
PROPERTIES AskingEnds IndexSound AnswersGrounded
