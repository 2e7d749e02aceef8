SPECIFICATION MCSpec
CONSTANTS
    Candidates = {c, d}
    Retries = 1
    Failing = {"trigger", "start", "read", "agent", "send", "save", "update"}
    Lossy = {"start", "dispatch", "complete", "save"}
    MaxIncidents = 2
CHECK_DEADLOCK FALSE
INVARIANTS
    FailedIsEmpty
    DealsUnrepeated
PROPERTIES
    CampaignSettles
    CandidatesJudged
