SPECIFICATION ChatSpec
CONSTANTS
    Turn = {t1, t2}
    Document = {"document"}
    Capacity = 1
    TTL = 0
    Window = 2
    MaxAsked = 3
    MaxConversation = 2
    MaxIssued = 2
    MaxNow = 1
    None = None
    Task = {"judgment", "document", "assume", "propose"}
    FactsOf <- Facts
    Exact = {"result"}
    Id = {1, 2}
    Drafts <- DraftsOfTwo
    Repairs <- RepairsOfTwo
SYMMETRY Symmetric
INVARIANTS AnswersNotLost OneInstant OnlyVerifiedIsSaid
CHECK_DEADLOCK FALSE
