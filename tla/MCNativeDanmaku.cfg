SPECIFICATION Spec
CONSTANTS
    v = v
    i = i
    plain = plain
    rude = rude
    old = old
    new = new
    ban = ban
    word = word
    Posts <- TwoPosts
    Covers <- Coverage
    RuleTables <- Tables
    AuthorRules <- BothAuthors
    Replacement <- Renames
    Senders = {s1, s2}
    RuleCalls = {w1}
    Edits = {e1}
    Window = 1
    MaxClock = 2
SYMMETRY SenderSymmetry
INVARIANTS
    OnePerWindow
    ScanIsComplete
    StaleIsPending
    NobodyStuck
PROPERTIES
    RulesInForce
    LiveVideosOnly
CHECK_DEADLOCK FALSE
