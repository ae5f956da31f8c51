SPECIFICATION Spec
CONSTANTS
    v = v
    i = i
    plain = plain
    rude = rude
    old = old
    new = new
    ban = ban
    word = word
    Posts <- TwoPosts
    Covers <- Coverage
    RuleTables <- Tables
    AuthorRules <- BothAuthors
    Replacement <- Renames
    Senders = {s1}
    RuleCalls = {w1}
    Edits = {e1}
    Window = 1
    MaxClock = 0
INVARIANTS
    ScanReplaces
CHECK_DEADLOCK FALSE
