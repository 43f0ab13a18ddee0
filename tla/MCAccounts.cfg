\* Two requests at a time.  Three failures lock the account, and two requests
\* at once can stretch that to five wrong passwords before the one that locks.
SPECIFICATION Spec
CONSTANTS
    c1 = c1
    c2 = c2
    p1 = p1
    p2 = p2
    u1 = u1
    u2 = u2
    u3 = u3
    Calls <- TwoCalls
    Passwords <- TwoPasswords
    MaxAttempts = 3
    MaxSessions = 3
    FewSessions = 2
    MaxResets = 1
    Visits <- TwoCalls
    Persons <- ThreePersons
    Emails = {e1, e2}
    Companies = {k1, k2}
    MaxInvites = 1
    Founder = u1
    FounderEmail = e1
    FirstCompany = k1
    NoUser = NoUser
    Purged = Purged
    Tombstone = Tombstone
SYMMETRY Symmetries
\* A request that began when the limits were reached cannot go on.
CHECK_DEADLOCK FALSE
INVARIANTS TypeOK GuessesAreBounded SessionsAreFew
PROPERTIES AdminsRemain
