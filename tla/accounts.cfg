SPECIFICATION Spec
CONSTANTS
    Users = {u1, u2}
    Sessions = {s1}
    Tokens = {t1}
    Invitations = {i1}
    Tickets = {k1}
    Subjects = {d1}
    Requests = {q1, q2}
    MaxLinks = 1
    MaxAdmissions = 4
    NoOne = NoOne
SYMMETRY Symmetry
INVARIANTS OneLocalOwner PendingIsOwners NothingOlderThanReset OnePersonOneAccount
PROPERTIES OwnerStays AuthorityIsCurrent
CHECK_DEADLOCK FALSE
