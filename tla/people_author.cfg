SPECIFICATION PeopleSpec
CONSTANTS
    Names = {1, 2, 3}
    Titles = {"w1"}
    Credited <- OneWork
    Alike <- AllAlike
    Identifiers = {"Q1"}
    Staffers = {r1}
    MaxRequests = 3
    Subjects = {"authors"}
    NoName = 0
    NoIdentifier = "none"
PROPERTIES NamedLeads
CHECK_DEADLOCK FALSE
