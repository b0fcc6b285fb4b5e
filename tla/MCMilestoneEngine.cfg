\* Due dates from well past to beyond the due-soon window, over two days.
SPECIFICATION WorklistSpec
CONSTANTS
    Portfolios <- MCPortfolios
    Contacts <- MCContacts
    Dues = {0, 2, 3, 5, 6, 7}
    FirstDay = 2
    FinalDay = 4
    Closes = {1, 2, 22, 23, 24, 25}
INVARIANTS
    WorklistOrdered
    EmailIsMostUrgentReachable
    OpensWhenTimelineFits
CHECK_DEADLOCK FALSE
