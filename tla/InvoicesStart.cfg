SPECIFICATION FairSpec
CONSTANTS
    i1 = i1  i2 = i2  i3 = i3  p1 = p1  p2 = p2  a1 = a1
    MonthsPerYear = 2
    Invoices = {i1, i2}
    Posters = {p1, p2}
    Admins = {a1}
    Contents <- OneMonth
    Foreign = {"abroad"}
    Changes <- MovingStart
    Openings = {}
    InitialSettings <- BooksDefault
    InitialOpening = 1
    NULL = NULL
CHECK_DEADLOCK FALSE
INVARIANT AllocationIsFresh
PROPERTY PostsEnd
