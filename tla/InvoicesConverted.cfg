SPECIFICATION Spec
CONSTANTS
    i1 = i1  i2 = i2  i3 = i3  p1 = p1  p2 = p2  a1 = a1
    MonthsPerYear = 2
    Invoices = {i1}
    Posters = {p1}
    Admins = {}
    Contents <- TwoMonths
    Foreign = {"abroad"}
    Changes <- NoChange
    Openings = {}
    InitialSettings <- BooksDefault
    InitialOpening = 1
    NULL = NULL
CHECK_DEADLOCK FALSE
INVARIANT ConvertedFromItself
