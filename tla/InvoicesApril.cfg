SPECIFICATION Spec
CONSTANTS
    i1 = i1  i2 = i2  i3 = i3  p1 = p1  p2 = p2  a1 = a1
    MonthsPerYear = 2
    Invoices = {i1, i2, i3}
    Posters = {p1}
    Admins = {}
    Contents <- ThreeMonths
    Foreign = {"abroad"}
    Changes <- NoChange
    Openings = {}
    InitialSettings <- BooksDefault
    InitialOpening = 2
    NULL = NULL
CHECK_DEADLOCK FALSE
INVARIANT NumberSaysItsPeriod
