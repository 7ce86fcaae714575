------------------------------ MODULE MCInvoices ------------------------------
(* Instances of Invoices for TLC.  A year has two months, so that a         *)
(* financial year that does not open in January is the second month's.      *)
EXTENDS Invoices, TLC

CONSTANTS i1, i2, i3, p1, p2, a1

Symmetry == Permutations(Invoices) \cup Permutations(Posters)

(* Dates: the second month of one year and both months of the next.         *)
Date == [early |-> 3, january |-> 4, july |-> 5]

Local(on) == [issued_on |-> on, amount |-> "local"]
Abroad(on) == [issued_on |-> on, amount |-> "abroad"]

TwoMonths == {Local(Date.january), Abroad(Date.july)}
TwoYears == {Local(Date.early), Local(Date.january)}
OneMonth == {Local(Date.january)}
ThreeMonths == {Local(Date.early), Local(Date.january), Local(Date.july)}

(* config/numbering/books.toml: INV-{YYYY}-#####, by financial year.        *)
BooksDefault == [pattern |-> {"YYYY"}, reset_period |-> "fiscal_year",
                 start_at |-> 1, is_active |-> TRUE]
Raised == [BooksDefault EXCEPT !.start_at = 2]
Monthly == [BooksDefault EXCEPT !.pattern = {"YYYY", "MM"}, !.reset_period = "monthly"]

Off == [BooksDefault EXCEPT !.is_active = FALSE]

NoChange == {}
MovingStart == {BooksDefault, Raised, Off}
AnyChange == {Raised, Monthly}
=============================================================================
