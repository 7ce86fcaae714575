---------------------------- MODULE NumberPeriods ----------------------------
(***************************************************************************)
(* The arithmetic of a document number: which period a date falls in and   *)
(* what a mask prints (phonix-core/src/numbering).  A date is a month,     *)
(* counted from year 0; days are not kept, so a daily period here is one   *)
(* date.  A printed number is its counter with the date parts its mask     *)
(* shows; literals, widths and padding do not tell two numbers apart.      *)
(***************************************************************************)
EXTENDS Integers

CONSTANT MonthsPerYear  \* 12; a model may use a shorter year

ASSUME MonthsAssumption == MonthsPerYear \in Nat \ {0}

Months == 1..MonthsPerYear

Year(on) == on \div MonthsPerYear
Month(on) == (on % MonthsPerYear) + 1

ResetPeriods == {"never", "daily", "monthly", "yearly", "fiscal_year"}

(* The financial year a date falls in, named by the year it opens in.      *)
fiscal_year(on, opening) ==
    IF Month(on) >= opening THEN Year(on) ELSE Year(on) - 1

(* The key the counter is compared under.  Keys of two reset periods are   *)
(* never equal: each kind has a shape of its own.                          *)
key_for(reset, on, opening) ==
    [kind |-> reset,
     n |-> IF reset = "never" THEN 0
           ELSE IF reset = "yearly" THEN Year(on)
           ELSE IF reset = "fiscal_year" THEN fiscal_year(on, opening)
           ELSE on]

PeriodKeys == [kind: ResetPeriods, n: Int]

(* The column's default, '', is what `never' makes of any date.            *)
NoPeriod == [kind |-> "never", n |-> 0]

(* The date tokens of a mask; {YY} prints what {YYYY} does, cut short.     *)
Tokens == {"YYYY", "MM", "FY"}

DatePart(token, on, opening) ==
    IF token = "YYYY" THEN Year(on)
    ELSE IF token = "MM" THEN Month(on)
    ELSE fiscal_year(on, opening)

render(pattern, counter, on, opening) ==
    [counter |-> counter, text |-> {<<t, DatePart(t, on, opening)>> : t \in pattern}]
=============================================================================
