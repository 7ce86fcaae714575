-------------------------------- MODULE Pricing --------------------------------
(***************************************************************************)
(* What an invoice comes to: quantities, prices and tax groups in, the     *)
(* figures of every line and of the document out.                          *)
(*                                                                         *)
(*   app-books/src/pricing.rs, quantity.rs   quantity times price           *)
(*   phonix-tax/src/group.rs, rate.rs        a group resolved for a date    *)
(*   phonix-tax/src/compute.rs               the factors, both roundings    *)
(*   phonix-core/src/money/                  the divisions, the conversion  *)
(*   phonix-services/src/books/invoice.rs    price, conversion_for          *)
(*                                                                         *)
(* The arithmetic is the code's, over its scaled integers; the scales are  *)
(* constants.  A draft is priced from nothing whenever it changes, by the  *)
(* browser and by the server alike.  Every line is in the document's       *)
(* currency, every group there is and switched on, and no figure reaches   *)
(* the end of its column.                                                  *)
(***************************************************************************)
EXTENDS Integers, Sequences, SequencesExt, FiniteSets, FiniteSetsExt

CONSTANTS
    Quantities,    \* the quantities of a line, times QuantityOne; may be negative
    Prices,        \* the unit prices, at the storage scale
    Groups,        \* the members of each tax group, in the order they are stored
    Windows,       \* the effective-dated rates of each tax code
    Days,          \* the dates a document may bear
    ExchangeRates, \* the published rates into the organization's currency
    QuantityOne,   \* QUANTITY_ONE
    RateOne,       \* RATE_ONE; FACTOR_ONE is its square
    MinorUnit,     \* the minor unit of both currencies, at the storage scale
    ExchangeOne,   \* 10^RATE_SCALE of an exchange rate
    MaxLines       \* bound: the lines of a document

ASSUME PricingAssumption ==
    /\ Quantities \subseteq Int /\ Prices \subseteq Int /\ ExchangeRates \subseteq Int
    /\ {QuantityOne, RateOne, MinorUnit, ExchangeOne} \subseteq Nat \ {0}
    /\ \A c \in DOMAIN Windows : \A w \in Windows[c] : w.rate \in Nat /\ w.from < w.to
    /\ \A g \in DOMAIN Groups :
          /\ DOMAIN Groups[g] = 1..Len(Groups[g]) /\ Len(Groups[g]) \in Nat
          /\ \A i, j \in DOMAIN Groups[g] :
                /\ Groups[g][i].code \in DOMAIN Windows /\ Groups[g][i].sequence \in Int
                /\ Groups[g][i].compound \in BOOLEAN
                /\ i # j => Groups[g][i].code # Groups[g][j].code
                            /\ Groups[g][i].sequence # Groups[g][j].sequence

VARIABLES
    basis,   \* what the document stores beside its lines: pricing, level, mode, day
    lines,   \* quantity, unit price and tax group of each line
    totals,  \* what it came to when it was last priced, or Refused
    posted   \* the conversion snapshot, once it has been posted

vars == <<basis, lines, totals, posted>>

Offered == [pricing |-> {"exclusive", "inclusive"}, level |-> {"line", "document"},
            mode |-> {"half_up", "half_even"}, day |-> Days]

OutOfScope == "none"        \* a line without a tax group
Lines == [quantity : Quantities, price : Prices, group : DOMAIN Groups \cup {OutOfScope}]
Refused == [net |-> 0, tax |-> 0, gross |-> 0, lines |-> <<>>, refused |-> TRUE]
Draft == [rate |-> 0, gross |-> 0, base |-> 0]
FactorOne == RateOne * RateOne

-----------------------------------------------------------------------------
(* Divisions                                                               *)

Magnitude(n) == IF n < 0 THEN -n ELSE n
Signed(n, magnitude) == IF n < 0 THEN -magnitude ELSE magnitude

\* The half goes away from zero, or to the even quotient.
round_div(value, divisor, mode) ==
    LET quotient == Magnitude(value) \div divisor
        twice == 2 * (Magnitude(value) % divisor)
        up == \/ twice > divisor
              \/ twice = divisor /\ (mode = "half_up" \/ quotient % 2 # 0)
    IN  Signed(value, IF up THEN quotient + 1 ELSE quotient)

scale_by(amount, numerator, denominator, mode) ==
    round_div(amount * numerator, denominator, mode)

round_to_minor(amount, mode) == MinorUnit * round_div(amount, MinorUnit, mode)

convert(amount, rate) ==
    round_to_minor(round_div(amount * rate, ExchangeOne, "half_up"), "half_up")

-----------------------------------------------------------------------------
(* The taxes of a line                                                     *)

covers(w, day) == w.from <= day /\ day < w.to

resolvable(group, day) ==
    \A i \in DOMAIN Groups[group] : \E w \in Windows[Groups[group][i].code] : covers(w, day)

RateOn(code, day) == (CHOOSE w \in Windows[code] : covers(w, day)).rate

Applied(member, day) ==
    [code |-> member.code, compound |-> member.compound,
     sequence |-> member.sequence, rate |-> RateOn(member.code, day)]

\* Mutant: the order the members are stored in is trusted.
resolveAsStored(group, day) ==
    IF group = OutOfScope THEN <<>>
    ELSE [i \in DOMAIN Groups[group] |-> Applied(Groups[group][i], day)]

\* The members of each group by their sequence.
InSequence ==
    [group \in DOMAIN Groups |->
        CHOOSE members \in [DOMAIN Groups[group] -> ToSet(Groups[group])] :
            \A i, j \in DOMAIN members : i < j => members[i].sequence < members[j].sequence]

resolve(group, day) ==
    IF group = OutOfScope THEN <<>>
    ELSE [i \in DOMAIN Groups[group] |-> Applied(InSequence[group][i], day)]

\* What each tax is charged on and what it comes to, as factors of the net: a
\* compound tax takes the base and every factor before it.  The division by
\* RATE_ONE truncates.
Factor(sofar, tax) ==
    LET base == FactorOne + IF tax.compound THEN sofar.accumulated ELSE 0
        factor == (base * tax.rate) \div RateOne
    IN  [accumulated |-> sofar.accumulated + factor,
         of |-> Append(sofar.of, [code |-> tax.code, base |-> base, factor |-> factor])]

Factors(taxes) == FoldLeft(Factor, [accumulated |-> 0, of |-> <<>>], taxes)

\* One line before any rounding to the minor unit.
exact_line(line, b) ==
    LET factors == Factors(resolve(line.group, b.day))
        amount == scale_by(line.price, line.quantity, QuantityOne, b.mode)
        net == IF b.pricing = "exclusive" THEN amount
               ELSE scale_by(amount, FactorOne, FactorOne + factors.accumulated, b.mode)
        Charged(f) == [code |-> f.code,
                       taxable |-> scale_by(net, f.base, FactorOne, b.mode),
                       amount |-> scale_by(net, f.factor, FactorOne, b.mode)]
    IN  [net |-> net, given |-> amount,
         taxes |-> [i \in DOMAIN factors.of |-> Charged(factors.of[i])]]

-----------------------------------------------------------------------------
(* The document                                                            *)

\* Line: each line's tax is rounded.  Document: a line gets the difference between
\* its code's running total, rounded, and what has been given out of it so far.
\* Mutants: what was given last is taken for what was given so far; each share is
\* rounded again on its own.
ShareSinceLast(doc, tax, b) ==
    LET exact == doc.exact[tax.code] + tax.amount
        target == round_to_minor(exact, b.mode)
        amount == IF b.level = "line" THEN round_to_minor(tax.amount, b.mode)
                  ELSE target - doc.given[tax.code]
    IN  [doc EXCEPT !.exact[tax.code] = exact, !.given[tax.code] = amount,
                    !.taxes = Append(@, [code |-> tax.code,
                        taxable |-> round_to_minor(tax.taxable, b.mode), amount |-> amount])]

ShareOfItself(doc, tax, b) ==
    LET amount == round_to_minor(tax.amount, b.mode)
    IN  [doc EXCEPT !.taxes = Append(@, [code |-> tax.code,
                        taxable |-> round_to_minor(tax.taxable, b.mode), amount |-> amount])]

Share(doc, tax, b) ==
    LET exact == doc.exact[tax.code] + tax.amount
        target == round_to_minor(exact, b.mode)
        amount == IF b.level = "line" THEN round_to_minor(tax.amount, b.mode)
                  ELSE target - doc.given[tax.code]
    IN  [doc EXCEPT !.exact[tax.code] = exact, !.given[tax.code] = target,
                    !.taxes = Append(@, [code |-> tax.code,
                        taxable |-> round_to_minor(tax.taxable, b.mode), amount |-> amount])]

\* Inclusive keeps the price and lets the net absorb what rounding left over;
\* exclusive rounds the net and adds the tax.
Assemble(doc, raw, b) ==
    LET shared == FoldLeft(LAMBDA d, tax : Share(d, tax, b), [doc EXCEPT !.taxes = <<>>], raw.taxes)
        tax == SumFunction([i \in DOMAIN shared.taxes |-> shared.taxes[i].amount])
        net == IF b.pricing = "exclusive" THEN round_to_minor(raw.net, b.mode)
               ELSE raw.given - tax
    IN  [shared EXCEPT !.lines = Append(@, [net |-> net, tax |-> tax, gross |-> net + tax,
                                            taxes |-> shared.taxes])]

Nothing == [lines |-> <<>>, taxes |-> <<>>,
            exact |-> [c \in DOMAIN Windows |-> 0], given |-> [c \in DOMAIN Windows |-> 0]]

compute(ls, b) ==
    LET doc == FoldLeft(LAMBDA d, l : Assemble(d, exact_line(l, b), b), Nothing, ls)
        net == SumFunction([n \in DOMAIN ls |-> doc.lines[n].net])
        tax == SumFunction([n \in DOMAIN ls |-> doc.lines[n].tax])
    IN  [net |-> net, tax |-> tax, gross |-> net + tax, lines |-> doc.lines, refused |-> FALSE]

\* summarise: one entry for each code on the document.
OnLine(line, code) ==
    SumFunction([i \in {j \in DOMAIN line.taxes : line.taxes[j].code = code}
                    |-> line.taxes[i].amount])
Codes(ls) == UNION {{ls[n].taxes[i].code : i \in DOMAIN ls[n].taxes} : n \in DOMAIN ls}
by_tax(ls, code) == SumFunction([n \in DOMAIN ls |-> OnLine(ls[n], code)])

\* A group with a member without a rate on the date refuses the document.
price(ls, b) ==
    IF \A n \in DOMAIN ls : ls[n].group # OutOfScope => resolvable(ls[n].group, b.day)
    THEN compute(ls, b) ELSE Refused

-----------------------------------------------------------------------------
(* A draft under a person's hands                                          *)

Init ==
    /\ \E day \in Days :
          basis = [pricing |-> "exclusive", level |-> "line", mode |-> "half_up", day |-> day]
    /\ lines = <<>> /\ totals = price(lines, basis)
    /\ posted = Draft

Editable == posted = Draft

AddLine(line) ==
    /\ Editable /\ Len(lines) < MaxLines
    /\ lines' = Append(lines, line)
    /\ totals' = price(lines', basis)
    /\ UNCHANGED <<basis, posted>>

RemoveLine(n) ==
    /\ Editable
    /\ lines' = RemoveAt(lines, n)
    /\ totals' = price(lines', basis)
    /\ UNCHANGED <<basis, posted>>

\* Another date, pricing or rounding: every line is resolved and priced again.
ChangeBasis(field) ==
    /\ Editable
    /\ \E choice \in Offered[field] \ {basis[field]} : basis' = [basis EXCEPT ![field] = choice]
    /\ totals' = price(lines, basis')
    /\ UNCHANGED <<lines, posted>>

\* conversion_for, of a document in another currency than the organization's.
Post(rate) ==
    /\ Editable /\ ~totals.refused /\ lines # <<>>
    /\ posted' = [rate |-> rate, gross |-> totals.gross, base |-> convert(totals.gross, rate)]
    /\ UNCHANGED <<basis, lines, totals>>

Next ==
    \/ \E line \in Lines : AddLine(line)
    \/ \E n \in DOMAIN lines : RemoveLine(n)
    \/ \E field \in DOMAIN Offered : ChangeBasis(field)
    \/ \E rate \in ExchangeRates : Post(rate)

Spec == Init /\ [][Next]_vars

-----------------------------------------------------------------------------
(* Properties                                                              *)

\* The exact figures of the lines, from scratch.
Raw == FoldLeft(LAMBDA raws, l : Append(raws, exact_line(l, basis)), <<>>, lines)

\* The lines add up to the footer, and the footer is the one a person checking
\* the document by hand would get (compute.rs:41-46): a code's total over the
\* document, rounded once, or the sum of what each line rounded.
TotalIsByHand ==
    LET raw == Raw
        ByHand(c) ==
            IF basis.level = "document" THEN round_to_minor(by_tax(raw, c), basis.mode)
            ELSE SumFunction([n \in DOMAIN raw |-> round_to_minor(OnLine(raw[n], c), basis.mode)])
    IN  ~totals.refused =>
            /\ totals.gross = SumFunction([n \in DOMAIN lines |-> totals.lines[n].gross])
            /\ totals.tax = SumFunction([c \in Codes(raw) |-> ByHand(c)])
            /\ \A c \in Codes(raw) : by_tax(totals.lines, c) = ByHand(c)

\* Sharing the rounding out is no reason for a line to carry somebody else's tax:
\* what it is given is payable, within one minor unit of its own tax, and nothing
\* when that is nothing; and a quoted price stays the price (compute.rs:48-54,
\* 289-293), whatever the lines around it, discounts among them.
SharesAreFair ==
    LET raw == Raw
    IN  ~totals.refused => \A n \in DOMAIN lines :
            /\ basis.pricing = "inclusive" => totals.lines[n].gross = raw[n].given
            /\ \A i \in DOMAIN raw[n].taxes :
                LET given == totals.lines[n].taxes[i].amount
                    own == raw[n].taxes[i].amount
                IN  /\ Magnitude(given - own) <= MinorUnit
                    /\ own = 0 => given = 0
                    /\ given % MinorUnit = 0

\* A compound tax is charged on the net and all the taxes before it in sequence,
\* another on the net alone (compute.rs:17-33): step by step, with a rounding at
\* each, one gets what the factors give within a storage unit, half of one at the
\* rate for each tax it is charged on, and one for each FACTOR_ONE of the net, to
\* which a factor is truncated.  Of an inclusive price, the net and its taxes are
\* the whole within half a unit for each, and what half a unit of net bears.
ChargedOnWhatComesBefore ==
    ~totals.refused => \A n \in DOMAIN lines :
        LET raw == exact_line(lines[n], basis)
            on == {raw.taxes[i].code : i \in DOMAIN raw.taxes}
            Member(c) == CHOOSE m \in ToSet(Groups[lines[n].group]) : m.code = c
            Tax(c) == OnLine(raw, c)
            Under(c) == {d \in on : Member(c).compound /\ Member(d).sequence < Member(c).sequence}
            Charged(c) == raw.net + SumFunction([d \in Under(c) |-> Tax(d)])
            rate(c) == RateOn(c, basis.day)
            ByStep(c) == scale_by(Charged(c), rate(c), RateOne, basis.mode)
            bears == Factors(resolve(lines[n].group, basis.day)).accumulated
        IN  /\ \A c \in on :
                2 * FactorOne * (Magnitude(Tax(c) - ByStep(c)) - 1)
                    <= RateOne * (rate(c) * Cardinality(Under(c))) + 2 * Magnitude(raw.net)
            /\ basis.pricing = "inclusive" =>
                2 * FactorOne * Magnitude(raw.net + SumFunction([c \in on |-> Tax(c)]) - raw.given)
                    <= FactorOne * (1 + Cardinality(on)) + bears

\* `rounded to the base currency's minor unit, once`: `exactly one rounding between
\* the amount and the answer` (exchange.rs:236, 246-247).
ConvertedOnce ==
    posted # Draft =>
        posted.base = MinorUnit * round_div(posted.gross * posted.rate,
                                            ExchangeOne * MinorUnit, "half_up")

\* `The rounding somebody sees happens later and once` (pricing.rs:18-21): every
\* figure of a document is one that can be paid.
FiguresArePayable ==
    {totals.net, totals.tax, totals.gross} \subseteq {MinorUnit * k : k \in -9999..9999}

\* What of that holds: the taxes can be paid, and under exclusive pricing the net
\* and the whole as well, of each line and of the document (compute.rs:349-355).
TaxesArePayable ==
    LET Payable(figures) ==
            /\ figures.tax % MinorUnit = 0
            /\ basis.pricing = "exclusive" => /\ figures.net % MinorUnit = 0
                                              /\ figures.gross % MinorUnit = 0
    IN  ~totals.refused => Payable(totals) /\ \A n \in DOMAIN lines : Payable(totals.lines[n])

\* What of the other holds: what is posted can be paid, is of the document as it is
\* posted, and is never more than a minor unit away from one rounding.
PostedNearly ==
    posted # Draft =>
        /\ posted.gross = totals.gross /\ posted.base % MinorUnit = 0
        /\ Magnitude(posted.base - MinorUnit * round_div(posted.gross * posted.rate,
                                                         ExchangeOne * MinorUnit, "half_up"))
              <= MinorUnit
=============================================================================
