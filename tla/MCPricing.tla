------------------------------ MODULE MCPricing ------------------------------
(* Instances of Pricing for TLC: cents at four places, whole percentages,  *)
(* and a third of a cent to find the halves.                               *)
EXTENDS Pricing

\* One and a half, and one taken back.
TwoQuantities == {15000, -10000}

\* 0.025, whose taxes are halves of a cent and less, and 0.33.
TwoPrices == {250, 3300}

Tax(code, compound, sequence) ==
    [code |-> code, compound |-> compound, sequence |-> sequence]

\* A value added tax; two that follow one another, stored the other way round; and
\* a chain of three.
SomeGroups ==
    [ vat   |-> <<Tax("vat", FALSE, 0)>>,
      qst   |-> <<Tax("qst", TRUE, 1), Tax("gst", FALSE, 0)>>,
      chain |-> <<Tax("gst", FALSE, 0), Tax("vat", TRUE, 1), Tax("qst", TRUE, 2)>> ]

Rate(rate, from, to) == [rate |-> rate, from |-> from, to |-> to]

\* The value added tax rises on the second day, and the qst begins then.
SomeWindows ==
    [ vat |-> {Rate(20, 1, 2), Rate(21, 2, 9)},
      gst |-> {Rate(5, 1, 9)},
      qst |-> {Rate(10, 2, 9)} ]

TwoDays == {1, 2}
TwoRates == {1093, 124}
=============================================================================
