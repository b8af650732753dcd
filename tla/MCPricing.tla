----------------------------- MODULE MCPricing ------------------------------
(* Products to price, for TLC.  Money is in units of 1/10000. *)
EXTENDS Pricing

\* Costs from nothing to about 5 USD, at and around cents; limits in whole
\* cents, below, between and above the prices, the contradictory ones included.
MarkupItems ==
    [cost : {0, 1, 49, 1999, 12345, 26087, 49999}, fixed : {None},
     markup : {0, 15, 40}, min : {0, 12000}, max : {0, 2500, 20000}]

\* The same, and products whose price is fixed by hand.
MCItems ==
    MarkupItems \cup
    [cost : {20000}, fixed : {59900, 15000}, markup : {15}, min : {20000}, max : {0}]
=============================================================================
