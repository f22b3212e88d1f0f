------------------------------- MODULE Pricing -------------------------------
(***************************************************************************)
(* The money arithmetic of an estimate and of the quotation issued from    *)
(* it: whole paise, every fraction rounded up by itself.                   *)
(***************************************************************************)
EXTENDS Integers

\* Hundredths of a percent.
BasisPoints == 0..10000

\* One rate card: prices per gram, per hour and per order, and two rates.
RateCard == [material_rate : Nat, machine_rate : Nat, setup_fee : Nat,
             contingency_bps : BasisPoints, minimum_order : Nat, tax_bps : BasisPoints]

\* What the slicer measured, times the number of copies.
Measurement == [filament_mg : Nat, duration_seconds : Nat]

CeilRatio(n, d) == (n + d - 1) \div d

AtLeast(n, least) == IF n >= least THEN n ELSE least

\* Tax on an amount that is not negative.
TaxOn(amount, bps) == CeilRatio(amount * bps, 10000)

MaterialCost(x, card) == CeilRatio(x.filament_mg * card.material_rate, 1000)

MachineCost(x, card) == CeilRatio(x.duration_seconds * card.machine_rate, 3600)

\* Faulty: an order below the minimum is priced at the minimum, and the line
\* that explains the difference keeps the contingency out.
BreakdownLoseContingency(x, card) ==
    LET subtotal    == MaterialCost(x, card) + MachineCost(x, card) + card.setup_fee
        contingency == CeilRatio(subtotal * card.contingency_bps, 10000)
        pre_tax     == AtLeast(subtotal + contingency, card.minimum_order)
    IN  [material |-> MaterialCost(x, card), machine |-> MachineCost(x, card),
         setup |-> card.setup_fee, contingency |-> contingency,
         minimum_adjustment |-> pre_tax - subtotal, pre_tax |-> pre_tax]

\* calculate_pricing_v1
Breakdown(x, card) ==
    LET subtotal    == MaterialCost(x, card) + MachineCost(x, card) + card.setup_fee
        contingency == CeilRatio(subtotal * card.contingency_bps, 10000)
        pre_tax     == AtLeast(subtotal + contingency, card.minimum_order)
    IN  [material |-> MaterialCost(x, card), machine |-> MachineCost(x, card),
         setup |-> card.setup_fee, contingency |-> contingency,
         minimum_adjustment |-> pre_tax - (subtotal + contingency), pre_tax |-> pre_tax]

\* The lines of a quotation, in their order.
Lines(price, adjustment, tax, fulfilment) ==
    <<price.material, price.machine, price.setup, price.contingency,
      price.minimum_adjustment, adjustment, tax, fulfilment>>
=============================================================================
