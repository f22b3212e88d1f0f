---------------------------- MODULE MCQuotations ----------------------------
(* Two rate cards, one with a minimum, and amounts that do not divide evenly. *)
EXTENDS Quotations, TLC

MCCard ==
    << [material_rate |-> 300, machine_rate |-> 1000, setup_fee |-> 7, contingency_bps |-> 333,
        minimum_order |-> 0, tax_bps |-> 1800],
       [material_rate |-> 0, machine_rate |-> 1, setup_fee |-> 0, contingency_bps |-> 1,
        minimum_order |-> 5000, tax_bps |-> 1] >>

MCMeasured == {[filament_mg |-> 1501, duration_seconds |-> 3601]}

MCAdjustment == {-60}

MCFulfilment == {40}

SessionSymmetry == Permutations(Owner) \cup Permutations(Buyer) \cup Permutations(Asset)
=============================================================================
