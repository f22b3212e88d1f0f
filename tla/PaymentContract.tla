-------------------------- MODULE PaymentContract --------------------------
(***************************************************************************)
(* What payment confirmation promises for one order: the provider captures *)
(* the money once; only then, and only once, the order is confirmed and    *)
(* production is requested; a confirmation is never taken back.  Payments  *)
(* implements this.                                                        *)
(***************************************************************************)
VARIABLES
    money,   \* "open", "captured" or "refunded": the provider's account
    effect   \* production requests made for the order

Init == money = "open" /\ effect = 0

Capture == money = "open" /\ money' = "captured" /\ UNCHANGED effect

Refund == money = "captured" /\ money' = "refunded" /\ UNCHANGED effect

\* The provider's answer may be older than a refund.
Confirm ==
    /\ money # "open"
    /\ effect = 0
    /\ effect' = 1
    /\ UNCHANGED money

Next == Capture \/ Refund \/ Confirm

Spec == Init /\ [][Next]_<<money, effect>>
=============================================================================
