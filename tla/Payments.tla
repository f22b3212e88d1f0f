------------------------------ MODULE Payments ------------------------------
(***************************************************************************)
(* Checkout, signed webhooks and reconciliation of one accepted order with *)
(* the payment provider.                                                   *)
(*                                                                         *)
(* A request is a database session.  It loads the order and the intent,    *)
(* awaits the provider, and writes later; several sessions run at once: a  *)
(* buyer's, an owner's, the worker's, the webhook handler's.  fresh says   *)
(* that the order version a session loaded is still the stored one, which  *)
(* is what compare_version tests.  Any session may die between two steps   *)
(* (Abort): a crash, or a provider that cannot be reached, which leaves    *)
(* only a failure code that nothing reads.                                 *)
(*                                                                         *)
(* The provider is external.  It holds at most one order for the receipt   *)
(* and captures at most one payment of it, and delivers each webhook any   *)
(* number of times, late, or never.  The 30 second cooldown between two    *)
(* reconciliations only delays sessions and is left out.                   *)
(***************************************************************************)
EXTENDS Integers, FiniteSets

CONSTANTS
    BuyerSession,    \* concurrent requests of the buyer: checkout, return
    HookSession,     \* concurrent webhook deliveries
    ReconcileSession,\* concurrent reconciliations: the worker's, a user's
    Event,           \* provider event ids: payment.captured and order.paid
    MaxOverlaps,     \* reconciliations that outlast the cooldown of 30 seconds (bound)
    MaxReturns,      \* browser returns from Checkout (bound)
    MaxDeliveries    \* webhook deliveries (bound)

ASSUME PaymentAssumption ==
    /\ MaxOverlaps \in Nat
    /\ MaxReturns \in Nat
    /\ MaxDeliveries \in Nat

Session == BuyerSession \cup HookSession \cup ReconcileSession

VARIABLES
    order,       \* Order.status
    intent,      \* the only PaymentIntent: status, provider_order_id known
    looked,      \* its last_reconciled_at is set
    attempts,    \* PaymentAttempt rows with the captured payment's id
    requested,   \* production.requested outbox rows of the order
    event,       \* PaymentProviderEvent.status of each webhook event
    remote,      \* the provider's order and its payments
    posts,       \* create-order requests sent to the provider
    deliveries,  \* webhooks delivered
    returns,     \* browser returns
    overlaps,    \* reconciliations begun while another was running
    tx           \* the open database sessions

vars == <<order, intent, looked, attempts, requested, event, remote, posts, deliveries,
          returns, overlaps, tx>>
rows == <<order, intent, attempts, requested, event>>
\* Only the beginning of a reconciliation writes looked.
world == <<looked, remote, posts, deliveries, returns, overlaps>>

-----------------------------------------------------------------------------
(* Vocabulary                                                              *)

\* Faulty: an order under review is not reconciled.
PAYABLEWithoutReview == {"payment_pending", "payment_processing", "payment_failed"}

PAYABLE == {"payment_pending", "payment_processing", "payment_failed",
            "payment_review"}

OrderStatus == PAYABLE \cup {"paid_confirmed"}

IntentStatus == {"none", "created", "checkout_pending", "authorized", "captured",
                 "review"}

\* "absent": no order at the provider; "created", "failed", "authorized": an
\* unpaid order without payments, with a failed, with an authorized one.
Remote == {"absent", "created", "failed", "authorized", "captured", "refunded"}

Unpaid == {"created", "failed", "authorized"}

\* The steps at which a session can be found.
At == {"idle", "create", "post", "bind", "lost", "return",
       "find", "fetch", "payments", "decide",
       "received", "looked_up", "fetched", "loaded"}

Tx == [at : At, fresh : BOOLEAN, paid : BOOLEAN, seen : Remote, event : Event \cup {"none"}]

Idle == [at |-> "idle", fresh |-> TRUE, paid |-> FALSE, seen |-> "absent", event |-> "none"]

TypeOK ==
    /\ order \in OrderStatus
    /\ intent \in [status : IntentStatus, bound : BOOLEAN]
    /\ looked \in BOOLEAN
    /\ attempts \in 0..1
    /\ requested \in Nat
    /\ event \in [Event -> {"none", "received", "processed", "ignored", "failed"}]
    /\ remote \in Remote
    /\ posts \in Nat
    /\ deliveries \in 0..MaxDeliveries
    /\ returns \in 0..MaxReturns
    /\ overlaps \in 0..MaxOverlaps
    /\ tx \in [Session -> Tx]

Init ==
    /\ order = "payment_pending"
    /\ intent = [status |-> "none", bound |-> FALSE]
    /\ looked = FALSE
    /\ attempts = 0
    /\ requested = 0
    /\ event = [e \in Event |-> "none"]
    /\ remote = "absent"
    /\ posts = 0
    /\ deliveries = 0
    /\ returns = 0
    /\ overlaps = 0
    /\ tx = [s \in Session |-> Idle]

-----------------------------------------------------------------------------
(* Sessions                                                                *)

Goes(s, at) == tx' = [tx EXCEPT ![s].at = at]

Ends(s) == tx' = [tx EXCEPT ![s] = Idle]

\* A write that bumps the order's version: what the others loaded is stale.
Bumped(next) ==
    [t \in Session |-> IF next[t].at = "idle" THEN next[t] ELSE [next[t] EXCEPT !.fresh = FALSE]]

EndsBumping(s) == tx' = Bumped([tx EXCEPT ![s] = Idle])

Abort(s) ==
    /\ tx[s].at # "idle"
    /\ Ends(s)
    /\ UNCHANGED <<rows, world>>

Reviewed ==
    IF intent.status = "captured" THEN intent ELSE [intent EXCEPT !.status = "review"]

\* flag_review, the last thing a failing session does.
FlagReview(s) ==
    /\ intent' = Reviewed
    /\ order' = IF order \in PAYABLE THEN "payment_review" ELSE order
    /\ EndsBumping(s)
    /\ UNCHANGED <<attempts, requested>>

\* bind_order: an already bound intent keeps its status.
Bound ==
    IF intent.bound THEN intent
    ELSE [intent EXCEPT !.bound = TRUE, !.status = "checkout_pending"]

\* Faulty: neither the version nor an earlier attempt is looked at.
RecordUnversioned(s) ==
    /\ order' = "paid_confirmed"
    /\ intent' = [intent EXCEPT !.status = "captured"]
    /\ attempts' = 1
    /\ requested' = requested + 1
    /\ EndsBumping(s)

\* record_captured_payment with matching evidence.  The attempt row of this
\* payment makes a repetition a no-op.
RecordCapture(s) ==
    \/ /\ attempts = 1
       /\ Ends(s)
       /\ UNCHANGED <<order, intent, attempts, requested>>
    \/ /\ attempts = 0
       /\ intent.status # "captured"
       /\ order \in PAYABLE
       /\ tx[s].fresh
       /\ order' = "paid_confirmed"
       /\ intent' = [intent EXCEPT !.status = "captured"]
       /\ attempts' = 1
       /\ requested' = requested + 1
       /\ EndsBumping(s)

RecordRefused(s) == attempts = 0 /\ (~tx[s].fresh \/ order \notin PAYABLE)

-----------------------------------------------------------------------------
(* Checkout                                                                *)

\* Faulty: an intent that was never bound is posted again.
CheckoutRepeatsPost(s) ==
    /\ tx[s] = Idle
    /\ order \in PAYABLE
    /\ ~intent.bound
    /\ Goes(s, IF intent.status = "none" THEN "create" ELSE "post")
    /\ UNCHANGED <<rows, world>>

\* An unbound intent is a conflict: it waits for reconciliation.
BeginCheckout(s) ==
    /\ tx[s] = Idle
    /\ order \in {"payment_pending", "payment_failed"}
    /\ intent.status = "none"
    /\ Goes(s, "create")
    /\ UNCHANGED <<rows, world>>

\* The intent is durable before the provider hears of it; (order, version)
\* is unique.  compare_version bumps the order.
CommitIntent(s) ==
    /\ tx[s].at = "create"
    /\ tx[s].fresh
    /\ intent.status = "none"
    /\ intent' = [intent EXCEPT !.status = "created"]
    /\ tx' = Bumped([tx EXCEPT ![s].at = "post"])
    /\ UNCHANGED <<order, attempts, requested, event, world>>

\* The request may not arrive, and its answer may not return.
PostOrder(s) ==
    /\ tx[s].at = "post"
    /\ posts' = posts + 1
    /\ \/ remote' = "created" /\ (Goes(s, "bind") \/ Goes(s, "lost"))
       \/ UNCHANGED remote /\ Goes(s, "lost")
    /\ UNCHANGED <<rows, looked, deliveries, returns, overlaps>>

BindOrder(s) ==
    /\ tx[s].at = "bind"
    /\ intent' = Bound
    /\ Ends(s)
    /\ UNCHANGED <<order, attempts, requested, event, world>>

PostUncertain(s) ==
    /\ tx[s].at = "lost"
    /\ FlagReview(s)
    /\ UNCHANGED <<event, world>>

\* Checkout of an existing intent only reads: it hands out the bound order
\* again, when nothing is paid or authorized.  What the buyer then does with
\* it is the provider's step.
BeginReturn(s) ==
    /\ tx[s] = Idle
    /\ returns < MaxReturns
    /\ remote \notin {"absent", "created"}
    /\ intent.bound
    /\ order \in PAYABLE
    /\ returns' = returns + 1
    /\ Goes(s, "return")
    /\ UNCHANGED <<rows, looked, remote, posts, deliveries, overlaps>>

\* A failed comparison is an error without any write: Abort.
CommitReturn(s) ==
    /\ tx[s].at = "return"
    /\ tx[s].fresh
    /\ order' = "payment_processing"
    /\ EndsBumping(s)
    /\ UNCHANGED <<intent, attempts, requested, event, world>>

-----------------------------------------------------------------------------
(* Reconciliation                                                          *)

\* A reconciliation is refused for 30 seconds after the last one began; it
\* overlaps another only when that one takes longer.
BeginReconcile(s) ==
    LET slow == \E r \in ReconcileSession : tx[r] # Idle
    IN  /\ tx[s] = Idle
        /\ intent.status # "none"
        /\ order \in PAYABLE
        /\ slow => overlaps < MaxOverlaps
        /\ overlaps' = IF slow THEN overlaps + 1 ELSE overlaps
        /\ looked' = TRUE
        /\ Goes(s, IF intent.bound THEN "fetch" ELSE "find")
        /\ UNCHANGED <<rows, remote, posts, deliveries, returns>>

\* find_orders by receipt: exactly one match is bound.
FindOrder(s) ==
    /\ tx[s].at = "find"
    /\ IF remote = "absent"
       THEN FlagReview(s)
       ELSE /\ intent' = Bound
            /\ Goes(s, "fetch")
            /\ UNCHANGED <<order, attempts, requested>>
    /\ UNCHANGED <<event, world>>

\* The order is fetched first, its payments after it.
FetchOrder(s) ==
    /\ tx[s].at = "fetch"
    /\ tx' = [tx EXCEPT ![s].at = "payments", ![s].paid = remote \in {"captured", "refunded"}]
    /\ UNCHANGED <<rows, world>>

FetchPayments(s) ==
    /\ tx[s].at = "payments"
    /\ tx' = [tx EXCEPT ![s].at = "decide", ![s].seen = remote]
    /\ UNCHANGED <<rows, world>>

\* Faulty: an authorized payment counts as captured.
MatchesAuthorized(s) == tx[s].seen \in {"authorized", "captured"}

\* match_capture: an exact, unrefunded capture of a paid order.
MatchesCapture(s) == tx[s].paid /\ tx[s].seen = "captured"

\* Faulty: the order is given the provider's word.
NotCapturedCopying(s) ==
    /\ tx[s].seen \in Unpaid
    /\ order' = tx[s].seen
    /\ EndsBumping(s)
    /\ UNCHANGED <<intent, attempts, requested>>

\* Nothing captured: the rows take the provider's state, whatever the order's
\* version is now.
NotCaptured(s) ==
    /\ tx[s].seen \in Unpaid
    /\ ~MatchesCapture(s)
    /\ intent' = IF intent.status = "captured" THEN intent
                 ELSE [intent EXCEPT !.status = IF tx[s].seen = "authorized" THEN "authorized"
                                                ELSE "checkout_pending"]
    /\ order' = IF order \notin PAYABLE THEN order
                ELSE CASE tx[s].seen = "authorized" -> "payment_processing"
                       [] tx[s].seen = "failed" -> "payment_failed"
                       [] OTHER -> "payment_pending"
    /\ EndsBumping(s)
    /\ UNCHANGED <<attempts, requested>>

DecideReconcile(s) ==
    /\ tx[s].at = "decide"
    /\ \/ NotCaptured(s)
       \/ MatchesCapture(s) /\ RecordCapture(s)
       \/ /\ \/ MatchesCapture(s) /\ RecordRefused(s)
             \/ tx[s].seen \notin Unpaid /\ ~MatchesCapture(s)
          /\ FlagReview(s)
    /\ UNCHANGED <<event, world>>

-----------------------------------------------------------------------------
(* Signed webhooks                                                         *)

\* A delivery of event e; processed and ignored events are only answered.
Deliver(s, e) ==
    /\ tx[s] = Idle
    /\ deliveries < MaxDeliveries
    /\ remote \in {"captured", "refunded"}
    /\ event[e] \notin {"processed", "ignored"}
    /\ deliveries' = deliveries + 1
    /\ event' = [event EXCEPT ![e] = IF @ = "none" THEN "received" ELSE @]
    /\ tx' = [tx EXCEPT ![s] = [Idle EXCEPT !.at = "received", !.event = e]]
    /\ UNCHANGED <<order, intent, looked, attempts, requested, remote, posts, returns, overlaps>>

\* A provider order nobody has bound is unknown, and the event is done with.
LookUpIntent(s) ==
    LET e == tx[s].event
    IN  /\ tx[s].at = "received"
        /\ IF intent.bound
           THEN event' = [event EXCEPT ![e] = "received"] /\ Goes(s, "looked_up")
           ELSE event' = [event EXCEPT ![e] = "ignored"] /\ Ends(s)
        /\ UNCHANGED <<order, intent, attempts, requested, world>>

FetchCapture(s) ==
    /\ tx[s].at = "looked_up"
    /\ tx' = [tx EXCEPT ![s].at = "fetched", ![s].paid = remote \in {"captured", "refunded"},
                        ![s].seen = remote]
    /\ UNCHANGED <<rows, world>>

\* The order is loaded only now, so that its version is the stored one.
LoadOrder(s) ==
    /\ tx[s].at = "fetched"
    /\ tx' = [tx EXCEPT ![s].at = "loaded", ![s].fresh = TRUE]
    /\ UNCHANGED <<rows, world>>

DecideWebhook(s) ==
    LET e == tx[s].event
    IN  /\ tx[s].at = "loaded"
        /\ \/ /\ MatchesCapture(s)
              /\ RecordCapture(s)
              /\ event' = [event EXCEPT ![e] = "processed"]
           \/ /\ MatchesCapture(s) => RecordRefused(s)
              /\ IF event[e] = "processed"
                 THEN Ends(s) /\ UNCHANGED rows
                 ELSE FlagReview(s) /\ event' = [event EXCEPT ![e] = "failed"]
        /\ UNCHANGED world

-----------------------------------------------------------------------------
(* The provider and the buyer's payment (external)                         *)

\* The buyer pays through a Checkout window: the order id was handed out.
Pay(to) ==
    /\ \/ remote \in {"created", "failed"} /\ intent.bound
          /\ to \in {"failed", "authorized", "captured"}
       \/ remote = "authorized" /\ to \in {"failed", "captured"}
       \/ remote = "captured" /\ to = "refunded"
    /\ remote' = to
    /\ UNCHANGED <<rows, looked, posts, deliveries, returns, overlaps, tx>>

-----------------------------------------------------------------------------
BuyerNext(s) ==
    \/ BeginCheckout(s) \/ CommitIntent(s) \/ PostOrder(s) \/ BindOrder(s)
    \/ PostUncertain(s) \/ BeginReturn(s) \/ CommitReturn(s)

ReconcileStep(s) ==
    BeginReconcile(s) \/ FindOrder(s) \/ FetchOrder(s) \/ FetchPayments(s) \/ DecideReconcile(s)

HookStep(s) == LookUpIntent(s) \/ FetchCapture(s) \/ LoadOrder(s) \/ DecideWebhook(s)

Next ==
    \/ \E s \in BuyerSession : BuyerNext(s)
    \/ \E s \in ReconcileSession : ReconcileStep(s)
    \/ \E s \in HookSession : HookStep(s) \/ \E e \in Event : Deliver(s, e)
    \/ \E s \in Session : Abort(s)
    \/ \E to \in Remote : Pay(to)

Spec == Init /\ [][Next]_vars

\* reconcile_pending takes the intents it looked at longest ago first and
\* those it never looked at last (NULL sorts last): an intent that was looked
\* at once has its turn again and again, a new one may wait for ever.
TurnComes == looked /\ \E s \in ReconcileSession : BeginReconcile(s)

\* The worker reconciles again and again, and the provider is reachable often
\* enough for a reconciliation to come to its decision.
FairSpec ==
    /\ Spec
    /\ SF_vars(TurnComes)
    /\ SF_vars(\E s \in ReconcileSession : FindOrder(s))
    /\ SF_vars(\E s \in ReconcileSession : FetchOrder(s))
    /\ SF_vars(\E s \in ReconcileSession : FetchPayments(s))
    /\ SF_vars(\E s \in ReconcileSession : DecideReconcile(s))

-----------------------------------------------------------------------------
(* Properties                                                              *)

\* Intent, order, payment attempt and production request are written by
\* separate statements of racing sessions, yet they tell one story: either
\* all say that the order is paid, or none does.
PaidTogether ==
    /\ order = "paid_confirmed" <=> intent.status = "captured"
    /\ order = "paid_confirmed" <=> attempts = 1
    /\ order = "paid_confirmed" <=> requested = 1

\* The provider is asked for an order at most once, so that an uncertain
\* answer never leads to a second order the buyer could pay as well.
PostedOnce == posts <= 1

\* Once anybody has reconciled the intent (the worker, the buyer, the owner),
\* money captured and kept is confirmed in the end, whatever the rows say by
\* then, whether that first reconciliation came to an end and webhooks arrive
\* or not.
CapturedIsConfirmed ==
    remote = "captured" /\ looked ~> (order = "paid_confirmed" \/ remote = "refunded")

\* The provider's account of the order.
money == IF remote \in {"captured", "refunded"} THEN remote ELSE "open"

Contract == INSTANCE PaymentContract WITH effect <- requested

\* Production is requested once, after a capture, and for good.
ImplementsPaymentContract == Contract!Spec
=============================================================================
