-------------------------- MODULE Payments_proofs --------------------------
(***************************************************************************)
(* Proofs about Payments for any number of sessions and events, however    *)
(* often they overlap: intent, order, attempt and production request are   *)
(* paid together, the provider is asked for one order, and the component   *)
(* implements PaymentContract.                                             *)
(***************************************************************************)
EXTENDS Payments, TLAPS

\* Before any of these steps the session, or another, has bound the intent.
PastBinding == {"fetch", "payments", "decide", "looked_up", "fetched", "loaded"}

\* What a session believes of the payment was the provider's word once, and
\* the provider does not go back behind a capture.
PaidIsEvidence == \A s \in Session : tx[s].paid => remote \in {"captured", "refunded"}

\* A session that acts on the provider's order has a bound intent, and only a
\* bound intent is ever captured: binding late cannot undo a capture.
BoundBeforeCapture ==
    /\ intent.bound => intent.status # "none"
    /\ intent.status = "captured" => intent.bound
    /\ \A s \in Session : tx[s].at \in PastBinding => intent.bound

\* PaidTogether with the request written next to the attempt.
OneStory ==
    /\ order = "paid_confirmed" <=> intent.status = "captured"
    /\ order = "paid_confirmed" <=> attempts = 1
    /\ requested = attempts

\* A return that would still commit has loaded the order as it is.
ReturnsUnpaid ==
    \A s \in Session : tx[s].at = "return" /\ tx[s].fresh => order \in PAYABLE

\* The intent is the licence to post: at most one session holds it, and while
\* one does nothing was posted.
OneLicence ==
    /\ intent.status = "none" => posts = 0 /\ \A s \in Session : tx[s].at # "post"
    /\ \A s \in Session : tx[s].at = "post" =>
         posts = 0 /\ \A t \in Session : tx[t].at = "post" => t = s
    /\ posts = 0 => remote = "absent"
    /\ PostedOnce

\* Only an intent that exists is looked for at the provider, or flagged after
\* a lost answer.
SearchHasIntent ==
    \A s \in Session : tx[s].at \in {"find", "lost"} => intent.status # "none"

PayInv ==
    /\ TypeOK
    /\ SearchHasIntent
    /\ PaidIsEvidence
    /\ BoundBeforeCapture
    /\ OneStory
    /\ ReturnsUnpaid
    /\ OneLicence

-----------------------------------------------------------------------------
(* Sessions                                                                *)

LEMMA IdleTyped == Idle \in Tx
  BY DEF Idle, Tx, At, Remote

\* A session takes its next step; the others stay where they are.
LEMMA GoesFields ==
    ASSUME tx \in [Session -> Tx], NEW s \in Session, NEW at \in At, Goes(s, at)
    PROVE  /\ tx' \in [Session -> Tx]
           /\ \A t \in Session : /\ tx'[t].at = IF t = s THEN at ELSE tx[t].at
                                 /\ tx'[t].paid = tx[t].paid
                                 /\ tx'[t].fresh = tx[t].fresh
<1>1. /\ [tx[s] EXCEPT !.at = at] \in Tx
      /\ [tx[s] EXCEPT !.at = at].at = at
      /\ [tx[s] EXCEPT !.at = at].paid = tx[s].paid
      /\ [tx[s] EXCEPT !.at = at].fresh = tx[s].fresh
  BY DEF Tx
<1> QED
  BY <1>1 DEF Goes

\* A session ends, and nobody else notices.
LEMMA EndsFields ==
    ASSUME tx \in [Session -> Tx], NEW s \in Session, Ends(s)
    PROVE  /\ tx' \in [Session -> Tx]
           /\ \A t \in Session : tx'[t] = IF t = s THEN Idle ELSE tx[t]
  BY IdleTyped DEF Ends

\* A write of the order leaves no open session with a fresh version.
LEMMA BumpedFields ==
    ASSUME NEW next \in [Session -> Tx]
    PROVE  /\ Bumped(next) \in [Session -> Tx]
           /\ \A t \in Session : /\ Bumped(next)[t].at = next[t].at
                                 /\ Bumped(next)[t].paid = next[t].paid
                                 /\ Bumped(next)[t].fresh => next[t].at = "idle"
<1>1. \A t \in Session : /\ [next[t] EXCEPT !.fresh = FALSE] \in Tx
                         /\ [next[t] EXCEPT !.fresh = FALSE].at = next[t].at
                         /\ [next[t] EXCEPT !.fresh = FALSE].paid = next[t].paid
                         /\ [next[t] EXCEPT !.fresh = FALSE].fresh = FALSE
  BY DEF Tx
<1> QED
  BY <1>1 DEF Bumped

LEMMA EndsBumpingFields ==
    ASSUME tx \in [Session -> Tx], NEW s \in Session, EndsBumping(s)
    PROVE  /\ tx' \in [Session -> Tx]
           /\ \A t \in Session : /\ tx'[t].at = IF t = s THEN "idle" ELSE tx[t].at
                                 /\ tx'[t].paid => tx[t].paid
                                 /\ tx'[t].fresh => tx'[t].at = "idle"
<1> DEFINE next == [tx EXCEPT ![s] = Idle]
<1>1. /\ next \in [Session -> Tx]
      /\ \A t \in Session : next[t] = IF t = s THEN Idle ELSE tx[t]
  BY IdleTyped
<1>2. Idle.at = "idle" /\ Idle.paid = FALSE
  BY DEF Idle
<1>3. tx' = Bumped(next)
  BY DEF EndsBumping
<1> HIDE DEF next
<1> QED
  BY <1>1, <1>2, <1>3, BumpedFields

-----------------------------------------------------------------------------
(* The statements that write the intent and the order                      *)

\* What every statement preserves of the rows, and of the licence to post.
RowsHold ==
    /\ order' \in OrderStatus
    /\ intent' \in [status : IntentStatus, bound : BOOLEAN]
    /\ attempts' \in 0..1
    /\ requested' \in Nat
    /\ OneStory'
    /\ intent.bound => intent'.bound
    /\ intent'.bound => intent'.status # "none"
    /\ intent'.status = "captured" => intent'.bound
    /\ intent'.status = "none" => intent.status = "none"

LEMMA IntentUpdated ==
    ASSUME NEW i \in [status : IntentStatus, bound : BOOLEAN], NEW status \in IntentStatus
    PROVE  LET j == [i EXCEPT !.status = status]
           IN  /\ j \in [status : IntentStatus, bound : BOOLEAN]
               /\ j.status = status
               /\ j.bound = i.bound
  OBVIOUS

LEMMA UnchangedHolds ==
    ASSUME PayInv, UNCHANGED <<order, intent, attempts, requested>>
    PROVE  RowsHold
  BY DEF PayInv, TypeOK, OneStory, BoundBeforeCapture, RowsHold

LEMMA ReviewHolds ==
    ASSUME PayInv, NEW s \in Session, FlagReview(s), intent.status # "none"
    PROVE  RowsHold
<1>1. "review" \in IntentStatus /\ "payment_review" \in PAYABLE
  BY DEF IntentStatus, PAYABLE
<1>2. /\ intent' \in [status : IntentStatus, bound : BOOLEAN]
      /\ intent'.status = IF intent.status = "captured" THEN "captured" ELSE "review"
      /\ intent'.bound = intent.bound
  BY <1>1, IntentUpdated DEF PayInv, TypeOK, FlagReview, Reviewed
<1>3. /\ order' \in OrderStatus
      /\ order' = "paid_confirmed" <=> order = "paid_confirmed"
  BY <1>1 DEF PayInv, TypeOK, FlagReview, OrderStatus, PAYABLE
<1> QED
  BY <1>2, <1>3 DEF PayInv, TypeOK, FlagReview, RowsHold, OneStory, BoundBeforeCapture

LEMMA BoundHolds ==
    ASSUME PayInv, intent' = Bound, UNCHANGED <<order, attempts, requested>>
    PROVE  RowsHold /\ intent'.bound
<1>1. CASE intent.bound
  BY <1>1, UnchangedHolds DEF Bound
<1>2. CASE ~intent.bound
  <2>1. /\ intent' \in [status : IntentStatus, bound : BOOLEAN]
        /\ intent'.status = "checkout_pending"
        /\ intent'.bound
    BY <1>2 DEF Bound, PayInv, TypeOK, IntentStatus
  <2> QED
    BY <1>2, <2>1 DEF PayInv, TypeOK, RowsHold, OneStory, BoundBeforeCapture
<1> QED
  BY <1>1, <1>2 DEF PayInv, TypeOK

LEMMA CaptureHolds ==
    ASSUME PayInv, NEW s \in Session, RecordCapture(s), intent.bound
    PROVE  RowsHold
<1>1. CASE UNCHANGED <<order, intent, attempts, requested>>
  BY <1>1, UnchangedHolds
<1>2. CASE /\ attempts = 0
           /\ order' = "paid_confirmed"
           /\ intent' = [intent EXCEPT !.status = "captured"]
           /\ attempts' = 1
           /\ requested' = requested + 1
  <2>1. "captured" \in IntentStatus /\ "paid_confirmed" \in OrderStatus
    BY DEF IntentStatus, OrderStatus
  <2>2. /\ intent' \in [status : IntentStatus, bound : BOOLEAN]
        /\ intent'.status = "captured"
        /\ intent'.bound = intent.bound
    BY <1>2, <2>1, IntentUpdated DEF PayInv, TypeOK
  <2>3. requested' = 1
    BY <1>2 DEF PayInv, OneStory
  <2> QED
    BY <1>2, <2>1, <2>2, <2>3 DEF RowsHold, OneStory
<1> QED
  BY <1>1, <1>2 DEF RecordCapture

LEMMA NotCapturedHolds ==
    ASSUME PayInv, NEW s \in Session, NotCaptured(s), intent.bound
    PROVE  RowsHold
<1>1. {"authorized", "checkout_pending"} \subseteq IntentStatus
  BY DEF IntentStatus
<1>2. /\ intent' \in [status : IntentStatus, bound : BOOLEAN]
      /\ intent'.bound = intent.bound
      /\ intent'.status = "captured" <=> intent.status = "captured"
      /\ intent'.status # "none"
  <2>1. CASE intent.status = "captured"
    BY <2>1 DEF NotCaptured, PayInv, TypeOK
  <2>2. CASE intent.status # "captured"
    <3>1. PICK status \in {"authorized", "checkout_pending"} :
            intent' = [intent EXCEPT !.status = status]
      BY <2>2 DEF NotCaptured
    <3> QED
      BY <1>1, <2>2, <3>1, IntentUpdated DEF PayInv, TypeOK
  <2> QED
    BY <2>1, <2>2
<1>3. order' \in OrderStatus /\ (order' = "paid_confirmed" <=> order = "paid_confirmed")
  <2>1. CASE order \notin PAYABLE
    <3>1. order' = order
      BY <2>1 DEF NotCaptured
    <3> QED
      BY <3>1 DEF PayInv, TypeOK
  <2>2. CASE order \in PAYABLE
    <3>1. CASE tx[s].seen = "authorized"
      BY <2>2, <3>1 DEF NotCaptured, OrderStatus, PAYABLE
    <3>2. CASE tx[s].seen = "failed"
      BY <2>2, <3>2 DEF NotCaptured, OrderStatus, PAYABLE
    <3>3. CASE tx[s].seen \notin {"authorized", "failed"}
      BY <2>2, <3>3 DEF NotCaptured, OrderStatus, PAYABLE
    <3> QED
      BY <3>1, <3>2, <3>3
  <2> QED
    BY <2>1, <2>2
<1> QED
  BY <1>2, <1>3 DEF PayInv, TypeOK, NotCaptured, RowsHold, OneStory

-----------------------------------------------------------------------------
(* What the sessions' invariants need of a step                            *)

\* Sessions keep their types and their evidence, nobody passes the binding of
\* an unbound intent, and nobody is given a return or a licence to post.
SessionsHold ==
    /\ tx' \in [Session -> Tx]
    /\ PaidIsEvidence'
    /\ \A t \in Session :
         /\ tx'[t].at \in PastBinding => tx[t].at \in PastBinding \/ intent'.bound
         /\ tx'[t].at = "return" /\ tx'[t].fresh =>
              \/ order' \in PAYABLE
              \/ tx[t].at = "return" /\ tx[t].fresh /\ order' = order
         /\ tx'[t].at = "post" => tx[t].at = "post"
         /\ tx'[t].at \in {"find", "lost"} =>
              tx[t].at \in {"find", "lost"} \/ intent'.status # "none"

\* Everything TypeOK says of the variables no session row depends on.
WorldTyped ==
    /\ looked' \in BOOLEAN
    /\ event' \in [Event -> {"none", "received", "processed", "ignored", "failed"}]
    /\ remote' \in Remote
    /\ deliveries' \in 0..MaxDeliveries
    /\ returns' \in 0..MaxReturns
    /\ overlaps' \in 0..MaxOverlaps

LEMMA QuietStep ==
    ASSUME PayInv, RowsHold, SessionsHold, WorldTyped, posts' = posts,
           remote = "absent" => remote' = "absent"
    PROVE  PayInv'
<1>1. TypeOK'
  BY DEF PayInv, TypeOK, RowsHold, SessionsHold, WorldTyped
<1>2. BoundBeforeCapture'
  BY DEF PayInv, BoundBeforeCapture, RowsHold, SessionsHold
<1>3. ReturnsUnpaid' /\ SearchHasIntent'
  BY DEF PayInv, ReturnsUnpaid, SearchHasIntent, SessionsHold, RowsHold
<1>4. OneLicence'
  BY DEF PayInv, OneLicence, PostedOnce, RowsHold, SessionsHold
<1> QED
  BY <1>1, <1>2, <1>3, <1>4 DEF PayInv, RowsHold, SessionsHold

LEMMA WorldUnchanged == ASSUME PayInv, UNCHANGED <<event, world>> PROVE WorldTyped
  BY DEF PayInv, TypeOK, world, WorldTyped

LEMMA EndHolds ==
    ASSUME PayInv, NEW s \in Session, Ends(s), remote' = remote, order' = order
    PROVE  SessionsHold
<1>1. tx \in [Session -> Tx]
  BY DEF PayInv, TypeOK
<1>2. Idle.at = "idle" /\ Idle.paid = FALSE
  BY DEF Idle
<1> QED
  BY <1>1, <1>2, EndsFields DEF PayInv, PaidIsEvidence, PastBinding, SessionsHold

LEMMA EndBumpingHolds ==
    ASSUME PayInv, NEW s \in Session, EndsBumping(s), remote' = remote
    PROVE  SessionsHold
<1>1. tx \in [Session -> Tx]
  BY DEF PayInv, TypeOK
<1> QED
  BY <1>1, EndsBumpingFields DEF PayInv, PaidIsEvidence, PastBinding, SessionsHold

LEMMA GoHolds ==
    ASSUME PayInv, NEW s \in Session, NEW at \in At, Goes(s, at), remote' = remote,
           order' = order, at # "post", at \in PastBinding => intent'.bound,
           at = "return" => order \in PAYABLE,
           at \in {"find", "lost"} => intent'.status # "none"
    PROVE  SessionsHold
<1>1. tx \in [Session -> Tx]
  BY DEF PayInv, TypeOK
<1> QED
  BY <1>1, GoesFields DEF PayInv, PaidIsEvidence, SessionsHold

\* A session takes notes of the provider's answer.
LEMMA NoteHolds ==
    ASSUME PayInv, NEW s \in Session, NEW row \in Tx, tx' = [tx EXCEPT ![s] = row],
           remote' = remote, order' = order,
           row.paid => tx[s].paid \/ remote \in {"captured", "refunded"},
           row.at \notin {"post", "return", "find", "lost"},
           row.at \in PastBinding => tx[s].at \in PastBinding
    PROVE  SessionsHold
<1>1. tx \in [Session -> Tx]
  BY DEF PayInv, TypeOK
<1>2. /\ tx' \in [Session -> Tx]
      /\ \A t \in Session : tx'[t] = IF t = s THEN row ELSE tx[t]
  BY <1>1
<1> QED
  BY <1>1, <1>2 DEF PayInv, PaidIsEvidence, SessionsHold

-----------------------------------------------------------------------------
(* Checkout                                                                *)

LEMMA CommitIntentKeeps ==
    ASSUME PayInv, NEW s \in Session, CommitIntent(s)
    PROVE  PayInv'
<1> DEFINE next == [tx EXCEPT ![s].at = "post"]
<1>1. /\ intent' \in [status : IntentStatus, bound : BOOLEAN]
      /\ intent'.status = "created"
      /\ intent'.bound = intent.bound
  BY IntentUpdated DEF PayInv, TypeOK, CommitIntent, IntentStatus
<1>2. /\ order' = order /\ attempts' = attempts /\ requested' = requested
      /\ event' = event /\ remote' = remote /\ posts' = posts
      /\ intent.status = "none"
      /\ tx' = Bumped(next)
  BY DEF CommitIntent, world
<1>3. ~intent.bound
  BY <1>2 DEF PayInv, BoundBeforeCapture
<1>4. RowsHold
  BY <1>1, <1>2, <1>3 DEF PayInv, TypeOK, RowsHold, OneStory
<1>5. /\ [tx[s] EXCEPT !.at = "post"] \in Tx
      /\ [tx[s] EXCEPT !.at = "post"].at = "post"
      /\ [tx[s] EXCEPT !.at = "post"].paid = tx[s].paid
  BY DEF PayInv, TypeOK, Tx, At
<1>6. /\ next \in [Session -> Tx]
      /\ \A t \in Session : /\ next[t].at = IF t = s THEN "post" ELSE tx[t].at
                            /\ next[t].paid = tx[t].paid
  BY <1>5 DEF PayInv, TypeOK
<1> HIDE DEF next
<1>7. /\ tx' \in [Session -> Tx]
      /\ \A t \in Session : /\ tx'[t].at = IF t = s THEN "post" ELSE tx[t].at
                            /\ tx'[t].paid = tx[t].paid
                            /\ tx'[t].fresh => tx'[t].at = "idle"
  BY <1>2, <1>6, BumpedFields
<1>8. TypeOK'
  BY <1>4, <1>7 DEF PayInv, TypeOK, RowsHold, CommitIntent, world
<1>9. BoundBeforeCapture' /\ ReturnsUnpaid' /\ PaidIsEvidence' /\ SearchHasIntent'
  BY <1>1, <1>2, <1>3, <1>7
     DEF PayInv, BoundBeforeCapture, ReturnsUnpaid, PaidIsEvidence, PastBinding,
         SearchHasIntent
<1>10. OneLicence'
  BY <1>1, <1>2, <1>7 DEF PayInv, OneLicence, PostedOnce
<1> QED
  BY <1>4, <1>8, <1>9, <1>10 DEF PayInv, RowsHold

LEMMA PostOrderKeeps ==
    ASSUME PayInv, NEW s \in Session, PostOrder(s)
    PROVE  PayInv'
<1>1. /\ posts' = 1 /\ tx[s].at = "post" /\ intent.status # "none" /\ remote = "absent"
      /\ \A t \in Session : tx[t].at = "post" => t = s
  BY DEF PayInv, OneLicence, PostOrder
<1>2. PICK at \in {"bind", "lost"} : Goes(s, at)
  BY DEF PostOrder
<1>3. /\ order' = order /\ intent' = intent /\ attempts' = attempts /\ requested' = requested
      /\ event' = event /\ looked' = looked /\ deliveries' = deliveries
      /\ returns' = returns /\ overlaps' = overlaps /\ remote' \in {"absent", "created"}
  BY <1>1 DEF PostOrder, rows
<1>4. /\ tx' \in [Session -> Tx]
      /\ \A t \in Session : /\ tx'[t].at = IF t = s THEN at ELSE tx[t].at
                            /\ tx'[t].paid = tx[t].paid
                            /\ tx'[t].fresh = tx[t].fresh
  BY <1>2, GoesFields DEF PayInv, TypeOK, At
<1>5. TypeOK'
  BY <1>1, <1>3, <1>4 DEF PayInv, TypeOK, Remote
<1>6. BoundBeforeCapture' /\ ReturnsUnpaid' /\ PaidIsEvidence' /\ SearchHasIntent'
  BY <1>1, <1>2, <1>3, <1>4
     DEF PayInv, BoundBeforeCapture, ReturnsUnpaid, PaidIsEvidence, PastBinding,
         SearchHasIntent
<1>7. OneStory'
  BY <1>3 DEF PayInv, OneStory
<1>8. OneLicence'
  BY <1>1, <1>2, <1>3, <1>4 DEF OneLicence, PostedOnce
<1> QED
  BY <1>5, <1>6, <1>7, <1>8 DEF PayInv

LEMMA CheckoutKeeps ==
    ASSUME PayInv, NEW s \in BuyerSession, BuyerNext(s)
    PROVE  PayInv'
<1>1. s \in Session
  BY DEF Session
<1>2. CASE BeginCheckout(s)
  <2>1. Goes(s, "create") /\ UNCHANGED <<rows, world>>
    BY <1>2 DEF BeginCheckout
  <2>2. RowsHold /\ SessionsHold /\ WorldTyped
    BY <1>1, <2>1, UnchangedHolds, GoHolds, WorldUnchanged DEF rows, world, At, PastBinding
  <2> QED
    BY <2>1, <2>2, QuietStep DEF world
<1>3. CASE BindOrder(s)
  <2>1. RowsHold /\ SessionsHold /\ WorldTyped
    BY <1>1, <1>3, BoundHolds, EndHolds, WorldUnchanged DEF BindOrder, world
  <2> QED
    BY <1>3, <2>1, QuietStep DEF BindOrder, world
<1>4. CASE PostUncertain(s)
  <2>1. intent.status # "none"
    BY <1>1, <1>4 DEF PayInv, SearchHasIntent, PostUncertain
  <2>2. RowsHold /\ SessionsHold /\ WorldTyped
    BY <1>1, <1>4, <2>1, ReviewHolds, EndBumpingHolds, WorldUnchanged
       DEF PostUncertain, FlagReview, world
  <2> QED
    BY <1>4, <2>2, QuietStep DEF PostUncertain, world
<1>5. CASE BeginReturn(s)
  <2>1. Goes(s, "return") /\ order \in PAYABLE /\ UNCHANGED rows
    BY <1>5 DEF BeginReturn
  <2>2. RowsHold /\ SessionsHold
    BY <1>1, <1>5, <2>1, UnchangedHolds, GoHolds DEF BeginReturn, rows, At, PastBinding
  <2>3. WorldTyped
    BY <1>5, PaymentAssumption DEF BeginReturn, PayInv, TypeOK, WorldTyped, rows
  <2> QED
    BY <1>5, <2>2, <2>3, QuietStep DEF BeginReturn
<1>6. CASE CommitReturn(s)
  <2>1. /\ order \in PAYABLE
        /\ order' = "payment_processing"
        /\ UNCHANGED <<intent, attempts, requested, event, world>>
        /\ EndsBumping(s)
    BY <1>1, <1>6 DEF CommitReturn, PayInv, ReturnsUnpaid
  <2>2. RowsHold
    BY <2>1 DEF PayInv, TypeOK, OneStory, BoundBeforeCapture, RowsHold, OrderStatus, PAYABLE
  <2>3. SessionsHold /\ WorldTyped
    BY <1>1, <2>1, EndBumpingHolds, WorldUnchanged DEF world
  <2> QED
    BY <2>1, <2>2, <2>3, QuietStep DEF world
<1>7. CASE CommitIntent(s) \/ PostOrder(s)
  BY <1>1, <1>7, CommitIntentKeeps, PostOrderKeeps
<1> QED
  BY <1>2, <1>3, <1>4, <1>5, <1>6, <1>7 DEF BuyerNext

-----------------------------------------------------------------------------
(* Reconciliation and webhooks                                             *)

\* A session that notes the provider's answer or the stored order.
LEMMA FetchOrderNotes ==
    ASSUME PayInv, NEW s \in Session, FetchOrder(s)
    PROVE  SessionsHold
<1> DEFINE paid == remote \in {"captured", "refunded"}
<1> DEFINE row == [tx[s] EXCEPT !.at = "payments", !.paid = paid]
<1>1. /\ tx \in [Session -> Tx] /\ remote \in Remote
      /\ tx[s].at \in PastBinding
      /\ remote' = remote /\ order' = order
  BY DEF PayInv, TypeOK, FetchOrder, PastBinding, rows, world
<1>2. tx' = [tx EXCEPT ![s].at = "payments", ![s].paid = paid]
  BY DEF FetchOrder
<1>3. paid \in BOOLEAN /\ (paid => remote \in {"captured", "refunded"})
  OBVIOUS
<1> HIDE DEF paid
<1>4. row \in Tx /\ row.at = "payments" /\ row.paid = paid
  BY <1>1, <1>3 DEF Tx, At
<1>5. tx' = [tx EXCEPT ![s] = row]
  BY <1>1, <1>2
<1> HIDE DEF row
<1> QED
  BY <1>1, <1>3, <1>4, <1>5, NoteHolds

LEMMA FetchPaymentsNotes ==
    ASSUME PayInv, NEW s \in Session, FetchPayments(s)
    PROVE  SessionsHold
<1> DEFINE row == [tx[s] EXCEPT !.at = "decide", !.seen = remote]
<1>1. /\ tx \in [Session -> Tx] /\ remote \in Remote
      /\ tx[s].at \in PastBinding
      /\ remote' = remote /\ order' = order
  BY DEF PayInv, TypeOK, FetchPayments, PastBinding, rows, world
<1>2. tx' = [tx EXCEPT ![s].at = "decide", ![s].seen = remote]
  BY DEF FetchPayments
<1>3. row \in Tx /\ row.at = "decide" /\ row.paid = tx[s].paid
  BY <1>1 DEF Tx, At
<1>4. tx' = [tx EXCEPT ![s] = row]
  BY <1>1, <1>2
<1> HIDE DEF row
<1> QED
  BY <1>1, <1>3, <1>4, NoteHolds

LEMMA FetchCaptureNotes ==
    ASSUME PayInv, NEW s \in Session, FetchCapture(s)
    PROVE  SessionsHold
<1> DEFINE paid == remote \in {"captured", "refunded"}
<1> DEFINE row == [tx[s] EXCEPT !.at = "fetched", !.paid = paid, !.seen = remote]
<1>1. /\ tx \in [Session -> Tx] /\ remote \in Remote
      /\ tx[s].at \in PastBinding
      /\ remote' = remote /\ order' = order
  BY DEF PayInv, TypeOK, FetchCapture, PastBinding, rows, world
<1>2. tx' = [tx EXCEPT ![s].at = "fetched", ![s].paid = paid, ![s].seen = remote]
  BY DEF FetchCapture
<1>3. paid \in BOOLEAN /\ (paid => remote \in {"captured", "refunded"})
  OBVIOUS
<1> HIDE DEF paid
<1>4. row \in Tx /\ row.at = "fetched" /\ row.paid = paid
  BY <1>1, <1>3 DEF Tx, At
<1>5. tx' = [tx EXCEPT ![s] = row]
  BY <1>1, <1>2
<1> HIDE DEF row
<1> QED
  BY <1>1, <1>3, <1>4, <1>5, NoteHolds

LEMMA LoadOrderNotes ==
    ASSUME PayInv, NEW s \in Session, LoadOrder(s)
    PROVE  SessionsHold
<1> DEFINE row == [tx[s] EXCEPT !.at = "loaded", !.fresh = TRUE]
<1>1. /\ tx \in [Session -> Tx] /\ remote \in Remote
      /\ tx[s].at \in PastBinding
      /\ remote' = remote /\ order' = order
  BY DEF PayInv, TypeOK, LoadOrder, PastBinding, rows, world
<1>2. tx' = [tx EXCEPT ![s].at = "loaded", ![s].fresh = TRUE]
  BY DEF LoadOrder
<1>3. row \in Tx /\ row.at = "loaded" /\ row.paid = tx[s].paid
  BY <1>1 DEF Tx, At
<1>4. tx' = [tx EXCEPT ![s] = row]
  BY <1>1, <1>2
<1> HIDE DEF row
<1> QED
  BY <1>1, <1>3, <1>4, NoteHolds

LEMMA ReconcileKeeps ==
    ASSUME PayInv, NEW s \in ReconcileSession, ReconcileStep(s)
    PROVE  PayInv'
<1>1. s \in Session
  BY DEF Session
<1>2. CASE BeginReconcile(s)
  <2>1. PICK at \in {"fetch", "find"} : Goes(s, at) /\ (at = "fetch" => intent.bound)
    BY <1>2 DEF BeginReconcile
  <2>2. /\ intent.status # "none"
        /\ looked' = TRUE
        /\ UNCHANGED <<rows, remote, posts, deliveries, returns>>
    BY <1>2 DEF BeginReconcile
  <2>3. RowsHold /\ SessionsHold
    BY <1>1, <2>1, <2>2, UnchangedHolds, GoHolds DEF rows, At, PastBinding
  <2>4. overlaps' \in 0..MaxOverlaps
    BY <1>2, PaymentAssumption DEF BeginReconcile, PayInv, TypeOK
  <2>5. WorldTyped
    BY <2>2, <2>4 DEF PayInv, TypeOK, WorldTyped, rows
  <2> QED
    BY <2>2, <2>3, <2>5, QuietStep
<1>3. CASE FindOrder(s)
  <2>1. UNCHANGED <<event, world>>
    BY <1>3 DEF FindOrder
  <2>2. CASE remote = "absent"
    <3>1. FlagReview(s)
      BY <1>3, <2>2 DEF FindOrder
    <3>2. intent.status # "none"
      BY <1>1, <1>3 DEF PayInv, SearchHasIntent, FindOrder
    <3>3. RowsHold /\ SessionsHold /\ WorldTyped
      BY <1>1, <2>1, <3>1, <3>2, ReviewHolds, EndBumpingHolds, WorldUnchanged
         DEF FlagReview, world
    <3> QED
      BY <2>1, <3>3, QuietStep DEF world
  <2>3. CASE remote # "absent"
    <3>1. intent' = Bound /\ Goes(s, "fetch") /\ UNCHANGED <<order, attempts, requested>>
      BY <1>3, <2>3 DEF FindOrder
    <3>2. RowsHold /\ intent'.bound
      BY <3>1, BoundHolds
    <3>3. SessionsHold /\ WorldTyped
      BY <1>1, <2>1, <3>1, <3>2, GoHolds, WorldUnchanged DEF world, At
    <3> QED
      BY <2>1, <3>2, <3>3, QuietStep DEF world
  <2> QED
    BY <2>2, <2>3
<1>4. CASE FetchOrder(s)
  <2>1. UNCHANGED <<rows, world>>
    BY <1>4 DEF FetchOrder
  <2>2. RowsHold /\ SessionsHold /\ WorldTyped
    BY <1>1, <1>4, <2>1, UnchangedHolds, FetchOrderNotes, WorldUnchanged DEF rows, world
  <2> QED
    BY <2>1, <2>2, QuietStep DEF world
<1>5. CASE FetchPayments(s)
  <2>1. UNCHANGED <<rows, world>>
    BY <1>5 DEF FetchPayments
  <2>2. RowsHold /\ SessionsHold /\ WorldTyped
    BY <1>1, <1>5, <2>1, UnchangedHolds, FetchPaymentsNotes, WorldUnchanged DEF rows, world
  <2> QED
    BY <2>1, <2>2, QuietStep DEF world
<1>6. CASE DecideReconcile(s)
  <2>1. UNCHANGED <<event, world>> /\ intent.bound /\ intent.status # "none"
    BY <1>1, <1>6 DEF PayInv, BoundBeforeCapture, PastBinding, DecideReconcile
  <2>2. CASE NotCaptured(s)
    <3>1. RowsHold /\ SessionsHold /\ WorldTyped
      BY <1>1, <2>1, <2>2, NotCapturedHolds, EndBumpingHolds, WorldUnchanged
         DEF NotCaptured, world
    <3> QED
      BY <2>1, <3>1, QuietStep DEF world
  <2>3. CASE RecordCapture(s)
    <3>1. RowsHold /\ WorldTyped
      BY <1>1, <2>1, <2>3, CaptureHolds, WorldUnchanged
    <3>2. SessionsHold
      BY <1>1, <2>1, <2>3, EndHolds, EndBumpingHolds DEF RecordCapture, world
    <3> QED
      BY <2>1, <3>1, <3>2, QuietStep DEF world
  <2>4. CASE FlagReview(s)
    <3>1. RowsHold /\ SessionsHold /\ WorldTyped
      BY <1>1, <2>1, <2>4, ReviewHolds, EndBumpingHolds, WorldUnchanged
         DEF FlagReview, world
    <3> QED
      BY <2>1, <3>1, QuietStep DEF world
  <2> QED
    BY <1>6, <2>2, <2>3, <2>4 DEF DecideReconcile
<1> QED
  BY <1>2, <1>3, <1>4, <1>5, <1>6 DEF ReconcileStep

\* An event row takes one of its states.
LEMMA EventWritten ==
    ASSUME PayInv, UNCHANGED world, NEW e,
           NEW status \in {"received", "processed", "ignored", "failed"},
           event' = [event EXCEPT ![e] = status]
    PROVE  WorldTyped
  BY DEF PayInv, TypeOK, world, WorldTyped

LEMMA DeliverKeeps ==
    ASSUME PayInv, NEW s \in HookSession, NEW e \in Event, Deliver(s, e)
    PROVE  PayInv'
<1>1. s \in Session
  BY DEF Session
<1> DEFINE row == [Idle EXCEPT !.at = "received", !.event = e]
<1>2. row \in Tx /\ row.at = "received" /\ row.paid = FALSE /\ tx' = [tx EXCEPT ![s] = row]
  BY DEF Deliver, Idle, Tx, At, Remote
<1> HIDE DEF row
<1>3. SessionsHold
  BY <1>1, <1>2, NoteHolds DEF Deliver, PastBinding
<1>4. event' \in [Event -> {"none", "received", "processed", "ignored", "failed"}]
  BY DEF Deliver, PayInv, TypeOK
<1>5. deliveries' \in 0..MaxDeliveries
  BY PaymentAssumption DEF Deliver, PayInv, TypeOK
<1>6. RowsHold /\ WorldTyped
  BY <1>4, <1>5, UnchangedHolds DEF Deliver, PayInv, TypeOK, WorldTyped
<1> QED
  BY <1>3, <1>6, QuietStep DEF Deliver

LEMMA HookKeeps ==
    ASSUME PayInv, NEW s \in HookSession, HookStep(s)
    PROVE  PayInv'
<1> DEFINE e == tx[s].event
<1>1. s \in Session
  BY DEF Session
<1>2. CASE LookUpIntent(s)
  <2>1. UNCHANGED <<order, intent, attempts, requested, world>>
    BY <1>2 DEF LookUpIntent
  <2>2. RowsHold /\ WorldTyped
    BY <1>2, <2>1, UnchangedHolds, EventWritten DEF LookUpIntent
  <2>3. SessionsHold
    <3>1. CASE intent.bound
      BY <1>1, <1>2, <2>1, <3>1, GoHolds DEF LookUpIntent, At, world
    <3>2. CASE ~intent.bound
      BY <1>1, <1>2, <2>1, <3>2, EndHolds DEF LookUpIntent, world
    <3> QED
      BY <3>1, <3>2
  <2> QED
    BY <2>1, <2>2, <2>3, QuietStep DEF world
<1>3. CASE FetchCapture(s)
  <2>1. UNCHANGED <<rows, world>>
    BY <1>3 DEF FetchCapture
  <2>2. RowsHold /\ SessionsHold /\ WorldTyped
    BY <1>1, <1>3, <2>1, UnchangedHolds, FetchCaptureNotes, WorldUnchanged DEF rows, world
  <2> QED
    BY <2>1, <2>2, QuietStep DEF world
<1>4. CASE LoadOrder(s)
  <2>1. UNCHANGED <<rows, world>>
    BY <1>4 DEF LoadOrder
  <2>2. RowsHold /\ SessionsHold /\ WorldTyped
    BY <1>1, <1>4, <2>1, UnchangedHolds, LoadOrderNotes, WorldUnchanged DEF rows, world
  <2> QED
    BY <2>1, <2>2, QuietStep DEF world
<1>5. CASE DecideWebhook(s)
  <2>1. UNCHANGED world /\ intent.bound /\ intent.status # "none"
    BY <1>1, <1>5 DEF PayInv, BoundBeforeCapture, PastBinding, DecideWebhook
  <2>2. CASE RecordCapture(s) /\ event' = [event EXCEPT ![e] = "processed"]
    <3>1. RowsHold /\ WorldTyped
      BY <1>1, <2>1, <2>2, CaptureHolds, EventWritten
    <3>2. SessionsHold
      BY <1>1, <2>1, <2>2, EndHolds, EndBumpingHolds DEF RecordCapture, world
    <3> QED
      BY <2>1, <3>1, <3>2, QuietStep DEF world
  <2>3. CASE FlagReview(s) /\ event' = [event EXCEPT ![e] = "failed"]
    <3>1. RowsHold /\ SessionsHold /\ WorldTyped
      BY <1>1, <2>1, <2>3, ReviewHolds, EndBumpingHolds, EventWritten DEF FlagReview, world
    <3> QED
      BY <2>1, <3>1, QuietStep DEF world
  <2>4. CASE Ends(s) /\ UNCHANGED rows
    <3>1. RowsHold /\ SessionsHold /\ WorldTyped
      BY <1>1, <2>1, <2>4, UnchangedHolds, EndHolds, WorldUnchanged DEF rows, world
    <3> QED
      BY <2>1, <3>1, QuietStep DEF world
  <2> QED
    BY <1>5, <2>2, <2>3, <2>4 DEF DecideWebhook
<1> QED
  BY <1>2, <1>3, <1>4, <1>5 DEF HookStep

-----------------------------------------------------------------------------
(* The invariant                                                           *)

LEMMA AbortKeeps ==
    ASSUME PayInv, NEW s \in Session, Abort(s)
    PROVE  PayInv'
<1>1. RowsHold /\ SessionsHold /\ WorldTyped
  BY UnchangedHolds, EndHolds, WorldUnchanged DEF Abort, rows, world
<1> QED
  BY <1>1, QuietStep DEF Abort, world

LEMMA PayKeeps ==
    ASSUME PayInv, NEW to \in Remote, Pay(to)
    PROVE  PayInv'
<1>1. RowsHold
  BY UnchangedHolds DEF Pay, rows
<1>2. SessionsHold
  BY DEF Pay, rows, PayInv, TypeOK, PaidIsEvidence, ReturnsUnpaid, SessionsHold
<1>3. WorldTyped /\ posts' = posts /\ (remote = "absent" => remote' = "absent")
  BY DEF Pay, rows, PayInv, TypeOK, WorldTyped
<1> QED
  BY <1>1, <1>2, <1>3, QuietStep

LEMMA StepKeeps ==
    ASSUME PayInv, [Next]_vars
    PROVE  PayInv'
<1>1. CASE \E s \in BuyerSession : BuyerNext(s)
  BY <1>1, CheckoutKeeps
<1>2. CASE \E s \in ReconcileSession : ReconcileStep(s)
  BY <1>2, ReconcileKeeps
<1>3. CASE \E s \in HookSession : HookStep(s) \/ \E e \in Event : Deliver(s, e)
  BY <1>3, HookKeeps, DeliverKeeps
<1>4. CASE \E s \in Session : Abort(s)
  BY <1>4, AbortKeeps
<1>5. CASE \E to \in Remote : Pay(to)
  BY <1>5, PayKeeps
<1>6. CASE UNCHANGED vars
  BY <1>6 DEF vars, PayInv, TypeOK, SearchHasIntent, PaidIsEvidence, BoundBeforeCapture,
              OneStory, ReturnsUnpaid, OneLicence, PostedOnce
<1> QED
  BY <1>1, <1>2, <1>3, <1>4, <1>5, <1>6 DEF Next

LEMMA InitLooked == Init => looked \in BOOLEAN
  BY Zenon DEF Init

LEMMA InitHolds == Init => PayInv
<1> SUFFICES ASSUME Init PROVE PayInv
  OBVIOUS
<1>1. \A s \in Session : tx[s] = Idle
  BY DEF Init
<1>2. Idle.at = "idle" /\ Idle.paid = FALSE
  BY DEF Idle
<1>3. TypeOK
  BY IdleTyped, InitLooked, PaymentAssumption
     DEF Init, TypeOK, OrderStatus, PAYABLE, IntentStatus, Remote
<1>4. SearchHasIntent /\ PaidIsEvidence /\ BoundBeforeCapture /\ ReturnsUnpaid
  BY <1>1, <1>2
     DEF Init, SearchHasIntent, PaidIsEvidence, BoundBeforeCapture, PastBinding, ReturnsUnpaid
<1>5. OneStory /\ OneLicence
  BY <1>1, <1>2 DEF Init, OneStory, OneLicence, PostedOnce
<1> QED
  BY <1>3, <1>4, <1>5 DEF PayInv

\* Every invariant below is a part of this one.
THEOREM Invariant == Spec => []PayInv
  BY InitHolds, StepKeeps, PTL DEF Spec

\* Every row, session and counter keeps the type its column has.
THEOREM TypeCorrect == Spec => []TypeOK
<1>1. PayInv => TypeOK
  BY DEF PayInv
<1> QED
  BY <1>1, Invariant, PTL

\* However many requests, webhooks and reconciliations race, and wherever they
\* die: order, intent, attempt and production request say paid together.
THEOREM PaidIsOneStory == Spec => []PaidTogether
<1>1. PayInv => PaidTogether
  BY DEF PayInv, TypeOK, OneStory, PaidTogether
<1> QED
  BY <1>1, Invariant, PTL

\* The provider is never asked for a second order, whatever was lost.
THEOREM OneOrderPosted == Spec => []PostedOnce
<1>1. PayInv => PostedOnce
  BY DEF PayInv, OneLicence
<1> QED
  BY <1>1, Invariant, PTL

-----------------------------------------------------------------------------
(* The contract                                                            *)

\* A step of ours that records a capture confirms; any other stutters.
LEMMA RecordConfirms ==
    ASSUME PayInv, NEW s \in Session, MatchesCapture(s), RecordCapture(s), remote' = remote
    PROVE  Contract!Confirm \/ UNCHANGED <<money, requested>>
<1>1. money # "open" /\ money' = money
  BY DEF PayInv, PaidIsEvidence, MatchesCapture, money
<1>2. attempts = 0 => requested = 0
  BY DEF PayInv, OneStory
<1> QED
  BY <1>1, <1>2 DEF RecordCapture, Contract!Confirm

LEMMA PostStutters ==
    ASSUME PayInv, NEW s \in Session, PostOrder(s)
    PROVE  UNCHANGED <<money, requested>>
  BY DEF PayInv, OneLicence, PostOrder, rows, money

LEMMA PayMaps ==
    ASSUME PayInv, NEW to \in Remote, Pay(to)
    PROVE  Contract!Capture \/ Contract!Refund \/ UNCHANGED <<money, requested>>
  BY DEF Pay, rows, money, Contract!Capture, Contract!Refund

LEMMA StepsMap ==
    ASSUME PayInv, [Next]_vars
    PROVE  [Contract!Next]_<<money, requested>>
<1>1. CASE \E s \in BuyerSession : BuyerNext(s)
  <2>1. PICK s \in Session : BuyerNext(s)
    BY <1>1 DEF Session
  <2>2. CASE PostOrder(s)
    BY <2>2, PostStutters
  <2>3. CASE ~PostOrder(s)
    BY <2>1, <2>3
       DEF BuyerNext, BeginCheckout, CommitIntent, BindOrder, PostUncertain, FlagReview,
           BeginReturn, CommitReturn, rows, world, money
  <2> QED
    BY <2>2, <2>3
<1>2. CASE \E s \in ReconcileSession : ReconcileStep(s)
  <2>1. PICK s \in Session : ReconcileStep(s)
    BY <1>2 DEF Session
  <2>2. CASE MatchesCapture(s) /\ RecordCapture(s) /\ remote' = remote
    BY <2>2, RecordConfirms DEF Contract!Next
  <2>3. CASE ~(MatchesCapture(s) /\ RecordCapture(s) /\ remote' = remote)
    BY <2>1, <2>3
       DEF ReconcileStep, BeginReconcile, FindOrder, FetchOrder, FetchPayments,
           DecideReconcile, NotCaptured, FlagReview, rows, world, money
  <2> QED
    BY <2>2, <2>3
<1>3. CASE \E s \in HookSession : HookStep(s) \/ \E e \in Event : Deliver(s, e)
  <2>1. PICK s \in Session : HookStep(s) \/ \E e \in Event : Deliver(s, e)
    BY <1>3 DEF Session
  <2>2. CASE MatchesCapture(s) /\ RecordCapture(s) /\ remote' = remote
    BY <2>2, RecordConfirms DEF Contract!Next
  <2>3. CASE ~(MatchesCapture(s) /\ RecordCapture(s) /\ remote' = remote)
    BY <2>1, <2>3
       DEF HookStep, Deliver, LookUpIntent, FetchCapture, LoadOrder, DecideWebhook,
           FlagReview, rows, world, money
  <2> QED
    BY <2>2, <2>3
<1>4. CASE \E s \in Session : Abort(s)
  BY <1>4 DEF Abort, rows, world, money
<1>5. CASE \E to \in Remote : Pay(to)
  BY <1>5, PayMaps DEF Contract!Next
<1>6. CASE UNCHANGED vars
  BY <1>6 DEF vars, money
<1> QED
  BY <1>1, <1>2, <1>3, <1>4, <1>5, <1>6 DEF Next

\* Production is requested only after the provider captured the money, once,
\* and is not taken back, for any number of racing sessions.
THEOREM PaymentsImplementContract == Spec => ImplementsPaymentContract
<1>1. Init => Contract!Init
  BY DEF Init, Contract!Init, money
<1>2. PayInv /\ [Next]_vars => [Contract!Next]_<<money, requested>>
  BY StepsMap
<1> QED
  BY <1>1, <1>2, Invariant, PTL DEF Spec, ImplementsPaymentContract, Contract!Spec
=============================================================================
