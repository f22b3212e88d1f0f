---------------------------- MODULE Notices_proofs ----------------------------
(***************************************************************************)
(* Proofs about Notices for any number of notices, senders, attempts and   *)
(* retries: every step is one of NoticeContract or changes nothing of it.  *)
(***************************************************************************)
EXTENDS Notices, FiniteSetTheorems, TLAPS

-----------------------------------------------------------------------------
(* The inductive invariant                                                 *)

\* Senders that have counted an attempt and may still reach the mail server.
Submitting(n) == {w \in Sender : sender[w].at = "submit" /\ sender[w].for = n}

\* Attempts counted so far, those of earlier rounds in full.
Allowed(n) == MaxAttempts * submitted[n].retries + notice[n].attempts

\* A lease is on a row that is open; who has something in hand has it of a
\* notice that was requested, and reports "sent" of a message that was taken.
HandsMatchRows ==
    /\ \A n \in Notice : notice[n].lease # NoSender => notice[n].status \in Open
    /\ \A w \in Sender :
         /\ sender[w].at # "idle" => notice[sender[w].for].status # "none"
         /\ sender[w].at = "settle" /\ sender[w].outcome = "sent"
              => submitted[sender[w].for].messages > 0

\* A message is paid for by an attempt that was counted before it.
AttemptsCover ==
    \A n \in Notice : submitted[n].messages + Cardinality(Submitting(n)) <= Allowed(n)

NoticesInv == NoticesTypeOK /\ HandsMatchRows /\ AttemptsCover

-----------------------------------------------------------------------------
(* Rows                                                                    *)

LEMMA ProductStep ==
    ASSUME NEW a \in Nat, NEW r \in Nat
    PROVE  /\ a * r \in Nat
           /\ a * (r + 1) = a * r + a
           /\ a * (1 + r) = a * r + a
  OBVIOUS

LEMMA NoticeRowsTyped ==
    ASSUME NoticesTypeOK
    PROVE  /\ MaxAttempts \in Nat \ {0} /\ MaxRetries \in Nat
           /\ \A n \in Notice : /\ notice[n] \in NoticeRow
                                /\ notice[n].attempts \in 0..MaxAttempts
                                /\ notice[n].attempts \in Nat
                                /\ submitted[n].messages \in Nat
                                /\ submitted[n].retries \in Nat
           /\ \A w \in Sender : sender[w] \in SenderState /\ sender[w].for \in Notice
<1>1. MaxAttempts \in Nat \ {0} /\ MaxRetries \in Nat
  BY AttemptsAssumption
<1>2. \A n \in Notice : notice[n] \in NoticeRow /\ notice[n].attempts \in 0..MaxAttempts
  BY DEF NoticesTypeOK, NoticeRow
<1>3. \A n \in Notice : submitted[n].messages \in Nat /\ submitted[n].retries \in 0..MaxRetries
  BY DEF NoticesTypeOK
<1>4. \A w \in Sender : sender[w] \in SenderState /\ sender[w].for \in Notice
  BY DEF NoticesTypeOK, SenderState
<1> QED
  BY <1>1, <1>2, <1>3, <1>4

LEMMA SubmittingFinite == \A n : IsFiniteSet(Submitting(n)) /\ Cardinality(Submitting(n)) \in Nat
<1> TAKE n
<1>1. Submitting(n) \in SUBSET Sender
  BY DEF Submitting
<1> QED
  BY <1>1, SenderAssumption, FS_Subset, FS_CardinalityType

LEMMA IdleSenderTyped == IdleSender \in SenderState /\ IdleSender.at = "idle"
<1>1. (CHOOSE n \in Notice : TRUE) \in Notice
  BY NoticeAssumption
<1>2. 0 \in 0..MaxAttempts
  BY AttemptsAssumption
<1> DEFINE n == CHOOSE n \in Notice : TRUE
<1> HIDE DEF n
<1>3. n \in Notice
  BY <1>1 DEF n
<1>4. [at |-> "idle", for |-> n, attempt |-> 0, outcome |-> "failed"] \in SenderState
  BY <1>2, <1>3 DEF SenderState
<1> QED
  BY <1>4 DEF IdleSender, n

LEMMA StatusWritten ==
    ASSUME notice \in [Notice -> NoticeRow], NEW n \in Notice, NEW status \in NoticeStatus
    PROVE  /\ [notice EXCEPT ![n].status = status] \in [Notice -> NoticeRow]
           /\ [notice EXCEPT ![n].status = status][n].status = status
           /\ [notice EXCEPT ![n].status = status][n].attempts = notice[n].attempts
           /\ [notice EXCEPT ![n].status = status][n].lease = notice[n].lease
<1>1. /\ [notice[n] EXCEPT !.status = status] \in NoticeRow
      /\ [notice[n] EXCEPT !.status = status].status = status
      /\ [notice[n] EXCEPT !.status = status].attempts = notice[n].attempts
      /\ [notice[n] EXCEPT !.status = status].lease = notice[n].lease
  BY DEF NoticeRow
<1> QED
  BY <1>1

LEMMA RowReleased ==
    ASSUME NEW row \in NoticeRow, NEW status \in NoticeStatus
    PROVE  /\ Released(row, status) \in NoticeRow
           /\ Released(row, status).status = status
           /\ Released(row, status).attempts = row.attempts
           /\ Released(row, status).lease = NoSender
<1> DEFINE u == [row EXCEPT !.status = status]
           v == [u EXCEPT !.lease = NoSender]
<1>1. u \in NoticeRow /\ u.status = status /\ u.attempts = row.attempts
  BY DEF NoticeRow
<1> HIDE DEF u
<1>2. v \in NoticeRow /\ v.status = u.status /\ v.attempts = u.attempts /\ v.lease = NoSender
  BY <1>1 DEF NoticeRow
<1>3. Released(row, status) = [v EXCEPT !.held = FALSE]
  BY DEF Released, u, v
<1> HIDE DEF v
<1>4. /\ [v EXCEPT !.held = FALSE] \in NoticeRow
      /\ [v EXCEPT !.held = FALSE].status = v.status
      /\ [v EXCEPT !.held = FALSE].attempts = v.attempts
      /\ [v EXCEPT !.held = FALSE].lease = v.lease
  BY <1>2 DEF NoticeRow
<1> QED
  BY <1>1, <1>2, <1>3, <1>4

LEMMA RowClaimed ==
    ASSUME NEW row \in NoticeRow, NEW w \in Sender, row.attempts < MaxAttempts
    PROVE  LET new == [row EXCEPT !.lease = w, !.held = TRUE, !.attempts = @ + 1]
           IN  /\ new \in NoticeRow /\ new.status = row.status
               /\ new.attempts = row.attempts + 1
<1> DEFINE new == [row EXCEPT !.lease = w, !.held = TRUE, !.attempts = @ + 1]
           u == [row EXCEPT !.lease = w]
           v == [u EXCEPT !.held = TRUE]
<1>1. /\ u \in NoticeRow /\ u.status = row.status /\ u.attempts = row.attempts
  BY DEF NoticeRow
<1>2. v = [u EXCEPT !.held = TRUE] /\ new = [v EXCEPT !.attempts = @ + 1]
  OBVIOUS
<1> HIDE DEF new, u
<1>3. v \in NoticeRow /\ v.status = u.status /\ v.attempts = u.attempts
  BY <1>1 DEF NoticeRow
<1> HIDE DEF v
<1>4. v.attempts \in Nat /\ v.attempts + 1 \in 0..MaxAttempts
  BY <1>1, <1>3, AttemptsAssumption DEF NoticeRow
<1>5. /\ [v EXCEPT !.attempts = @ + 1] \in NoticeRow
      /\ [v EXCEPT !.attempts = @ + 1].status = v.status
      /\ [v EXCEPT !.attempts = @ + 1].attempts = v.attempts + 1
  BY <1>3, <1>4 DEF NoticeRow
<1>6. new \in NoticeRow /\ new.status = row.status /\ new.attempts = row.attempts + 1
  BY <1>1, <1>2, <1>3, <1>5
<1> QED
  BY <1>6 DEF new

LEMMA RowReopened ==
    ASSUME NEW row \in NoticeRow
    PROVE  LET new == [row EXCEPT !.status = "pending", !.attempts = 0]
           IN  /\ new \in NoticeRow /\ new.status = "pending" /\ new.attempts = 0
               /\ new.lease = row.lease
<1> DEFINE new == [row EXCEPT !.status = "pending", !.attempts = 0]
           u == [row EXCEPT !.status = "pending"]
<1>1. u \in NoticeRow /\ u.status = "pending" /\ u.lease = row.lease
  BY DEF NoticeRow, NoticeStatus, Open
<1>2. new = [u EXCEPT !.attempts = 0]
  OBVIOUS
<1>3. 0 \in 0..MaxAttempts
  BY AttemptsAssumption
<1> HIDE DEF new, u
<1>4. /\ [u EXCEPT !.attempts = 0] \in NoticeRow
      /\ [u EXCEPT !.attempts = 0].status = u.status
      /\ [u EXCEPT !.attempts = 0].attempts = 0
      /\ [u EXCEPT !.attempts = 0].lease = u.lease
  BY <1>1, <1>3 DEF NoticeRow
<1>5. new \in NoticeRow /\ new.status = "pending" /\ new.attempts = 0 /\ new.lease = row.lease
  BY <1>1, <1>2, <1>4
<1> QED
  BY <1>5 DEF new

LEMMA SenderAnswered ==
    ASSUME NEW row \in SenderState, NEW outcome \in {"sent", "failed", "dead_lettered"}
    PROVE  LET new == [row EXCEPT !.at = "settle", !.outcome = outcome]
           IN  /\ new \in SenderState /\ new.at = "settle" /\ new.for = row.for
               /\ new.outcome = outcome
<1> DEFINE new == [row EXCEPT !.at = "settle", !.outcome = outcome]
           u == [row EXCEPT !.at = "settle"]
<1>1. u \in SenderState /\ u.at = "settle" /\ u.for = row.for
  BY DEF SenderState
<1>2. new = [u EXCEPT !.outcome = outcome]
  OBVIOUS
<1> HIDE DEF new, u
<1>3. /\ [u EXCEPT !.outcome = outcome] \in SenderState
      /\ [u EXCEPT !.outcome = outcome].at = u.at
      /\ [u EXCEPT !.outcome = outcome].for = u.for
      /\ [u EXCEPT !.outcome = outcome].outcome = outcome
  BY <1>1 DEF SenderState
<1>4. new \in SenderState /\ new.at = "settle" /\ new.for = row.for /\ new.outcome = outcome
  BY <1>1, <1>2, <1>3
<1> QED
  BY <1>4 DEF new

-----------------------------------------------------------------------------
(* Steps keep the invariant                                                *)

LEMMA NoticesInitially == NoticesInit => NoticesInv
<1> SUFFICES ASSUME NoticesInit PROVE NoticesInv
  OBVIOUS
<1>1. 0 \in 0..MaxAttempts /\ 0 \in 0..MaxRetries /\ MaxAttempts \in Nat
  BY AttemptsAssumption
<1>2. [status |-> "none", attempts |-> 0, lease |-> NoSender, held |-> FALSE] \in NoticeRow
  BY <1>1 DEF NoticeRow, NoticeStatus
<1>3. \A n \in Notice : /\ notice[n].status = "none" /\ notice[n].attempts = 0
                        /\ notice[n].lease = NoSender
                        /\ submitted[n].messages = 0 /\ submitted[n].retries = 0
  BY DEF NoticesInit
<1>4. \A w \in Sender : sender[w].at = "idle"
  BY IdleSenderTyped DEF NoticesInit
<1>5. NoticesTypeOK
  BY <1>1, <1>2, IdleSenderTyped DEF NoticesInit, NoticesTypeOK
<1>6. HandsMatchRows
  BY <1>3, <1>4 DEF HandsMatchRows
<1>7. \A n \in Notice : Submitting(n) = {}
  BY <1>4 DEF Submitting
<1>8. MaxAttempts * 0 = 0
  BY <1>1
<1>9. \A n \in Notice : Allowed(n) = 0
  BY <1>3, <1>8 DEF Allowed
<1>10. \A n \in Notice : Cardinality(Submitting(n)) = 0
  BY <1>7, FS_EmptySet, Zenon
<1>11. AttemptsCover
  BY <1>3, <1>9, <1>10 DEF AttemptsCover
<1> QED
  BY <1>5, <1>6, <1>11 DEF NoticesInv

\* Senders that stop at most leave attempts unused.
SendersStop ==
    /\ sender' \in [Sender -> SenderState]
    /\ \A w \in Sender : sender'[w] = sender[w] \/ sender'[w].at = "idle"

LEMMA StoppedCount ==
    ASSUME SendersStop, NEW n
    PROVE  /\ Cardinality(Submitting(n)') \in Nat
           /\ Cardinality(Submitting(n)') <= Cardinality(Submitting(n))
<1>1. Submitting(n)' \subseteq Submitting(n)
  BY DEF SendersStop, Submitting
<1> QED
  BY <1>1, SubmittingFinite, FS_Subset, FS_CardinalityType

LEMMA NothingWritten ==
    ASSUME NoticesInv, SendersStop, UNCHANGED <<notice, submitted>>
    PROVE  NoticesInv'
<1>1. NoticesTypeOK'
  BY DEF NoticesInv, NoticesTypeOK, SendersStop
<1>2. HandsMatchRows'
  BY DEF NoticesInv, HandsMatchRows, SendersStop
<1>3. AttemptsCover'
  <2> SUFFICES ASSUME NEW n \in Notice
               PROVE  submitted[n].messages + Cardinality(Submitting(n)') <= Allowed(n)
    BY DEF AttemptsCover, Allowed
  <2>1. submitted[n].messages + Cardinality(Submitting(n)) <= Allowed(n)
    BY DEF NoticesInv, AttemptsCover
  <2>2. Allowed(n) \in Nat /\ submitted[n].messages \in Nat
    BY NoticeRowsTyped, ProductStep DEF Allowed, NoticesInv
  <2> QED
    BY <2>1, <2>2, StoppedCount, SubmittingFinite
<1> QED
  BY <1>1, <1>2, <1>3 DEF NoticesInv

\* A row is written and no attempt counted.
LEMMA RowMoves ==
    ASSUME NoticesInv, SendersStop, UNCHANGED submitted, NEW n \in Notice, NEW new \in NoticeRow,
           notice' = [notice EXCEPT ![n] = new], new.attempts = notice[n].attempts,
           new.status = "none" => notice[n].status = "none",
           new.lease # NoSender => new.status \in Open
    PROVE  NoticesInv'
<1>1. NoticesTypeOK'
  BY DEF NoticesInv, NoticesTypeOK, SendersStop
<1>2. notice'[n] = new /\ \A k \in Notice \ {n} : notice'[k] = notice[k]
  BY DEF NoticesInv, NoticesTypeOK
<1>3. \A k \in Notice : /\ notice'[k].attempts = notice[k].attempts
                        /\ notice'[k].status = "none" => notice[k].status = "none"
  BY <1>2
<1>4. \A w \in Sender : sender[w].for \in Notice
  BY NoticeRowsTyped DEF NoticesInv
<1>5. HandsMatchRows'
  BY <1>2, <1>3, <1>4 DEF NoticesInv, HandsMatchRows, SendersStop
<1>6. AttemptsCover'
  <2> SUFFICES ASSUME NEW k \in Notice
               PROVE  submitted[k].messages + Cardinality(Submitting(k)') <= Allowed(k)
    BY <1>3 DEF AttemptsCover, Allowed
  <2>1. submitted[k].messages + Cardinality(Submitting(k)) <= Allowed(k)
    BY DEF NoticesInv, AttemptsCover
  <2>2. Allowed(k) \in Nat /\ submitted[k].messages \in Nat
    BY NoticeRowsTyped, ProductStep DEF Allowed, NoticesInv
  <2> QED
    BY <2>1, <2>2, StoppedCount, SubmittingFinite
<1> QED
  BY <1>1, <1>5, <1>6 DEF NoticesInv

LEMMA SenderStops ==
    ASSUME NoticesInv, NEW w
    PROVE  /\ UNCHANGED sender => SendersStop
           /\ sender' = [sender EXCEPT ![w] = IdleSender] => SendersStop
  BY IdleSenderTyped DEF NoticesInv, NoticesTypeOK, SendersStop

LEMMA RequestedKeeps ==
    ASSUME NoticesInv, NEW n \in Notice, notice[n].status = "none", Requested(n),
           UNCHANGED <<sender, submitted>>
    PROVE  NoticesInv'
<1> DEFINE new == [notice[n] EXCEPT !.status = "requested"]
<1>1. notice \in [Notice -> NoticeRow] /\ notice[n] \in NoticeRow
  BY DEF NoticesInv, NoticesTypeOK
<1>2. /\ new \in NoticeRow /\ new.status = "requested" /\ new.attempts = notice[n].attempts
      /\ new.lease = notice[n].lease
  BY <1>1 DEF NoticeRow, NoticeStatus
<1>3. notice' = [notice EXCEPT ![n] = new]
  BY <1>1 DEF Requested
<1>4. new.lease = NoSender
  BY <1>2 DEF NoticesInv, HandsMatchRows, Open
<1> HIDE DEF new
<1> QED
  BY <1>2, <1>3, <1>4, RowMoves, SenderStops

LEMMA PublishKeeps ==
    ASSUME NoticesInv, NEW n \in Notice, Publish(n)
    PROVE  NoticesInv'
<1>1. PICK status \in {"pending", "dead_lettered"} : notice' = [notice EXCEPT ![n].status = status]
  BY DEF Publish
<1> DEFINE new == [notice[n] EXCEPT !.status = status]
<1>2. notice \in [Notice -> NoticeRow] /\ notice[n] \in NoticeRow
  BY DEF NoticesInv, NoticesTypeOK
<1>3. /\ new \in NoticeRow /\ new.status = status /\ new.attempts = notice[n].attempts
      /\ new.lease = notice[n].lease
  BY <1>2 DEF NoticeRow, NoticeStatus, Open
<1>4. notice' = [notice EXCEPT ![n] = new]
  BY <1>1, <1>2
<1>5. new.lease = NoSender
  BY <1>3 DEF NoticesInv, HandsMatchRows, Open, Publish
<1>6. UNCHANGED <<sender, submitted>>
  BY DEF Publish
<1> HIDE DEF new
<1> QED
  BY <1>3, <1>4, <1>5, <1>6, RowMoves, SenderStops

LEMMA DeadLetterKeeps ==
    ASSUME NoticesInv, NEW n \in Notice, DeadLetter(n)
    PROVE  NoticesInv'
<1> DEFINE new == Released(notice[n], "dead_lettered")
<1>1. notice[n] \in NoticeRow
  BY NoticeRowsTyped DEF NoticesInv
<1>2. /\ new \in NoticeRow /\ new.status = "dead_lettered" /\ new.attempts = notice[n].attempts
      /\ new.lease = NoSender
  BY <1>1, RowReleased DEF NoticeStatus
<1>3. notice' = [notice EXCEPT ![n] = new] /\ UNCHANGED <<sender, submitted>>
  BY DEF DeadLetter, NoticesInv, NoticesTypeOK
<1> HIDE DEF new
<1> QED
  BY <1>2, <1>3, RowMoves, SenderStops

LEMMA LeaseLapsesKeeps ==
    ASSUME NoticesInv, NEW n \in Notice, LeaseLapses(n)
    PROVE  NoticesInv'
<1> DEFINE new == [notice[n] EXCEPT !.held = FALSE]
<1>1. notice \in [Notice -> NoticeRow] /\ notice[n] \in NoticeRow
  BY DEF NoticesInv, NoticesTypeOK
<1>2. /\ new \in NoticeRow /\ new.status = notice[n].status
      /\ new.attempts = notice[n].attempts /\ new.lease = notice[n].lease
  BY <1>1 DEF NoticeRow
<1>3. notice' = [notice EXCEPT ![n] = new] /\ UNCHANGED <<sender, submitted>>
  BY <1>1 DEF LeaseLapses
<1>4. notice[n].lease # NoSender => notice[n].status \in Open
  BY DEF NoticesInv, HandsMatchRows
<1> HIDE DEF new
<1> QED
  BY <1>2, <1>3, <1>4, RowMoves, SenderStops

LEMMA SettleKeeps ==
    ASSUME NoticesInv, NEW w \in Sender, Settle(w)
    PROVE  NoticesInv'
<1> DEFINE n == sender[w].for
           new == Released(notice[n], sender[w].outcome)
<1>1. SendersStop /\ UNCHANGED submitted
  BY SenderStops DEF Settle
<1>2. n \in Notice /\ notice[n] \in NoticeRow /\ sender[w].outcome \in NoticeStatus \ {"none"}
  BY NoticeRowsTyped DEF NoticesInv, SenderState, NoticeStatus, Open
<1>3. CASE notice' = notice
  BY <1>1, <1>3, NothingWritten
<1>4. CASE notice[n].lease = w
  <2>1. /\ new \in NoticeRow /\ new.status = sender[w].outcome
        /\ new.attempts = notice[n].attempts /\ new.lease = NoSender
    BY <1>2, RowReleased
  <2>2. notice' = [notice EXCEPT ![n] = new]
    BY <1>4 DEF Settle, NoticesInv, NoticesTypeOK
  <2> HIDE DEF new, n
  <2> QED
    BY <1>1, <1>2, <2>1, <2>2, RowMoves
<1> QED
  BY <1>3, <1>4 DEF Settle

LEMMA CrashKeeps == ASSUME NoticesInv, NEW w \in Sender, Crash(w) PROVE NoticesInv'
  BY NothingWritten, SenderStops DEF Crash

\* A new round allows MaxAttempts messages more.
LEMMA RetryKeeps ==
    ASSUME NoticesInv, NEW n \in Notice, RetryNotice(n)
    PROVE  NoticesInv'
<1> DEFINE new == [notice[n] EXCEPT !.status = "pending", !.attempts = 0]
           row == [submitted[n] EXCEPT !.retries = @ + 1]
<1>1. /\ notice \in [Notice -> NoticeRow] /\ notice[n] \in NoticeRow
      /\ submitted \in [Notice -> [messages : Nat, retries : 0..MaxRetries]]
      /\ submitted[n].retries \in Nat /\ submitted[n].retries + 1 \in 0..MaxRetries
  BY NoticeRowsTyped DEF NoticesInv, NoticesTypeOK, RetryNotice
<1>2. /\ new \in NoticeRow /\ new.status = "pending" /\ new.attempts = 0
      /\ new.lease = notice[n].lease
  BY <1>1, RowReopened, Zenon
<1>3. /\ row \in [messages : Nat, retries : 0..MaxRetries]
      /\ row.messages = submitted[n].messages /\ row.retries = submitted[n].retries + 1
  BY <1>1
<1>4. /\ notice' = [notice EXCEPT ![n] = new] /\ submitted' = [submitted EXCEPT ![n] = row]
      /\ UNCHANGED sender /\ notice[n].lease = NoSender
  BY <1>1 DEF RetryNotice
<1> HIDE DEF new, row
<1>5. /\ notice'[n] = new /\ submitted'[n] = row
      /\ \A k \in Notice \ {n} : notice'[k] = notice[k] /\ submitted'[k] = submitted[k]
  BY <1>1, <1>4
<1>6. NoticesTypeOK'
  BY <1>1, <1>2, <1>3, <1>4 DEF NoticesInv, NoticesTypeOK
<1>7. \A w \in Sender : sender[w].for \in Notice
  BY NoticeRowsTyped DEF NoticesInv
<1>8. HandsMatchRows'
  BY <1>2, <1>3, <1>4, <1>5, <1>7 DEF NoticesInv, HandsMatchRows
<1>9. AttemptsCover'
  <2> SUFFICES ASSUME NEW k \in Notice
               PROVE  submitted'[k].messages + Cardinality(Submitting(k)) <= Allowed(k)'
    BY <1>4 DEF AttemptsCover, Submitting
  <2>1. submitted[k].messages + Cardinality(Submitting(k)) <= Allowed(k)
    BY DEF NoticesInv, AttemptsCover
  <2>2. CASE k # n
    BY <1>5, <2>1, <2>2 DEF Allowed
  <2>3. CASE k = n
    <3>1. notice[n].attempts \in Nat /\ notice[n].attempts <= MaxAttempts /\ MaxAttempts \in Nat
      BY NoticeRowsTyped DEF NoticesInv
    <3> DEFINE product == MaxAttempts * submitted[n].retries
    <3>2. /\ MaxAttempts * (submitted[n].retries + 1) = product + MaxAttempts
          /\ product \in Nat
      BY <1>1, <3>1, ProductStep
    <3>3. Allowed(n) = product + notice[n].attempts
      BY DEF Allowed
    <3>4. Allowed(n)' = product + MaxAttempts
      BY <1>2, <1>3, <1>5, <3>1, <3>2 DEF Allowed
    <3> HIDE DEF product
    <3>5. submitted[n].messages \in Nat /\ submitted'[n].messages = submitted[n].messages
      BY <1>3, <1>5, NoticeRowsTyped DEF NoticesInv
    <3> QED
      BY <2>1, <2>3, <3>1, <3>2, <3>3, <3>4, <3>5, SubmittingFinite
  <2> QED
    BY <2>2, <2>3
<1> QED
  BY <1>6, <1>8, <1>9 DEF NoticesInv

LEMMA OneMore ==
    ASSUME NEW S, NEW x, IsFiniteSet(S)
    PROVE  /\ IsFiniteSet(S \cup {x}) /\ Cardinality(S \cup {x}) \in Nat
           /\ Cardinality(S \cup {x}) <= Cardinality(S) + 1
<1>1. IsFiniteSet(S \cup {x}) /\ Cardinality(S \cup {x})
        = IF x \in S THEN Cardinality(S) ELSE Cardinality(S) + 1
  BY FS_AddElement
<1>2. Cardinality(S \cup {x}) \in Nat /\ Cardinality(S) \in Nat
  BY <1>1, FS_CardinalityType
<1> QED
  BY <1>1, <1>2

\* The attempt is counted on the row before the sender may submit.
LEMMA ClaimKeeps ==
    ASSUME NoticesInv, NEW w \in Sender, NEW n \in Notice, Claim(w, n)
    PROVE  NoticesInv'
<1> DEFINE new == [notice[n] EXCEPT !.lease = w, !.held = TRUE, !.attempts = @ + 1]
<1>1. /\ notice \in [Notice -> NoticeRow] /\ notice[n] \in NoticeRow
      /\ notice[n].attempts \in Nat /\ notice[n].attempts + 1 \in 0..MaxAttempts
  BY NoticeRowsTyped DEF NoticesInv, NoticesTypeOK, Claim
<1>2. /\ new \in NoticeRow /\ new.status = notice[n].status
      /\ new.attempts = notice[n].attempts + 1
  BY <1>1, RowClaimed DEF Claim
<1>3. notice' = [notice EXCEPT ![n] = new] /\ UNCHANGED submitted
  BY <1>1 DEF Claim
<1>4. notice[n].status \in Open
  BY DEF Claim
<1> HIDE DEF new
<1>5. notice'[n] = new /\ \A k \in Notice \ {n} : notice'[k] = notice[k]
  BY <1>1, <1>3
<1>6. PICK at \in {"submit", "settle"} :
        sender' = [sender EXCEPT ![w] = [at |-> at, for |-> n, attempt |-> notice[n].attempts + 1,
                                         outcome |-> "dead_lettered"]]
  BY DEF Claim
<1> DEFINE mine == [at |-> at, for |-> n, attempt |-> notice[n].attempts + 1,
                    outcome |-> "dead_lettered"]
<1>7. mine \in SenderState /\ mine.at = at /\ mine.for = n /\ mine.outcome = "dead_lettered"
  BY <1>1 DEF SenderState
<1> HIDE DEF mine
<1>8. sender' = [sender EXCEPT ![w] = mine]
  BY <1>6 DEF mine
<1>9. /\ sender' \in [Sender -> SenderState] /\ sender'[w] = mine
      /\ \A x \in Sender \ {w} : sender'[x] = sender[x]
  BY <1>7, <1>8 DEF NoticesInv, NoticesTypeOK
<1>10. NoticesTypeOK'
  BY <1>1, <1>2, <1>3, <1>9 DEF NoticesInv, NoticesTypeOK
<1>11. \A x \in Sender : sender[x].for \in Notice
  BY NoticeRowsTyped DEF NoticesInv
<1>12. HandsMatchRows'
  <2>1. \A k \in Notice : notice'[k].status = notice[k].status
    BY <1>2, <1>5
  <2>2. \A k \in Notice : notice'[k].lease # NoSender => notice'[k].status \in Open
    BY <1>4, <1>5, <2>1 DEF NoticesInv, HandsMatchRows
  <2>3. \A x \in Sender \ {w} :
          /\ sender'[x].at # "idle" => notice'[sender'[x].for].status # "none"
          /\ sender'[x].at = "settle" /\ sender'[x].outcome = "sent"
               => submitted'[sender'[x].for].messages > 0
    BY <1>3, <1>9, <1>11, <2>1 DEF NoticesInv, HandsMatchRows
  <2>4. /\ notice'[sender'[w].for].status # "none"
        /\ sender'[w].outcome # "sent"
    BY <1>4, <1>7, <1>9, <2>1 DEF Open
  <2> QED
    BY <2>2, <2>3, <2>4 DEF HandsMatchRows
<1>13. AttemptsCover'
  <2> SUFFICES ASSUME NEW k \in Notice
               PROVE  submitted[k].messages + Cardinality(Submitting(k)') <= Allowed(k)'
    BY <1>3 DEF AttemptsCover
  <2>1. submitted[k].messages + Cardinality(Submitting(k)) <= Allowed(k)
    BY DEF NoticesInv, AttemptsCover
  <2>2. /\ Allowed(k) \in Nat /\ submitted[k].messages \in Nat
        /\ MaxAttempts * submitted[k].retries \in Nat /\ notice[k].attempts \in Nat
    BY NoticeRowsTyped, ProductStep DEF Allowed, NoticesInv
  <2>3. CASE k # n
    <3>1. Submitting(k)' \subseteq Submitting(k)
      BY <1>7, <1>9, <2>3 DEF Submitting
    <3>2. Cardinality(Submitting(k)') \in Nat
          /\ Cardinality(Submitting(k)') <= Cardinality(Submitting(k))
      BY <3>1, SubmittingFinite, FS_Subset, FS_CardinalityType
    <3>3. Allowed(k)' = Allowed(k)
      BY <1>3, <1>5, <2>3 DEF Allowed
    <3> QED
      BY <2>1, <2>2, <3>2, <3>3, SubmittingFinite
  <2>4. CASE k = n
    <3>1. Submitting(n)' \subseteq Submitting(n) \cup {w}
      BY <1>9 DEF Submitting
    <3>2. /\ IsFiniteSet(Submitting(n) \cup {w})
          /\ Cardinality(Submitting(n) \cup {w}) \in Nat
          /\ Cardinality(Submitting(n) \cup {w}) <= Cardinality(Submitting(n)) + 1
      <4>1. IsFiniteSet(Submitting(n)) /\ Cardinality(Submitting(n)) \in Nat
        BY SubmittingFinite
      <4> QED
        BY <4>1, OneMore
    <3>3. Cardinality(Submitting(n)') \in Nat
          /\ Cardinality(Submitting(n)') <= Cardinality(Submitting(n) \cup {w})
      BY <3>1, <3>2, FS_Subset, FS_CardinalityType
    <3>4. Allowed(n)' = Allowed(n) + 1
      <4> DEFINE product == MaxAttempts * submitted[n].retries
      <4>1. Allowed(n) = product + notice[n].attempts /\ product \in Nat
        BY <2>2, <2>4 DEF Allowed
      <4>2. Allowed(n)' = product + (notice[n].attempts + 1)
        BY <1>2, <1>3, <1>5 DEF Allowed
      <4> HIDE DEF product
      <4> QED
        BY <1>1, <4>1, <4>2
    <3> QED
      BY <2>1, <2>2, <2>4, <3>2, <3>3, <3>4, SubmittingFinite
  <2> QED
    BY <2>3, <2>4
<1> QED
  BY <1>10, <1>12, <1>13 DEF NoticesInv

\* What a submission does, whatever its answer.
LEMMA SendFacts ==
    ASSUME NoticesInv, NEW w \in Sender, SendNotice(w)
    PROVE  LET n == sender[w].for
           IN  /\ n \in Notice /\ sender[w].at = "submit"
               /\ notice' = notice
               /\ sender' \in [Sender -> SenderState]
               /\ sender'[w].at = "settle" /\ sender'[w].for = n
               /\ \A x \in Sender \ {w} : sender'[x] = sender[x]
               /\ submitted' \in [Notice -> [messages : Nat, retries : 0..MaxRetries]]
               /\ \/ submitted' = submitted /\ sender'[w].outcome # "sent"
                  \/ /\ submitted'[n].messages = submitted[n].messages + 1
                     /\ submitted'[n].retries = submitted[n].retries
                     /\ \A k \in Notice \ {n} : submitted'[k] = submitted[k]
<1> DEFINE n == sender[w].for
           row == [submitted[n] EXCEPT !.messages = @ + 1]
<1>1. /\ sender \in [Sender -> SenderState] /\ sender[w] \in SenderState /\ n \in Notice
      /\ submitted \in [Notice -> [messages : Nat, retries : 0..MaxRetries]]
  BY NoticeRowsTyped DEF NoticesInv, NoticesTypeOK
<1>2. PICK outcome \in {"sent", "failed", "dead_lettered"} :
        Answer(w, outcome) /\ (Counted(n) \/ (submitted' = submitted /\ outcome # "sent"))
  <2>1. CASE Answer(w, "sent") /\ Counted(n)
    BY <2>1, Zenon
  <2> DEFINE failure == IF sender[w].attempt >= MaxAttempts THEN "dead_lettered" ELSE "failed"
  <2>2. failure \in {"sent", "failed", "dead_lettered"} /\ failure # "sent"
    OBVIOUS
  <2>3. CASE Answer(w, failure) /\ (Counted(n) \/ submitted' = submitted)
    <3> HIDE DEF failure
    <3> QED
      BY <2>2, <2>3, Zenon
  <2> QED
    BY <2>1, <2>3 DEF SendNotice
<1> DEFINE mine == [sender[w] EXCEPT !.at = "settle", !.outcome = outcome]
<1>3. /\ mine \in SenderState /\ mine.at = "settle" /\ mine.for = n /\ mine.outcome = outcome
  BY <1>1, SenderAnswered, Zenon
<1>4. sender' = [sender EXCEPT ![w] = mine]
  BY <1>1, <1>2 DEF Answer
<1> HIDE DEF mine
<1>5. /\ sender' \in [Sender -> SenderState] /\ sender'[w] = mine
      /\ \A x \in Sender \ {w} : sender'[x] = sender[x]
  BY <1>1, <1>3, <1>4
<1>6. /\ row \in [messages : Nat, retries : 0..MaxRetries]
      /\ row.messages = submitted[n].messages + 1 /\ row.retries = submitted[n].retries
  BY <1>1
<1>7. sender[w].at = "submit" /\ notice' = notice
  BY DEF SendNotice
<1>8. CASE Counted(n)
  <2>1. submitted' = [submitted EXCEPT ![n] = row]
    BY <1>1, <1>8 DEF Counted
  <2> HIDE DEF row, n
  <2>2. /\ submitted' \in [Notice -> [messages : Nat, retries : 0..MaxRetries]]
        /\ submitted'[n] = row /\ \A k \in Notice \ {n} : submitted'[k] = submitted[k]
    BY <1>1, <1>6, <2>1
  <2> QED
    BY <1>1, <1>3, <1>5, <1>6, <1>7, <2>2 DEF n
<1>9. CASE submitted' = submitted /\ outcome # "sent"
  BY <1>1, <1>3, <1>5, <1>7, <1>9
<1> QED
  BY <1>2, <1>8, <1>9

LEMMA SendKeeps ==
    ASSUME NoticesInv, NEW w \in Sender, SendNotice(w)
    PROVE  NoticesInv'
<1> DEFINE n == sender[w].for
<1>1. /\ n \in Notice /\ sender[w].at = "submit" /\ notice' = notice
      /\ sender' \in [Sender -> SenderState]
      /\ sender'[w].at = "settle" /\ sender'[w].for = n
      /\ \A x \in Sender \ {w} : sender'[x] = sender[x]
      /\ submitted' \in [Notice -> [messages : Nat, retries : 0..MaxRetries]]
  BY SendFacts
<1>2. \/ submitted' = submitted /\ sender'[w].outcome # "sent"
      \/ /\ submitted'[n].messages = submitted[n].messages + 1
         /\ submitted'[n].retries = submitted[n].retries
         /\ \A k \in Notice \ {n} : submitted'[k] = submitted[k]
  BY SendFacts
<1>3. \A x \in Sender : sender[x].for \in Notice
  BY NoticeRowsTyped DEF NoticesInv
<1>4. /\ \A k \in Notice : submitted[k].messages \in Nat /\ submitted'[k].messages \in Nat
      /\ submitted[n].messages + 1 > 0
  BY <1>1, NoticeRowsTyped DEF NoticesInv
<1> HIDE DEF n
<1>5. NoticesTypeOK'
  BY <1>1 DEF NoticesInv, NoticesTypeOK
<1>6. HandsMatchRows'
  <2>1. \A k \in Notice : submitted[k].messages > 0 => submitted'[k].messages > 0
    BY <1>2, <1>4
  <2>2. sender'[w].outcome = "sent" => submitted'[n].messages > 0
    BY <1>2, <1>4
  <2>3. notice[n].status # "none"
    BY <1>1 DEF NoticesInv, HandsMatchRows, n
  <2> QED
    BY <1>1, <1>3, <2>1, <2>2, <2>3 DEF NoticesInv, HandsMatchRows
<1>7. AttemptsCover'
  <2> SUFFICES ASSUME NEW k \in Notice
               PROVE  submitted'[k].messages + Cardinality(Submitting(k)') <= Allowed(k)'
    BY DEF AttemptsCover
  <2>1. submitted[k].messages + Cardinality(Submitting(k)) <= Allowed(k)
    BY DEF NoticesInv, AttemptsCover
  <2>2. Allowed(k)' = Allowed(k) /\ Allowed(k) \in Nat
    <3>1. submitted'[k].retries = submitted[k].retries
      BY <1>2
    <3>2. Allowed(k) \in Nat
      BY NoticeRowsTyped, ProductStep DEF Allowed, NoticesInv
    <3> QED
      BY <1>1, <3>1, <3>2 DEF Allowed
  <2>3. /\ Submitting(k)' = Submitting(k) \ {w}
        /\ w \in Submitting(k) <=> k = n
    BY <1>1 DEF Submitting, n
  <2>4. /\ Cardinality(Submitting(k)') \in Nat /\ Cardinality(Submitting(k)) \in Nat
        /\ Cardinality(Submitting(k)')
             = IF k = n THEN Cardinality(Submitting(k)) - 1 ELSE Cardinality(Submitting(k))
    <3>1. IsFiniteSet(Submitting(k)) /\ Cardinality(Submitting(k)) \in Nat
      BY SubmittingFinite
    <3> QED
      BY <2>3, <3>1, FS_RemoveElement, FS_CardinalityType
  <2>5. submitted'[k].messages
          \in {submitted[k].messages, IF k = n THEN submitted[k].messages + 1
                                      ELSE submitted[k].messages}
    BY <1>2
  <2> QED
    BY <1>4, <2>1, <2>2, <2>4, <2>5
<1> QED
  BY <1>5, <1>6, <1>7 DEF NoticesInv

LEMMA NoticesStepKeeps == NoticesInv /\ NoticesNext => NoticesInv'
  BY PublishKeeps, DeadLetterKeeps, LeaseLapsesKeeps, RetryKeeps, ClaimKeeps, SendKeeps,
     SettleKeeps, CrashKeeps DEF NoticesNext

-----------------------------------------------------------------------------
(* Every step is one of the contract                                       *)

Outcomes == [n \in Notice |-> OutcomeOf(n)]

Messages == [n \in Notice |-> submitted[n].messages]

Retries == [n \in Notice |-> submitted[n].retries]

Told == <<Outcomes, Messages, Retries>>

\* OutcomeOf as a function of the row's status.
OutcomeFor(status) ==
    IF status = "none" THEN "none"
    ELSE IF status \in {"requested"} \cup Open THEN "open" ELSE status

LEMMA OutcomeTable ==
    /\ \A n \in Notice : OutcomeOf(n) = OutcomeFor(notice[n].status)
    /\ \A n \in Notice : OutcomeOf(n)' = OutcomeFor(notice'[n].status)
<1>1. \A n \in Notice : OutcomeOf(n) = OutcomeFor(notice[n].status)
  BY DEF OutcomeOf, OutcomeFor, Open
<1>2. \A n \in Notice : OutcomeOf(n)' = OutcomeFor(notice'[n].status)
  BY DEF OutcomeOf, OutcomeFor, Open
<1> QED
  BY <1>1, <1>2

\* One notice moves and no message is sent.
LEMMA OneOutcome ==
    ASSUME NEW n \in Notice, \A k \in Notice \ {n} : notice'[k].status = notice[k].status
    PROVE  Outcomes' = [Outcomes EXCEPT ![n] = OutcomeFor(notice'[n].status)]
<1>1. \A k \in Notice \ {n} : OutcomeOf(k)' = OutcomeOf(k)
  BY OutcomeTable
<1>2. OutcomeOf(n)' = OutcomeFor(notice'[n].status)
  BY OutcomeTable
<1> QED
  BY <1>1, <1>2 DEF Outcomes

LEMMA SameOutcomes ==
    ASSUME \A n \in Notice : OutcomeFor(notice'[n].status) = OutcomeFor(notice[n].status)
    PROVE  Outcomes' = Outcomes
<1>1. \A n \in Notice : OutcomeOf(n)' = OutcomeOf(n)
  BY OutcomeTable
<1> QED
  BY <1>1 DEF Outcomes

LEMMA NothingSent == UNCHANGED submitted => UNCHANGED <<Messages, Retries>>
  BY DEF Messages, Retries

\* Part of the transaction that has something to tell.
LEMMA RequestedTold ==
    ASSUME NoticesInv, NEW n \in Notice, notice[n].status = "none", Requested(n),
           UNCHANGED submitted
    PROVE  Contract!Request(n)
<1>1. notice \in [Notice -> NoticeRow] /\ notice[n] \in NoticeRow
  BY DEF NoticesInv, NoticesTypeOK
<1>2. /\ notice'[n].status = "requested"
      /\ \A k \in Notice \ {n} : notice'[k].status = notice[k].status
  BY <1>1, StatusWritten DEF Requested, NoticeStatus
<1>3. Outcomes[n] = "none"
  BY OutcomeTable DEF Outcomes, OutcomeFor
<1>4. Outcomes' = [Outcomes EXCEPT ![n] = "open"]
  BY <1>2, OneOutcome DEF OutcomeFor
<1> QED
  BY <1>3, <1>4, NothingSent DEF Contract!Request, Outcomes, Messages, Retries

\* A recipient without a verified address, or the last attempt is over.
LEMMA DeadTold ==
    ASSUME NEW n \in Notice, notice[n].status \in {"requested"} \cup Open,
           \A k \in Notice \ {n} : notice'[k].status = notice[k].status,
           notice'[n].status = "dead_lettered", UNCHANGED submitted
    PROVE  Contract!Dead(n)
<1>1. Outcomes[n] = "open"
  BY OutcomeTable DEF Outcomes, OutcomeFor, Open
<1>2. Outcomes' = [Outcomes EXCEPT ![n] = "dead_lettered"]
  BY OneOutcome DEF OutcomeFor, Open
<1> QED
  BY <1>1, <1>2, NothingSent DEF Contract!Dead, Outcomes, Messages, Retries

\* The row stays open.
LEMMA OpenTold ==
    ASSUME NEW n \in Notice, notice[n].status \in {"requested"} \cup Open,
           \A k \in Notice \ {n} : notice'[k].status = notice[k].status,
           notice'[n].status \in Open, UNCHANGED submitted
    PROVE  UNCHANGED Told
<1>1. Outcomes' = Outcomes
  BY SameOutcomes DEF OutcomeFor, Open
<1> QED
  BY <1>1, NothingSent DEF Told

LEMMA PublishTold ==
    ASSUME NoticesInv, NEW n \in Notice, Publish(n)
    PROVE  Contract!Dead(n) \/ UNCHANGED Told
<1>1. PICK status \in {"pending", "dead_lettered"} : notice' = [notice EXCEPT ![n].status = status]
  BY DEF Publish
<1>2. /\ notice'[n].status = status
      /\ \A k \in Notice \ {n} : notice'[k].status = notice[k].status
  BY <1>1, StatusWritten DEF NoticesInv, NoticesTypeOK, NoticeStatus, Open
<1> QED
  BY <1>2, DeadTold, OpenTold DEF Publish, Open

\* A row that is released has the outcome that was written.
LEMMA ReleasedStatus ==
    ASSUME NoticesInv, NEW n \in Notice, NEW status \in NoticeStatus,
           notice' = [notice EXCEPT ![n] = Released(@, status)]
    PROVE  /\ notice'[n].status = status
           /\ \A k \in Notice \ {n} : notice'[k].status = notice[k].status
<1>1. notice \in [Notice -> NoticeRow] /\ notice[n] \in NoticeRow
  BY DEF NoticesInv, NoticesTypeOK
<1>2. Released(notice[n], status).status = status
  BY <1>1, RowReleased
<1> QED
  BY <1>1, <1>2

LEMMA DeadLetterTold ==
    ASSUME NoticesInv, NEW n \in Notice, DeadLetter(n)
    PROVE  Contract!Dead(n)
<1>1. /\ notice'[n].status = "dead_lettered"
      /\ \A k \in Notice \ {n} : notice'[k].status = notice[k].status
  BY ReleasedStatus DEF DeadLetter, NoticeStatus
<1> QED
  BY <1>1, DeadTold DEF DeadLetter

LEMMA ClaimTold ==
    ASSUME NoticesInv, NEW w \in Sender, NEW n \in Notice, Claim(w, n)
    PROVE  UNCHANGED Told
<1>1. notice[n] \in NoticeRow /\ notice \in [Notice -> NoticeRow]
  BY DEF NoticesInv, NoticesTypeOK
<1> DEFINE new == [notice[n] EXCEPT !.lease = w, !.held = TRUE, !.attempts = @ + 1]
<1>2. new.status = notice[n].status
  BY <1>1, RowClaimed DEF Claim
<1>3. notice' = [notice EXCEPT ![n] = new]
  BY <1>1 DEF Claim
<1> HIDE DEF new
<1>4. \A k \in Notice : notice'[k].status = notice[k].status
  BY <1>1, <1>2, <1>3
<1>5. notice[n].status \in Open /\ UNCHANGED submitted
  BY DEF Claim
<1> QED
  BY <1>4, <1>5, OpenTold

LEMMA LeaseLapsesTold ==
    ASSUME NoticesInv, NEW n \in Notice, LeaseLapses(n)
    PROVE  UNCHANGED Told
<1>1. notice[n] \in NoticeRow /\ notice \in [Notice -> NoticeRow]
  BY DEF NoticesInv, NoticesTypeOK
<1> DEFINE new == [notice[n] EXCEPT !.held = FALSE]
<1>2. new.status = notice[n].status
  BY <1>1 DEF NoticeRow
<1>3. notice' = [notice EXCEPT ![n] = new] /\ UNCHANGED submitted
  BY <1>1 DEF LeaseLapses
<1> HIDE DEF new
<1>4. \A k \in Notice : notice'[k].status = notice[k].status
  BY <1>1, <1>2, <1>3
<1> QED
  BY <1>3, <1>4, SameOutcomes, NothingSent DEF Told

\* Whoever may submit has counted an attempt that no message has used.
LEMMA SendTold ==
    ASSUME NoticesInv, NEW w \in Sender, SendNotice(w)
    PROVE  \E n \in Notice : Contract!Message(n) \/ UNCHANGED Told
<1> PICK n \in Notice : n = sender[w].for
  BY SendFacts
<1>1. n \in Notice /\ sender[w].at = "submit" /\ notice' = notice
  BY SendFacts
<1>2. \/ submitted' = submitted
      \/ /\ submitted'[n].messages = submitted[n].messages + 1
         /\ submitted'[n].retries = submitted[n].retries
         /\ \A k \in Notice \ {n} : submitted'[k] = submitted[k]
  BY SendFacts
<1>3. Outcomes' = Outcomes
  BY <1>1, SameOutcomes
<1>4. CASE submitted' = submitted
  BY <1>3, <1>4, NothingSent DEF Told
<1>5. CASE /\ submitted'[n].messages = submitted[n].messages + 1
           /\ submitted'[n].retries = submitted[n].retries
           /\ \A k \in Notice \ {n} : submitted'[k] = submitted[k]
  <2>1. Outcomes[n] # "none"
    <3>1. notice[n].status # "none"
      BY <1>1 DEF NoticesInv, HandsMatchRows
    <3>2. notice[n].status \in NoticeStatus
      BY <1>1 DEF NoticesInv, NoticesTypeOK, NoticeRow
    <3> QED
      BY <1>1, <3>1, <3>2, OutcomeTable DEF Outcomes, OutcomeFor
  <2>2. submitted[n].messages < MaxAttempts * (1 + submitted[n].retries)
    <3>1. /\ submitted[n].messages \in Nat /\ submitted[n].retries \in Nat
          /\ notice[n].attempts \in Nat /\ notice[n].attempts <= MaxAttempts
          /\ MaxAttempts \in Nat
      BY <1>1, NoticeRowsTyped DEF NoticesInv
    <3>2. w \in Submitting(n)
      BY <1>1 DEF Submitting
    <3>3. Cardinality(Submitting(n)) \in Nat /\ Cardinality(Submitting(n)) # 0
      BY <3>2, SubmittingFinite, FS_EmptySet
    <3>4. submitted[n].messages + Cardinality(Submitting(n)) <= Allowed(n)
      BY <1>1 DEF NoticesInv, AttemptsCover
    <3> DEFINE product == MaxAttempts * submitted[n].retries
           bound == MaxAttempts * (1 + submitted[n].retries)
    <3>5. product \in Nat /\ bound = product + MaxAttempts
      BY <3>1, ProductStep
    <3>6. Allowed(n) = product + notice[n].attempts
      BY DEF Allowed
    <3> HIDE DEF product, bound
    <3>7. submitted[n].messages < bound
      BY <3>1, <3>3, <3>4, <3>5, <3>6
    <3> QED
      BY <3>7 DEF bound
  <2>3. Messages' = [Messages EXCEPT ![n] = @ + 1] /\ Retries' = Retries
    BY <1>1, <1>5 DEF Messages, Retries
  <2>4. Messages[n] = submitted[n].messages /\ Retries[n] = submitted[n].retries
    BY <1>1 DEF Messages, Retries
  <2>5. Messages[n] < MaxAttempts * (1 + Retries[n])
    BY <2>2, <2>4, Zenon
  <2> QED
    BY <1>3, <2>1, <2>3, <2>5 DEF Contract!Message, Outcomes, Messages, Retries
<1> QED
  BY <1>2, <1>4, <1>5

\* The lease is on an open row, and "sent" is reported of a message.
LEMMA SettleTold ==
    ASSUME NoticesInv, NEW w \in Sender, Settle(w)
    PROVE  \E n \in Notice : Contract!Sent(n) \/ Contract!Dead(n) \/ UNCHANGED Told
<1> DEFINE n == sender[w].for
           status == sender[w].outcome
<1>1. /\ n \in Notice /\ status \in {"sent", "failed", "dead_lettered"} /\ UNCHANGED submitted
      /\ submitted[n].messages \in Nat
  BY NoticeRowsTyped DEF NoticesInv, SenderState, Settle
<1>2. CASE notice' = notice
  BY <1>1, <1>2, SameOutcomes, NothingSent DEF Told
<1>3. CASE notice[n].lease = w
  <2>1. notice' = [notice EXCEPT ![n] = Released(@, status)]
    BY <1>3 DEF Settle
  <2>2. notice[n].status \in Open
    BY <1>1, <1>3, SenderAssumption DEF NoticesInv, HandsMatchRows
  <2>3. status = "sent" => submitted[n].messages > 0
    BY DEF NoticesInv, HandsMatchRows, Settle
  <2> HIDE DEF n, status
  <2>4. /\ notice'[n].status = status
        /\ \A k \in Notice \ {n} : notice'[k].status = notice[k].status
    BY <1>1, <2>1, ReleasedStatus DEF NoticeStatus, Open
  <2>5. CASE status = "failed"
    BY <1>1, <2>2, <2>4, <2>5, OpenTold DEF Open
  <2>6. CASE status = "dead_lettered"
    BY <1>1, <2>2, <2>4, <2>6, DeadTold
  <2>7. CASE status = "sent"
    <3>1. Outcomes[n] = "open"
      BY <1>1, <2>2, OutcomeTable DEF Outcomes, OutcomeFor, Open
    <3>2. Outcomes' = [Outcomes EXCEPT ![n] = "sent"]
      BY <1>1, <2>4, <2>7, OneOutcome DEF OutcomeFor, Open
    <3>3. Messages[n] > 0
      BY <1>1, <2>3, <2>7 DEF Messages
    <3>4. Contract!Sent(n)
      BY <1>1, <3>1, <3>2, <3>3, NothingSent DEF Contract!Sent, Outcomes, Messages, Retries
    <3> QED
      BY <1>1, <3>4
  <2> QED
    BY <1>1, <2>5, <2>6, <2>7
<1> QED
  BY <1>2, <1>3 DEF Settle

LEMMA RetryTold ==
    ASSUME NoticesInv, NEW n \in Notice, RetryNotice(n)
    PROVE  Contract!Reopened(n)
<1> DEFINE new == [notice[n] EXCEPT !.status = "pending", !.attempts = 0]
           row == [submitted[n] EXCEPT !.retries = @ + 1]
<1>1. /\ notice \in [Notice -> NoticeRow] /\ notice[n] \in NoticeRow
      /\ submitted \in [Notice -> [messages : Nat, retries : 0..MaxRetries]]
  BY DEF NoticesInv, NoticesTypeOK
<1>2. new.status = "pending"
  BY <1>1, RowReopened
<1>3. row.messages = submitted[n].messages /\ row.retries = submitted[n].retries + 1
  BY <1>1
<1>4. /\ notice' = [notice EXCEPT ![n] = new] /\ submitted' = [submitted EXCEPT ![n] = row]
      /\ notice[n].status = "dead_lettered"
  BY <1>1 DEF RetryNotice
<1> HIDE DEF new, row
<1>5. /\ notice'[n] = new /\ submitted'[n] = row
      /\ \A k \in Notice \ {n} : notice'[k] = notice[k] /\ submitted'[k] = submitted[k]
  BY <1>1, <1>4
<1>6. Outcomes[n] = "dead_lettered"
  BY <1>4, OutcomeTable DEF Outcomes, OutcomeFor, Open
<1>7. Outcomes' = [Outcomes EXCEPT ![n] = "open"]
  BY <1>2, <1>5, OneOutcome DEF OutcomeFor, Open
<1>8. Messages' = Messages /\ Retries' = [Retries EXCEPT ![n] = @ + 1]
  BY <1>3, <1>5 DEF Messages, Retries
<1> QED
  BY <1>6, <1>7, <1>8 DEF Contract!Reopened, Outcomes, Messages, Retries

LEMMA CrashTold == ASSUME NEW w, Crash(w) PROVE UNCHANGED Told
  BY SameOutcomes, NothingSent DEF Crash, Told

\* Whatever order claims, answers, lapses, crashes and retries come in.
LEMMA NoticesStepTold == NoticesInv /\ NoticesNext => [Contract!Next]_Told
<1> SUFFICES ASSUME NoticesInv, NoticesNext PROVE Contract!Next \/ UNCHANGED Told
  OBVIOUS
<1>1. ASSUME NEW n \in Notice, Publish(n) \/ DeadLetter(n) \/ LeaseLapses(n) \/ RetryNotice(n)
      PROVE  Contract!Next \/ UNCHANGED Told
  BY <1>1, PublishTold, DeadLetterTold, LeaseLapsesTold, RetryTold DEF Contract!Next
<1>2. ASSUME NEW w \in Sender, NEW n \in Notice, Claim(w, n) PROVE UNCHANGED Told
  BY <1>2, ClaimTold
<1>3. ASSUME NEW w \in Sender, SendNotice(w) PROVE Contract!Next \/ UNCHANGED Told
  BY <1>3, SendTold DEF Contract!Next
<1>4. ASSUME NEW w \in Sender, Settle(w) PROVE Contract!Next \/ UNCHANGED Told
  BY <1>4, SettleTold DEF Contract!Next
<1>5. ASSUME NEW w \in Sender, Crash(w) PROVE UNCHANGED Told
  BY <1>5, CrashTold
<1> QED
  BY <1>1, <1>2, <1>3, <1>4, <1>5 DEF NoticesNext

\* Delivery never begins with a notice that nobody requested.
LEMMA NoneStaysNone ==
    ASSUME NoticesInv, NoticesNext
    PROVE  \A n \in Notice : notice'[n].status # "none" => notice[n].status # "none"
<1> SUFFICES ASSUME NEW n \in Notice, notice'[n].status # "none", notice[n].status = "none"
             PROVE  FALSE
  OBVIOUS
<1>1. Outcomes[n] = "none" /\ Outcomes'[n] # "none"
  BY OutcomeTable DEF Outcomes, OutcomeFor, Open
<1>2. notice \in [Notice -> NoticeRow]
  BY DEF NoticesInv, NoticesTypeOK
<1>3. notice'[n] # notice[n]
  OBVIOUS
<1>4. ASSUME NEW k \in Notice, Publish(k) \/ DeadLetter(k) \/ RetryNotice(k) PROVE FALSE
  BY <1>2, <1>3, <1>4 DEF Publish, DeadLetter, RetryNotice, Open
<1>5. ASSUME NEW k \in Notice, LeaseLapses(k) PROVE FALSE
  BY <1>1, <1>5, LeaseLapsesTold DEF Told
<1>6. ASSUME NEW w \in Sender, NEW k \in Notice, Claim(w, k) PROVE FALSE
  BY <1>1, <1>6, ClaimTold DEF Told
<1>7. ASSUME NEW w \in Sender, Settle(w) PROVE FALSE
  <2>1. notice[sender[w].for].lease = w /\ sender[w].for \in Notice
    BY <1>3, <1>7, NoticeRowsTyped DEF Settle, NoticesInv
  <2>2. notice[sender[w].for].status \in Open
    BY <2>1, SenderAssumption DEF NoticesInv, HandsMatchRows
  <2>3. notice'[n] = notice[n]
    BY <1>2, <1>7, <2>2 DEF Settle, Open
  <2> QED
    BY <1>3, <2>3
<1> QED
  BY <1>3, <1>4, <1>5, <1>6, <1>7 DEF NoticesNext, SendNotice, Crash

LEMMA NoticesInitiallyTold == NoticesInit => Contract!Init
<1> SUFFICES ASSUME NoticesInit PROVE Contract!Init
  OBVIOUS
<1>1. \A n \in Notice : OutcomeOf(n) = "none"
  BY OutcomeTable DEF NoticesInit, OutcomeFor
<1>2. \A n \in Notice : submitted[n].messages = 0 /\ submitted[n].retries = 0
  BY DEF NoticesInit
<1> QED
  BY <1>1, <1>2 DEF Contract!Init
=============================================================================
