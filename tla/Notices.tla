------------------------------- MODULE Notices -------------------------------
(***************************************************************************)
(* Workflow notices from the outbox row a transaction leaves to the mail   *)
(* server.  A sender claims a row for two minutes under a lease of its     *)
(* own, submits the message outside every transaction and settles the row  *)
(* if the lease is still its own.  A sender may be slow, may crash, and    *)
(* may be told of a failure although the mail server took the message.     *)
(***************************************************************************)
EXTENDS Integers, FiniteSets

CONSTANTS
    Notice,       \* the notices followed
    Sender,       \* worker processes
    NoSender,     \* the NULL of lease_token
    MaxAttempts,  \* notification_max_attempts
    MaxRetries    \* bound: retries of the owner per notice

ASSUME NoticeAssumption == Notice # {}

ASSUME SenderAssumption == IsFiniteSet(Sender) /\ NoSender \notin Sender

ASSUME AttemptsAssumption == MaxAttempts \in Nat \ {0} /\ MaxRetries \in Nat

VARIABLES
    notice,     \* OutboxEvent and Notification rows
    sender,     \* what each worker has in hand
    submitted   \* messages the mail server took, and retries, per notice

notices == <<notice, sender, submitted>>

-----------------------------------------------------------------------------

Open == {"pending", "failed"}

\* "none" and "requested" are before the Notification row exists.
NoticeStatus == {"none", "requested", "sent", "dead_lettered"} \cup Open

\* held says that the lease has not expired.
NoticeRow == [status : NoticeStatus, attempts : 0..MaxAttempts,
              lease : Sender \cup {NoSender}, held : BOOLEAN]

SenderState == [at : {"idle", "submit", "settle"}, for : Notice, attempt : 0..MaxAttempts,
                outcome : {"sent", "failed", "dead_lettered"}]

IdleSender == [at |-> "idle", for |-> CHOOSE n \in Notice : TRUE, attempt |-> 0,
               outcome |-> "failed"]

NoticesTypeOK ==
    /\ notice \in [Notice -> NoticeRow]
    /\ sender \in [Sender -> SenderState]
    /\ submitted \in [Notice -> [messages : Nat, retries : 0..MaxRetries]]

NoticesInit ==
    /\ notice = [n \in Notice |-> [status |-> "none", attempts |-> 0, lease |-> NoSender,
                                   held |-> FALSE]]
    /\ sender = [w \in Sender |-> IdleSender]
    /\ submitted = [n \in Notice |-> [messages |-> 0, retries |-> 0]]

\* request_notice: part of the transaction that has something to tell.
Requested(n) == notice' = [notice EXCEPT ![n].status = "requested"]

Released(row, status) == [row EXCEPT !.status = status, !.lease = NoSender, !.held = FALSE]

-----------------------------------------------------------------------------

\* One worker wins the outbox row; a recipient without a verified address
\* leaves a dead letter.
Publish(n) ==
    /\ notice[n].status = "requested"
    /\ \E status \in {"pending", "dead_lettered"} : notice' = [notice EXCEPT ![n].status = status]
    /\ UNCHANGED <<sender, submitted>>

\* The last allowed submission has an unknown outcome and nobody holds it.
DeadLetter(n) ==
    /\ notice[n].status \in Open
    /\ notice[n].attempts >= MaxAttempts
    /\ ~notice[n].held
    /\ notice' = [notice EXCEPT ![n] = Released(@, "dead_lettered")]
    /\ UNCHANGED <<sender, submitted>>

\* Faulty: the bound is left to the next dead-letter pass.
ClaimBeyond(w, n) ==
    /\ sender[w].at = "idle"
    /\ notice[n].status \in Open
    /\ ~notice[n].held
    /\ notice' = [notice EXCEPT ![n].lease = w, ![n].held = TRUE, ![n].attempts = @ + 1]
    /\ sender' = [sender EXCEPT ![w] = [at |-> "submit", for |-> n,
                                        attempt |-> notice[n].attempts + 1,
                                        outcome |-> "dead_lettered"]]
    /\ UNCHANGED submitted

\* The row is claimed and counted before anything is sent.  A recipient that
\* is gone or has another address is not written to.
Claim(w, n) ==
    /\ sender[w].at = "idle"
    /\ notice[n].status \in Open
    /\ notice[n].attempts < MaxAttempts
    /\ ~notice[n].held
    /\ notice' = [notice EXCEPT ![n].lease = w, ![n].held = TRUE, ![n].attempts = @ + 1]
    /\ \E at \in {"submit", "settle"} :
         sender' = [sender EXCEPT ![w] = [at |-> at, for |-> n, attempt |-> notice[n].attempts + 1,
                                          outcome |-> "dead_lettered"]]
    /\ UNCHANGED submitted

Answer(w, outcome) == sender' = [sender EXCEPT ![w].at = "settle", ![w].outcome = outcome]

Counted(n) == submitted' = [submitted EXCEPT ![n].messages = @ + 1]

\* The mail server takes the message, or the sender hears an error.
SendNotice(w) ==
    /\ sender[w].at = "submit"
    /\ \/ Answer(w, "sent") /\ Counted(sender[w].for)
       \/ /\ Answer(w, IF sender[w].attempt >= MaxAttempts THEN "dead_lettered" ELSE "failed")
          /\ Counted(sender[w].for) \/ UNCHANGED submitted
    /\ UNCHANGED notice

\* Faulty: whoever comes back writes the outcome.
SettleUnfenced(w) ==
    /\ sender[w].at = "settle"
    /\ notice' = [notice EXCEPT ![sender[w].for] = Released(@, sender[w].outcome)]
    /\ sender' = [sender EXCEPT ![w] = IdleSender]
    /\ UNCHANGED submitted

Settle(w) ==
    LET n == sender[w].for
    IN  /\ sender[w].at = "settle"
        /\ IF notice[n].lease = w
           THEN notice' = [notice EXCEPT ![n] = Released(@, sender[w].outcome)]
           ELSE UNCHANGED notice
        /\ sender' = [sender EXCEPT ![w] = IdleSender]
        /\ UNCHANGED submitted

\* Two minutes pass; the sender may still be at work.
LeaseLapses(n) ==
    /\ notice[n].held
    /\ notice' = [notice EXCEPT ![n].held = FALSE]
    /\ UNCHANGED <<sender, submitted>>

Crash(w) ==
    /\ sender[w].at # "idle"
    /\ sender' = [sender EXCEPT ![w] = IdleSender]
    /\ UNCHANGED <<notice, submitted>>

\* retry_notification, for the owner.
RetryNotice(n) ==
    /\ notice[n].status = "dead_lettered"
    /\ notice[n].lease = NoSender
    /\ submitted[n].retries < MaxRetries
    /\ notice' = [notice EXCEPT ![n].status = "pending", ![n].attempts = 0]
    /\ submitted' = [submitted EXCEPT ![n].retries = @ + 1]
    /\ UNCHANGED sender

NoticesNext ==
    \/ \E n \in Notice : Publish(n) \/ DeadLetter(n) \/ LeaseLapses(n) \/ RetryNotice(n)
    \/ \E w \in Sender, n \in Notice : Claim(w, n)
    \/ \E w \in Sender : SendNotice(w) \/ Settle(w) \/ Crash(w)

-----------------------------------------------------------------------------

\* What the recipient and the owner can tell of a notice.
OutcomeOf(n) ==
    CASE notice[n].status = "none" -> "none"
      [] notice[n].status \in {"requested"} \cup Open -> "open"
      [] OTHER -> notice[n].status

Contract == INSTANCE NoticeContract
    WITH outcome  <- [n \in Notice |-> OutcomeOf(n)],
         messages <- [n \in Notice |-> submitted[n].messages],
         retries  <- [n \in Notice |-> submitted[n].retries]

\* A notice keeps its contract whatever order claims, answers, lapses and
\* crashes come in: a late sender does not overturn an outcome, and the mail
\* server takes at most MaxAttempts messages per request of the owner.
ImplementsNoticeContract == Contract!Spec
=============================================================================
