------------------------- MODULE ProductionDispatch -------------------------
(***************************************************************************)
(* The production half of the API: the print queue, the printer            *)
(* reservation, readiness checks, print authorizations (manual handoff and *)
(* station dispatch), the station's dispatch events, and fulfilment.       *)
(*                                                                         *)
(* A request is a database session: it READS rows and decides (a Begin     *)
(* action, which stores the decision in tx), then WRITES under             *)
(* compare-and-swap on the version of the job and its order (a Commit      *)
(* action).  A commit that bumps a job's version dooms every other session *)
(* that read that job: its comparison will fail, so it is rolled back.  A  *)
(* session may also die at any moment (Abort): it then writes nothing.     *)
(*                                                                         *)
(* Job j stands for an order and its only print job (sequence 1); job ids  *)
(* are in queue_rank order.  Clocks are abstracted to the facts the code   *)
(* reads off them: a readiness check is fresh or stale (10 minutes), an    *)
(* authorization is expired or not (2 minutes), a claim is aged or not     *)
(* (10 minutes), a bridge is online or not (60 seconds).                   *)
(***************************************************************************)
EXTENDS Integers, FiniteSets

CONSTANTS
    NJobs,      \* number of paid orders (bound)
    NAuths,     \* number of print authorizations ever issued (bound)
    MaxBucket,  \* highest progress bucket reported while printing (bound)
    OwnerSession,   \* concurrent requests of the owner (browser tabs)
    StationSession  \* concurrent requests of the bridge

ASSUME ProductionAssumption ==
    /\ NJobs \in Nat \ {0}
    /\ NAuths \in Nat \ {0}
    /\ MaxBucket \in Nat

Job == 1..NJobs
Auth == 1..NAuths
Session == OwnerSession \cup StationSession
NoJob == 0
NoAuth == 0

VARIABLES
    job,         \* PrintJob.status, "absent" before the queue row exists
    order,       \* Order.status
    fulfilment,  \* Fulfillment.status
    readiness,   \* age of the newest PrintReadinessCheck of the job
    recheck,     \* a plate_refused event is newer than every readiness check
    printer,     \* Printer.active_job_id
    bridge,      \* the single BridgeInstallation row
    auth,        \* PrintAuthorization rows with the plate_* events of each
    tx           \* what each open database session has read and decided

vars == <<job, order, fulfilment, readiness, recheck, printer, bridge, auth, tx>>

-----------------------------------------------------------------------------
(* Vocabulary                                                              *)

JobStatus == {"absent", "queued", "on_hold", "preparing", "ready_to_print",
              "authorized", "claimed", "printing", "qa", "completed", "failed"}

OrderStatus == {"paid_confirmed", "queued", "on_hold", "preparing",
                "ready_to_print", "printing", "qa", "print_failed",
                "ready", "completed"}

OwnerAction == {"prepare", "hold", "release", "manual_started",
                "print_completed", "print_failed", "qa_pass", "qa_fail"}

Op == OwnerAction \cup {"idle", "readiness", "handoff", "authorize", "reset",
                        "claim", "event", "pair", "prepared_for", "delivered"}

\* Statuses considered when the first available job is looked for.
InLine == {"queued", "preparing", "ready_to_print", "authorized", "claimed",
           "printing"}

\* Statuses in which a job owns the printer.
Holding == InLine \ {"queued"}

\* The rows of JOB_ACTIONS: statuses an action starts from, the job status and
\* the order status it leads to.
From(act) ==
    CASE act = "prepare" -> {"queued"}
      [] act = "hold" -> {"queued", "preparing", "ready_to_print"}
      [] act = "release" -> {"on_hold"}
      [] act = "manual_started" -> {"ready_to_print"}
      [] act = "print_completed" -> {"printing"}
      [] act = "print_failed" -> {"printing", "claimed"}
      [] act \in {"qa_pass", "qa_fail"} -> {"qa"}

ToJob(act) ==
    CASE act = "prepare" -> "preparing"
      [] act = "hold" -> "on_hold"
      [] act = "release" -> "queued"
      [] act = "manual_started" -> "printing"
      [] act = "print_completed" -> "qa"
      [] act = "qa_pass" -> "completed"
      [] act \in {"print_failed", "qa_fail"} -> "failed"

ToOrder(act) ==
    CASE act = "prepare" -> "preparing"
      [] act = "hold" -> "on_hold"
      [] act = "release" -> "queued"
      [] act = "manual_started" -> "printing"
      [] act \in {"print_completed", "qa_pass"} -> "qa"
      [] act \in {"print_failed", "qa_fail"} -> "print_failed"

Releases == {"hold", "print_completed", "print_failed", "qa_fail", "qa_pass"}

PlateEvent == {"refused", "sent", "awaiting_start", "printing",
               "needs_attention", "cancelled", "stopped", "completed",
               "resolved"}

\* Faulty: the station may report anything in any order.
FollowsUnordered(state) == PlateEvent

\* DISPATCH_TRANSITIONS; the states it does not list have no successor.
Follows(state) ==
    CASE state = "claimed" -> {"refused", "sent"}
      [] state = "sent" ->
            PlateEvent \ {"refused", "sent", "resolved"}
      [] state = "awaiting_start" ->
            PlateEvent \ {"refused", "sent", "resolved"}
      [] state = "printing" ->
            {"printing", "completed", "needs_attention", "cancelled", "stopped"}
      [] state = "needs_attention" ->
            {"printing", "completed", "cancelled", "stopped", "resolved"}
      [] OTHER -> {}

\* "unissued": the row does not exist yet.
AuthCode == {"unissued", "handoff", "downloaded", "station_authorized",
             "station_claimed", "station_refused", "station_completed",
             "station_reset"}

AuthRow == [job : Job \cup {NoJob}, code : AuthCode, revoked : BOOLEAN,
            expired : BOOLEAN, claimed : BOOLEAN, consumed : BOOLEAN,
            aged : BOOLEAN, trail : PlateEvent \cup {"claimed"},
            sent : BOOLEAN, bucket : -1..MaxBucket]

NewAuth(j, code) ==
    [job |-> j, code |-> code, revoked |-> FALSE, expired |-> FALSE,
     claimed |-> FALSE, consumed |-> FALSE, aged |-> FALSE,
     trail |-> "claimed", sent |-> FALSE, bucket |-> -1]

\* What a session has decided; only an event decision carries a state.
Tx == {t \in [op : Op, job : Job \cup {NoJob}, auth : Auth \cup {NoAuth},
              state : PlateEvent \cup {"none"}, bucket : -1..MaxBucket] :
          t.op = "event" <=> t.state \in PlateEvent}

Idle == [op |-> "idle", job |-> NoJob, auth |-> NoAuth, state |-> "none",
         bucket |-> -1]

Request(op, j, a) == [op |-> op, job |-> j, auth |-> a, state |-> "none",
                      bucket |-> -1]

\* A paired bridge is named by its adapter; "revoked" also stands for a bridge
\* that was never paired.
Adapter == {"manual-orca", "station"}
BridgeStatus == Adapter \cup {"revoked", "pending_pairing"}

TypeOK ==
    /\ job \in [Job -> JobStatus]
    /\ order \in [Job -> OrderStatus]
    /\ fulfilment \in [Job -> {"pending", "ready", "completed"}]
    /\ readiness \in [Job -> {"none", "fresh", "stale"}]
    /\ recheck \in [Job -> BOOLEAN]
    /\ printer \in Job \cup {NoJob}
    /\ bridge \in [status : BridgeStatus, online : BOOLEAN]
    /\ auth \in [Auth -> AuthRow]
    /\ tx \in [Session -> Tx]

Init ==
    /\ job = [j \in Job |-> "absent"]
    /\ order = [j \in Job |-> "paid_confirmed"]
    /\ fulfilment = [j \in Job |-> "pending"]
    /\ readiness = [j \in Job |-> "none"]
    /\ recheck = [j \in Job |-> FALSE]
    /\ printer = NoJob
    /\ bridge = [status |-> "revoked", online |-> FALSE]
    /\ auth = [a \in Auth |-> NewAuth(NoJob, "unissued")]
    /\ tx = [s \in Session |-> Idle]

-----------------------------------------------------------------------------
(* Sessions                                                                *)

Begin(s, request) ==
    /\ tx[s] = Idle
    /\ tx' = [tx EXCEPT ![s] = request]
    /\ UNCHANGED <<job, order, fulfilment, readiness, recheck, printer, bridge,
                   auth>>

\* Faulty: versions are not compared.
NoCompareVersion(s) == tx' = [tx EXCEPT ![s] = Idle]

\* compare_version on the job and on its order.  Only the first session to
\* bump the version it read succeeds; the others that read it can only fail.
CompareVersion(s) ==
    tx' = [t \in Session |->
              IF t = s \/ tx[t].job = tx[s].job THEN Idle ELSE tx[t]]

\* The request fails: a lost comparison, a refused update, a dropped
\* connection or a dying process.  The database transaction rolls back.
Abort(s) ==
    /\ tx[s] # Idle
    /\ tx' = [tx EXCEPT ![s] = Idle]
    /\ UNCHANGED <<job, order, fulfilment, readiness, recheck, printer, bridge,
                   auth>>

-----------------------------------------------------------------------------
(* The worker moves a paid order into the queue                            *)

EnqueuePaidOrder(j) ==
    /\ job[j] = "absent"
    /\ order[j] = "paid_confirmed"
    /\ \A k \in Job : k < j => job[k] # "absent"
    /\ job' = [job EXCEPT ![j] = "queued"]
    /\ order' = [order EXCEPT ![j] = "queued"]
    /\ UNCHANGED <<fulfilment, readiness, recheck, printer, bridge, auth, tx>>

-----------------------------------------------------------------------------
(* Owner actions on the queue                                              *)

FirstAvailable(j) ==
    /\ job[j] \in InLine
    /\ \A k \in Job : k < j => job[k] \notin InLine

NoOtherActive(j) ==
    \A k \in Job \ {j} : job[k] \notin {"printing", "claimed", "authorized"}

BeginTransition(s, act, j) ==
    /\ job[j] \in From(act)
    /\ act \in {"prepare", "manual_started"} =>
            /\ FirstAvailable(j)
            /\ NoOtherActive(j)
    /\ act = "manual_started" => readiness[j] = "fresh"
    /\ Begin(s, Request(act, j, NoAuth))

\* Faulty: the printer row is overwritten.
ReserveUnguarded(j) == printer' = j

\* The guarded UPDATE of the printer row: free, or already this job's.
Reserve(j) ==
    /\ printer \in {NoJob, j}
    /\ printer' = j

CommitTransition(s) ==
    LET act == tx[s].op
        j == tx[s].job
    IN  /\ act \in OwnerAction
        /\ CompareVersion(s)
        /\ \/ act \in {"prepare", "manual_started"} /\ Reserve(j)
           \/ /\ act \in Releases
              /\ printer' = IF printer = j THEN NoJob ELSE printer
           \/ act = "release" /\ UNCHANGED printer
        /\ job' = [job EXCEPT ![j] = ToJob(act)]
        /\ order' = [order EXCEPT ![j] = ToOrder(act)]
        /\ UNCHANGED <<fulfilment, readiness, recheck, bridge, auth>>

BeginReadiness(s, j) ==
    /\ job[j] \in {"preparing", "ready_to_print"}
    /\ Begin(s, Request("readiness", j, NoAuth))

CommitReadiness(s) ==
    LET j == tx[s].job
    IN  /\ tx[s].op = "readiness"
        /\ CompareVersion(s)
        /\ job' = [job EXCEPT ![j] = "ready_to_print"]
        /\ order' = [order EXCEPT ![j] = "ready_to_print"]
        /\ readiness' = [readiness EXCEPT ![j] = "fresh"]
        /\ recheck' = [recheck EXCEPT ![j] = FALSE]
        /\ UNCHANGED <<fulfilment, printer, bridge, auth>>

\* "prepared_for" is the mode's first status (pickup, delivery or shipping).
BeginFulfilment(s, j) ==
    /\ job[j] = "completed"
    /\ order[j] \in {"qa", "ready"}
    /\ \/ fulfilment[j] = "pending" /\ Begin(s, Request("prepared_for", j, NoAuth))
       \/ fulfilment[j] = "ready" /\ Begin(s, Request("delivered", j, NoAuth))

CommitFulfilment(s) ==
    LET j == tx[s].job
        to == IF tx[s].op = "prepared_for" THEN "ready" ELSE "completed"
    IN  /\ tx[s].op \in {"prepared_for", "delivered"}
        /\ CompareVersion(s)
        /\ fulfilment' = [fulfilment EXCEPT ![j] = to]
        /\ order' = [order EXCEPT ![j] = to]
        /\ UNCHANGED <<job, readiness, recheck, printer, bridge, auth>>

-----------------------------------------------------------------------------
(* Bridge pairing                                                          *)

\* Faulty: revoking also closes the grant's result code.
RevokeAllAndClose ==
    [a \in Auth |-> IF auth[a].code = "unissued" THEN auth[a]
                    ELSE [auth[a] EXCEPT !.revoked = TRUE,
                                         !.code = "station_reset"]]

RevokeAll ==
    [a \in Auth |-> IF auth[a].code = "unissued" THEN auth[a]
                    ELSE [auth[a] EXCEPT !.revoked = TRUE]]

BeginPairing(s) ==
    /\ printer = NoJob
    /\ Begin(s, Request("pair", NoJob, NoAuth))

CommitPairing(s) ==
    /\ tx[s].op = "pair"
    /\ auth' = RevokeAll
    /\ bridge' = [status |-> "pending_pairing", online |-> FALSE]
    /\ tx' = [tx EXCEPT ![s] = Idle]
    /\ UNCHANGED <<job, order, fulfilment, readiness, recheck, printer>>

FinishPairing(adapter) ==
    /\ bridge.status = "pending_pairing"
    /\ bridge' = [bridge EXCEPT !.status = adapter]
    /\ UNCHANGED <<job, order, fulfilment, readiness, recheck, printer, auth, tx>>

\* The heartbeat time of a revoked bridge is never read.
RevokeBridge ==
    /\ bridge' = [status |-> "revoked", online |-> FALSE]
    /\ auth' = RevokeAll
    /\ UNCHANGED <<job, order, fulfilment, readiness, recheck, printer, tx>>

Heartbeat ==
    /\ bridge.status \in Adapter
    /\ bridge' = [bridge EXCEPT !.online = TRUE]
    /\ UNCHANGED <<job, order, fulfilment, readiness, recheck, printer, auth, tx>>

-----------------------------------------------------------------------------
(* Print authorizations                                                    *)

Live(a) == auth[a].code # "unissued" /\ ~auth[a].revoked /\ ~auth[a].consumed

\* Rows are issued in order.
NextAuth(a) == \A b \in Auth : auth[b].code = "unissued" <=> b >= a

\* The checks shared by a manual handoff and a station dispatch.
MayAuthorize(j, adapter) ==
    /\ job[j] = "ready_to_print"
    /\ printer = j
    /\ bridge.status = adapter
    /\ bridge.online
    /\ readiness[j] = "fresh"

BeginAuthorize(s, j) ==
    \/ /\ MayAuthorize(j, "manual-orca")
       /\ Begin(s, Request("handoff", j, NoAuth))
    \/ /\ MayAuthorize(j, "station")
       /\ ~recheck[j]
       /\ Begin(s, Request("authorize", j, NoAuth))

\* Earlier live authorizations of the job are revoked in the same transaction.
CommitAuthorize(s) ==
    LET j == tx[s].job
        station == tx[s].op = "authorize"
        code == IF station THEN "station_authorized" ELSE "handoff"
    IN  /\ tx[s].op \in {"handoff", "authorize"}
        /\ CompareVersion(s)
        /\ \E a \in Auth :
              /\ NextAuth(a)
              /\ auth' = [b \in Auth |->
                            IF b = a THEN NewAuth(j, code)
                            ELSE IF auth[b].job = j /\ Live(b)
                            THEN [auth[b] EXCEPT !.revoked = TRUE]
                            ELSE auth[b]]
        /\ job' = IF station THEN [job EXCEPT ![j] = "authorized"] ELSE job
        /\ UNCHANGED <<order, fulfilment, readiness, recheck, printer, bridge>>

\* handoff_access: the checks of every manual-handoff route.
HandoffAccess(a) ==
    /\ bridge.status = "manual-orca"
    /\ auth[a].code # "unissued"
    /\ ~auth[a].revoked
    /\ ~auth[a].expired
    /\ job[auth[a].job] = "ready_to_print"
    /\ printer = auth[a].job

ClaimHandoff(a) ==
    /\ HandoffAccess(a)
    /\ ~auth[a].consumed
    /\ ~auth[a].claimed
    /\ auth' = [auth EXCEPT ![a].claimed = TRUE]
    /\ UNCHANGED <<job, order, fulfilment, readiness, recheck, printer, bridge, tx>>

HandoffReceived(a) ==
    /\ HandoffAccess(a)
    /\ auth[a].claimed
    /\ ~auth[a].consumed
    /\ auth' = [auth EXCEPT ![a].consumed = TRUE, ![a].code = "downloaded"]
    /\ UNCHANGED <<job, order, fulfilment, readiness, recheck, printer, bridge, tx>>

\* Asking again for an authorized job whose grant can no longer be claimed
\* returns it to preparation; the guarded UPDATE races the station's claim.
Unclaimed(a) ==
    /\ auth[a].code = "station_authorized"
    /\ ~auth[a].claimed
    /\ ~auth[a].consumed

Unusable(a) == Unclaimed(a) /\ (auth[a].revoked \/ auth[a].expired)

Newest(a, j) == \A b \in Auth : auth[b].job = j /\ Unclaimed(b) => b <= a

BeginReset(s, j) ==
    /\ job[j] = "authorized"
    /\ \E a \in Auth :
          /\ auth[a].job = j
          /\ Newest(a, j)
          /\ Unusable(a)
          /\ Begin(s, Request("reset", j, a))

CommitReset(s) ==
    LET j == tx[s].job
        a == tx[s].auth
    IN  /\ tx[s].op = "reset"
        /\ Unusable(a)
        /\ CompareVersion(s)
        /\ auth' = [auth EXCEPT ![a].revoked = TRUE, ![a].code = "station_reset"]
        /\ job' = [job EXCEPT ![j] = "preparing"]
        /\ order' = [order EXCEPT ![j] = "preparing"]
        /\ UNCHANGED <<fulfilment, readiness, recheck, printer, bridge>>

-----------------------------------------------------------------------------
(* The station claims and reports                                          *)

\* _dispatch_context and _dispatch_reserved.
DispatchContext(a) ==
    /\ bridge.status = "station"
    /\ auth[a].code \in {"station_authorized", "station_claimed",
                         "station_refused", "station_completed", "station_reset"}
    /\ ~auth[a].revoked
    /\ printer = auth[a].job

Claimable(a) == Unclaimed(a) /\ ~auth[a].revoked /\ ~auth[a].expired

BeginClaim(s, a) ==
    /\ DispatchContext(a)
    /\ ~auth[a].claimed
    /\ ~auth[a].expired
    /\ job[auth[a].job] = "authorized"
    /\ Begin(s, Request("claim", auth[a].job, a))

CommitClaim(s) ==
    LET j == tx[s].job
        a == tx[s].auth
    IN  /\ tx[s].op = "claim"
        /\ Claimable(a)
        /\ CompareVersion(s)
        /\ auth' = [auth EXCEPT ![a].claimed = TRUE, ![a].consumed = TRUE,
                                ![a].code = "station_claimed"]
        /\ job' = [job EXCEPT ![j] = "claimed"]
        /\ UNCHANGED <<order, fulfilment, readiness, recheck, printer, bridge>>

\* A duplicate of a recorded event is answered without a write; it is not a
\* step of this module.
BeginEvent(s, a, state, bucket) ==
    LET j == auth[a].job
    IN  /\ DispatchContext(a)
        /\ auth[a].claimed
        /\ job[j] \in {"claimed", "printing"}
        /\ state \in Follows(auth[a].trail)
        /\ state = "sent" => ~auth[a].aged /\ readiness[j] = "fresh"
        /\ state \notin {"sent", "refused"} => auth[a].sent
        /\ IF state = "printing" THEN bucket > auth[a].bucket ELSE bucket = -1
        /\ Begin(s, [Request("event", j, a) EXCEPT !.state = state,
                                                  !.bucket = bucket])

CommitEvent(s) ==
    LET j == tx[s].job
        a == tx[s].auth
        state == tx[s].state
        row == [auth[a] EXCEPT !.trail = state,
                               !.sent = @ \/ state = "sent"]
        moved == CASE state = "refused" -> "preparing"
                   [] state = "printing" -> "printing"
                   [] state = "completed" -> "qa"
                   [] OTHER -> "same"
    IN  /\ tx[s].op = "event"
        /\ CompareVersion(s)
        /\ auth' = [auth EXCEPT ![a] =
                      CASE state = "refused" -> [row EXCEPT !.code = "station_refused"]
                        [] state = "printing" -> [row EXCEPT !.bucket = tx[s].bucket]
                        [] state = "completed" -> [row EXCEPT !.code = "station_completed"]
                        [] OTHER -> row]
        /\ IF moved = "same" THEN UNCHANGED <<job, order>>
           ELSE /\ job' = [job EXCEPT ![j] = moved]
                /\ order' = [order EXCEPT ![j] = moved]
        /\ printer' = IF state = "completed" /\ printer = j THEN NoJob ELSE printer
        /\ recheck' = [recheck EXCEPT ![j] = @ \/ state = "refused"]
        /\ UNCHANGED <<fulfilment, readiness, bridge>>

-----------------------------------------------------------------------------
(* Time.  A lapse is a step only while a decision can still read it: an     *)
(* earlier lapse reads the same as one just before the decision.           *)

HeartbeatLapses ==
    /\ bridge.online
    /\ \E j \in Job : job[j] = "ready_to_print"
    /\ bridge' = [bridge EXCEPT !.online = FALSE]
    /\ UNCHANGED <<readiness, auth>>

ReadinessLapses(j) ==
    /\ readiness[j] = "fresh"
    /\ job[j] \in {"ready_to_print", "claimed"}
    /\ readiness' = [readiness EXCEPT ![j] = "stale"]
    /\ UNCHANGED <<bridge, auth>>

GrantExpires(a) ==
    /\ auth[a].code \in {"handoff", "station_authorized"}
    /\ Live(a)
    /\ auth' = [auth EXCEPT ![a].expired = TRUE]
    /\ UNCHANGED <<bridge, readiness>>

ClaimAges(a) ==
    /\ auth[a].code = "station_claimed"
    /\ auth[a].trail = "claimed"
    /\ auth' = [auth EXCEPT ![a].aged = TRUE]
    /\ UNCHANGED <<bridge, readiness>>

TimePasses ==
    /\ \/ HeartbeatLapses
       \/ \E j \in Job : ReadinessLapses(j)
       \/ \E a \in Auth : GrantExpires(a) \/ ClaimAges(a)
    /\ UNCHANGED <<job, order, fulfilment, recheck, printer, tx>>

-----------------------------------------------------------------------------
OwnerNext(s) ==
    \/ \E j \in Job :
          \/ \E act \in OwnerAction : BeginTransition(s, act, j)
          \/ BeginReadiness(s, j)
          \/ BeginFulfilment(s, j)
          \/ BeginAuthorize(s, j)
          \/ BeginReset(s, j)
    \/ BeginPairing(s)
    \/ CommitTransition(s)
    \/ CommitReadiness(s)
    \/ CommitFulfilment(s)
    \/ CommitAuthorize(s)
    \/ CommitReset(s)
    \/ CommitPairing(s)

StationNext(s) ==
    \/ \E a \in Auth :
          \/ BeginClaim(s, a)
          \/ \E state \in PlateEvent, bucket \in -1..MaxBucket :
                BeginEvent(s, a, state, bucket)
    \/ CommitClaim(s)
    \/ CommitEvent(s)

Next ==
    \/ \E j \in Job : EnqueuePaidOrder(j)
    \/ \E s \in OwnerSession : OwnerNext(s)
    \/ \E s \in StationSession : StationNext(s)
    \/ \E s \in Session : Abort(s)
    \/ \E adapter \in Adapter : FinishPairing(adapter)
    \/ RevokeBridge
    \/ Heartbeat
    \/ \E a \in Auth : ClaimHandoff(a) \/ HandoffReceived(a)
    \/ TimePasses

Spec == Init /\ [][Next]_vars

-----------------------------------------------------------------------------
(* Properties                                                              *)

\* Printer.active_job_id and PrintJob.status are separate rows, written by
\* guarded updates of owner and station sessions.  They always agree: a job
\* between preparation and the end of its print owns the printer, nothing else
\* does, and so two jobs are never in those statuses together.
PrinterHeldByItsJob ==
    \A j \in Job : job[j] \in Holding <=> printer = j

\* What the buyer sees.
OrderFor(j) ==
    CASE job[j] = "absent" -> {"paid_confirmed"}
      [] job[j] \in {"authorized", "claimed"} -> {"ready_to_print"}
      [] job[j] = "failed" -> {"print_failed"}
      [] job[j] = "completed" ->
            IF fulfilment[j] = "pending" THEN {"qa"} ELSE {fulfilment[j]}
      [] OTHER -> {job[j]}

\* The order shown to the buyer never disagrees with its production job, and
\* it is handed over only after the job passed inspection (fulfilment moves
\* only for a completed job).
OrderFollowsJob ==
    \A j \in Job :
        /\ order[j] \in OrderFor(j)
        /\ job[j] # "completed" => fulfilment[j] = "pending"

\* No owner action leaves "authorized", and only the station's events and
\* print_failed leave "claimed".  So an authorized job always has exactly one
\* unclaimed station grant (to be claimed, or found unusable and reset), and a
\* claimed job exactly one claimed grant whose events can still move it.  A
\* grant that was reset was never claimed.
AuthorityMatchesJob ==
    /\ \A j \in Job :
          /\ job[j] = "authorized" =>
                \E a \in Auth :
                    /\ auth[a].job = j
                    /\ Unclaimed(a)
                    /\ \A b \in Auth \ {a} : auth[b].job = j => ~Unclaimed(b)
          /\ job[j] = "claimed" =>
                \E a \in Auth :
                    /\ auth[a].job = j
                    /\ auth[a].code = "station_claimed"
                    /\ auth[a].trail \notin {"refused", "printing", "completed"}
                    /\ \A b \in Auth \ {a} :
                          auth[b].job = j => auth[b].code # "station_claimed"
    /\ \A a \in Auth : auth[a].code = "station_reset" => ~auth[a].claimed

\* Over all grants a job ever had, refused, reset and renewed, at most one
\* recorded plate_sent: the connector uploads only after that record.
PlateSentOnce ==
    \A a, b \in Auth :
        auth[a].sent /\ auth[b].sent /\ auth[a].job = auth[b].job => a = b

\* Requests decide on rows they read and write later.  Whatever commits in
\* between, a decision that is still able to commit is still true of the
\* stored job, grant and fulfilment: no write rests on a stale read.
Decided(t) ==
    CASE t.op \in OwnerAction -> job[t.job] \in From(t.op)
      [] t.op = "readiness" -> job[t.job] \in {"preparing", "ready_to_print"}
      [] t.op \in {"handoff", "authorize"} -> job[t.job] = "ready_to_print"
      [] t.op \in {"claim", "reset"} ->
            job[t.job] = "authorized" /\ t.auth \in Auth
            /\ auth[t.auth].job = t.job
      [] t.op = "event" ->
            /\ job[t.job] \in {"claimed", "printing"}
            /\ t.auth \in Auth
            /\ auth[t.auth].job = t.job
            /\ auth[t.auth].claimed
            /\ t.state \in Follows(auth[t.auth].trail)
            /\ t.state \notin {"sent", "refused"} => auth[t.auth].sent
      [] t.op = "prepared_for" ->
            job[t.job] = "completed" /\ fulfilment[t.job] = "pending"
      [] t.op = "delivered" ->
            job[t.job] = "completed" /\ fulfilment[t.job] = "ready"
      [] OTHER -> TRUE

DecisionsStillHold ==
    \A s \in Session :
        /\ tx[s].op \in {"idle", "pair"} <=> tx[s].job = NoJob
        /\ Decided(tx[s])

\* The refinement mapping to the abstract life of a plate.
plate == [j \in Job |->
    CASE job[j] \in {"absent", "queued", "on_hold"} -> "waiting"
      [] job[j] = "printing" -> "committed"
      [] job[j] = "claimed" /\ \E a \in Auth : auth[a].job = j /\ auth[a].sent
            -> "committed"
      [] job[j] \in {"qa", "completed", "failed"} -> "finished"
      [] OTHER -> "reserved"]

Plate == INSTANCE PlateLifecycle

\* One bed, one job; once a plate was sent or a print started the job never
\* returns to the queue or to preparation, whoever interleaves.
ImplementsPlateLifecycle == Plate!Spec
=============================================================================
