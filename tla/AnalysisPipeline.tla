-------------------------- MODULE AnalysisPipeline --------------------------
(***************************************************************************)
(* The analysis of one quotation request: the transactional outbox, the    *)
(* Redis stream, the workers and the fenced lease of the analysis run.     *)
(*                                                                         *)
(* Every database transaction is one action: PostgreSQL locks the run row. *)
(* Redis, the worker's loop and the owner's retry lie between transactions *)
(* and interleave.  An interruption is a crash of a worker or a Redis call *)
(* that fails, possibly after it took effect: either way the worker starts *)
(* its loop afresh.  Redis keeps what it acknowledged; the stream is the   *)
(* consumer group's view of it.                                            *)
(*                                                                         *)
(* The request has one model.  Validating and slicing it is one step with  *)
(* every outcome: measured, only validated because no slicer is set up,    *)
(* rejected, not sliced, or no answer from the storage.                    *)
(***************************************************************************)
EXTENDS Naturals, Sequences, FiniteSets

CONSTANTS
    Worker,                \* worker processes
    Tab,                   \* browser tabs of the owner
    MaxRuns,               \* analysis runs of the request (bound)
    MaxAttempts,           \* analysis_max_attempts
    Limit,                 \* outbox rows read at a time
    NotificationsEnabled,  \* workflow_notifications_enabled
    MaxNotices,            \* notices other services write (bound)
    MaxInterruptions       \* crashes and failed Redis calls (bound)

ASSUME AnalysisAssumption ==
    /\ MaxRuns \in Nat \ {0}
    /\ MaxAttempts \in Nat \ {0}
    /\ Limit \in Nat \ {0}
    /\ NotificationsEnabled \in BOOLEAN
    /\ MaxNotices \in Nat
    /\ MaxInterruptions \in Nat

VARIABLES
    request,        \* QuoteRequest: status, version, status of its model
    runs,           \* AnalysisRun rows, oldest first
    outbox,         \* OutboxEvent rows, oldest first: runs and notices
    stream,         \* Redis stream entries and their state in the group
    worker,         \* where each worker is in its loop
    tab,            \* what each tab has read before it writes
    notices,        \* notices other services wrote
    interruptions

vars == <<request, runs, outbox, stream, worker, tab, notices, interruptions>>
database == <<request, runs>>
counters == <<notices, interruptions>>

-----------------------------------------------------------------------------
(* Vocabulary                                                              *)

Run == 1..MaxRuns

RequestStatus == {"draft", "analyzing", "analysis_ready", "analysis_failed", "rejected"}

AssetStatus == {"quarantined", "validating", "validated", "rejected"}

RunStatus == {"queued", "running", "awaiting_profile", "succeeded", "failed"}

Terminal == {"awaiting_profile", "succeeded", "failed"}

\* failure_code: the slicer's codes allow a retry, the others do not.
Failure == {"none", "slicer", "model", "attempt_limit"}

\* token is the attempt that holds the lease: a new claim, a new token.
RunRow == [status : RunStatus, version : Nat, token : 0..MaxAttempts,
           lease : {"none", "live", "expired"}, attempts : 0..MaxAttempts,
           failure : Failure, results : Nat]

\* A notification.requested row in the outbox; the others are of a run.
Notice == 0

OutboxRow == [of : Run \cup {Notice}, published : BOOLEAN]

Message == [run : Run, state : {"new", "pending", "acked"}, idle : BOOLEAN]

\* "poll": the outbox batch is done, the stream is next.  batch holds the
\* positions of the outbox rows the worker has read and not marked.
At == {"idle", "publish", "mark", "poll", "claim", "work", "ack"}

Loop == [at : At, batch : SUBSET Nat, message : Nat, run : 0..MaxRuns, token : 0..MaxAttempts]

Start == [at |-> "idle", batch |-> {}, message |-> 0, run |-> 0, token |-> 0]

TypeOK ==
    /\ request \in [status : RequestStatus, version : Nat, asset : AssetStatus]
    /\ runs \in Seq(RunRow) /\ Len(runs) <= MaxRuns
    /\ outbox \in Seq(OutboxRow)
    /\ stream \in Seq(Message)
    /\ worker \in [Worker -> Loop]
    /\ tab \in [Tab -> {0, 1} \X Nat]
    /\ notices \in 0..MaxNotices
    /\ interruptions \in 0..MaxInterruptions

\* A draft with its upload in quarantine.
Init ==
    /\ request = [status |-> "draft", version |-> 1, asset |-> "quarantined"]
    /\ runs = <<>>
    /\ outbox = <<>>
    /\ stream = <<>>
    /\ worker = [w \in Worker |-> Start]
    /\ tab = [t \in Tab |-> <<0, 0>>]
    /\ notices = 0
    /\ interruptions = 0

Unpublished(of) == [of |-> of, published |-> FALSE]

Queued(version) ==
    [status |-> "queued", version |-> version, token |-> 0, lease |-> "none",
     attempts |-> 0, failure |-> "none", results |-> 0]

-----------------------------------------------------------------------------
(* Submission and the owner's retry                                        *)

\* submit_quote_request: run, outbox row and notice in one transaction.
Submit ==
    /\ request.status = "draft"
    /\ request' = [request EXCEPT !.status = "analyzing", !.version = @ + 1]
    /\ runs' = Append(runs, Queued(request.version + 1))
    /\ outbox' = outbox \o <<Unpublished(1), Unpublished(Notice)>>
    /\ UNCHANGED <<stream, worker, tab, counters>>

Retryable(run) ==
    run.status = "awaiting_profile" \/ (run.status = "failed" /\ run.failure = "slicer")

\* retry_slicing decides on what it read and compares the version later.
BeginRetry(t) ==
    /\ tab[t][1] = 0
    /\ Len(runs) < MaxRuns
    /\ request.status \in {"analysis_ready", "analysis_failed"}
    /\ Retryable(runs[Len(runs)])
    /\ tab' = [tab EXCEPT ![t] = <<1, request.version>>]
    /\ UNCHANGED <<database, outbox, stream, worker, counters>>

NewRun(t) ==
    /\ request' = [status |-> "analyzing", version |-> request.version + 1,
                   asset |-> "quarantined"]
    /\ runs' = Append(runs, Queued(request.version + 1))
    /\ outbox' = Append(outbox, Unpublished(Len(runs) + 1))
    /\ tab' = [tab EXCEPT ![t] = <<0, 0>>]

\* Faulty: the version is not compared.
CommitRetryUnversioned(t) ==
    /\ tab[t][1] = 1
    /\ Len(runs) < MaxRuns
    /\ NewRun(t)
    /\ UNCHANGED <<stream, worker, counters>>

CommitRetry(t) ==
    /\ tab[t][1] = 1
    /\ IF tab[t][2] = request.version
       THEN NewRun(t)
       ELSE tab' = [tab EXCEPT ![t] = <<0, 0>>] /\ UNCHANGED <<database, outbox>>
    /\ UNCHANGED <<stream, worker, counters>>

\* reject_request: one of the writers a retry can race.
Reject ==
    /\ request.status \in {"analysis_ready", "analysis_failed"}
    /\ request' = [request EXCEPT !.status = "rejected", !.version = @ + 1]
    /\ outbox' = Append(outbox, Unpublished(Notice))
    /\ UNCHANGED <<runs, stream, worker, tab, counters>>

-----------------------------------------------------------------------------
(* The outbox                                                              *)

\* request_notice of the other services.
OtherNotice ==
    /\ notices < MaxNotices
    /\ notices' = notices + 1
    /\ outbox' = Append(outbox, Unpublished(Notice))
    /\ UNCHANGED <<database, stream, worker, tab, interruptions>>

Pending == {i \in DOMAIN outbox : ~outbox[i].published}

\* A query's first rows, in their order.
Oldest(rows) == {i \in rows : Cardinality({j \in rows : j < i}) < Limit}

First(i, rows) == i \in rows /\ \A j \in rows : i <= j

MarkedAll(rows) ==
    [i \in DOMAIN outbox |-> [outbox[i] EXCEPT !.published = @ \/ i \in rows]]

\* publish_notifications, every 5 seconds when notifications are enabled: a
\* batch in one transaction.
PublishNotices ==
    LET due == {i \in Pending : outbox[i].of = Notice}
    IN  /\ NotificationsEnabled
        /\ due # {}
        /\ outbox' = MarkedAll(Oldest(due))
        /\ UNCHANGED <<database, stream, worker, tab, counters>>

\* pending_outbox_events takes the oldest rows of any topic; the other topics
\* are skipped only afterwards.
Batch == {i \in Oldest(Pending) : outbox[i].of # Notice}

Reads(w) ==
    /\ worker[w].at = "idle"
    /\ worker' = [worker EXCEPT ![w].at = IF Batch = {} THEN "poll" ELSE "publish",
                                ![w].batch = Batch]
    /\ UNCHANGED <<database, stream, tab, counters>>

\* Faulty: the rows are marked when they are read.
ReadBatchMarking(w) == Reads(w) /\ outbox' = MarkedAll(Batch)

ReadBatch(w) == Reads(w) /\ UNCHANGED outbox

Publish(w) ==
    /\ worker[w].at = "publish"
    /\ \E i \in DOMAIN outbox :
          /\ First(i, worker[w].batch)
          /\ stream' = Append(stream, [run |-> outbox[i].of, state |-> "new", idle |-> FALSE])
    /\ worker' = [worker EXCEPT ![w].at = "mark"]
    /\ UNCHANGED <<database, outbox, tab, counters>>

\* A row that another worker has marked stays as it is.
MarkPublished(w) ==
    /\ worker[w].at = "mark"
    /\ \E i \in DOMAIN outbox :
          /\ First(i, worker[w].batch)
          /\ outbox' = [outbox EXCEPT ![i].published = TRUE]
          /\ worker' = [worker EXCEPT ![w].batch = @ \ {i},
                       ![w].at = IF worker[w].batch = {i} THEN "poll" ELSE "publish"]
    /\ UNCHANGED <<database, stream, tab, counters>>

-----------------------------------------------------------------------------
(* The stream                                                              *)

Takes(w, i) ==
    /\ stream' = [stream EXCEPT ![i].state = "pending", ![i].idle = FALSE]
    /\ worker' = [worker EXCEPT ![w].at = "claim", ![w].message = i, ![w].run = stream[i].run]

Stale(i) == stream[i].state = "pending" /\ stream[i].idle

\* reclaim_stale, then read_new: the first entry that has been pending for a
\* lease, else the first that nobody has been given.
TakeMessage(w) ==
    LET stale == {i \in DOMAIN stream : Stale(i)}
        new == {i \in DOMAIN stream : stream[i].state = "new"}
    IN  /\ worker[w].at = "poll"
        /\ \/ \E i \in stale : First(i, stale) /\ Takes(w, i)
           \/ stale = {} /\ \E i \in new : First(i, new) /\ Takes(w, i)
           \/ /\ stale = {} /\ new = {}
              /\ worker' = [worker EXCEPT ![w] = Start]
              /\ UNCHANGED stream
        /\ UNCHANGED <<database, outbox, tab, counters>>

\* ACKNOWLEDGE, whoever the entry was given to since.
Acknowledge(w) ==
    /\ worker[w].at = "ack"
    /\ stream' = [stream EXCEPT ![worker[w].message].state = "acked",
                              ![worker[w].message].idle = FALSE]
    /\ worker' = [worker EXCEPT ![w] = Start]
    /\ UNCHANGED <<database, outbox, tab, counters>>

Disposes(w, disposition) ==
    worker' = [worker EXCEPT ![w] =
                 IF disposition = "retry" THEN Start ELSE [@ EXCEPT !.at = "ack"]]

-----------------------------------------------------------------------------
(* The fenced run                                                          *)

\* _fail_locked_run
Failed(r, code) ==
    /\ runs' = [runs EXCEPT ![r].status = "failed", ![r].failure = code, ![r].token = 0,
                            ![r].lease = "none"]
    /\ request' = [request EXCEPT !.status = "analysis_failed", !.version = @ + 1,
                      !.asset = IF @ = "validating" THEN "rejected" ELSE @]
    /\ outbox' = Append(outbox, Unpublished(Notice))

\* Faulty: one attempt too many.
ExhaustedLate(run) == run.attempts > MaxAttempts

Exhausted(run) == run.attempts = MaxAttempts

Leased(run) == run.status = "running" /\ run.lease = "live"

\* The input of the run is still the request's.
Current(run) ==
    /\ request.version = run.version
    /\ request.status = "analyzing"

\* The ways to leave a message alone: done, not current, or in progress.
ClaimRefused(w) ==
    LET r == worker[w].run
    IN  /\ worker[w].at = "claim"
        /\ \/ runs[r].status \in Terminal /\ Disposes(w, "acknowledge")
           \/ Leased(runs[r]) /\ Disposes(w, "retry")
           \/ /\ runs[r].status \notin Terminal
              /\ ~Leased(runs[r])
              /\ \/ ~Current(runs[r])
                 \/ /\ ~Exhausted(runs[r])
                    /\ request.asset \notin {"quarantined", "validating"}
              /\ Disposes(w, "acknowledge")
        /\ UNCHANGED <<database, outbox, stream, tab, counters>>

\* claim_analysis_run: the lease of an earlier attempt, if any, is over.
Claim(w) ==
    LET r == worker[w].run
    IN  /\ worker[w].at = "claim"
        /\ runs[r].status \notin Terminal
        /\ ~Leased(runs[r])
        /\ Current(runs[r])
        /\ \/ /\ Exhausted(runs[r])
              /\ Failed(r, "attempt_limit")
              /\ Disposes(w, "acknowledge")
           \/ /\ ~Exhausted(runs[r])
              /\ request.asset \in {"quarantined", "validating"}
              /\ runs' = [runs EXCEPT ![r].status = "running", ![r].lease = "live",
                                      ![r].token = runs[r].attempts + 1, ![r].attempts = @ + 1]
              /\ request' = [request EXCEPT !.asset = "validating"]
              /\ worker' = [worker EXCEPT ![w].at = "work", ![w].token = runs[r].attempts + 1]
              /\ UNCHANGED outbox
        /\ UNCHANGED <<stream, tab, counters>>

\* Faulty: any attempt that has something to say is heard.
HoldsAnything(w) == request.asset # "quarantined"

HoldsLease(w) ==
    LET run == runs[worker[w].run]
    IN  run.status = "running" /\ run.token = worker[w].token

\* complete_validation_awaiting_profile, with slices or without.
Complete(w) ==
    LET r == worker[w].run
    IN  /\ worker[w].at = "work"
        /\ HoldsLease(w)
        /\ \E status \in {"succeeded", "awaiting_profile"} :
              runs' = [runs EXCEPT ![r].status = status, ![r].results = @ + 1, ![r].token = 0,
                                   ![r].lease = "none"]
        /\ request' = [request EXCEPT !.status = "analysis_ready", !.version = @ + 1,
                                      !.asset = "validated"]
        /\ outbox' = Append(outbox, Unpublished(Notice))
        /\ Disposes(w, "acknowledge")
        /\ UNCHANGED <<stream, tab, counters>>

\* fail_analysis_run
Fail(w) ==
    /\ worker[w].at = "work"
    /\ HoldsLease(w)
    /\ \E code \in {"model", "slicer"} : Failed(worker[w].run, code)
    /\ Disposes(w, "acknowledge")
    /\ UNCHANGED <<stream, tab, counters>>

\* The storage does not answer, or the lease was lost: a later delivery of
\* the message decides.
GiveUp(w) ==
    /\ worker[w].at = "work"
    /\ Disposes(w, "retry")
    /\ UNCHANGED <<database, outbox, stream, tab, counters>>

Interrupt(w) ==
    /\ worker[w].at # "idle"
    /\ interruptions < MaxInterruptions
    /\ interruptions' = interruptions + 1
    /\ worker' = [worker EXCEPT ![w] = Start]
    /\ UNCHANGED <<database, outbox, stream, tab, notices>>

-----------------------------------------------------------------------------
(* Time                                                                    *)

LeaseExpires(r) ==
    /\ runs[r].lease = "live"
    /\ runs' = [runs EXCEPT ![r].lease = "expired"]
    /\ UNCHANGED <<request, outbox, stream, worker, tab, counters>>

\* The entry has been pending for analysis_lease_seconds.
BecomesIdle(i) ==
    /\ stream[i].state = "pending"
    /\ ~stream[i].idle
    /\ stream' = [stream EXCEPT ![i].idle = TRUE]
    /\ UNCHANGED <<database, outbox, worker, tab, counters>>

-----------------------------------------------------------------------------
WorkerStep(w) ==
    \/ ReadBatch(w) \/ Publish(w) \/ MarkPublished(w) \/ TakeMessage(w)
    \/ ClaimRefused(w) \/ Claim(w) \/ Complete(w) \/ Fail(w) \/ GiveUp(w) \/ Acknowledge(w)

Next ==
    \/ Submit
    \/ \E t \in Tab : BeginRetry(t) \/ CommitRetry(t)
    \/ Reject
    \/ OtherNotice
    \/ PublishNotices
    \/ \E w \in Worker : WorkerStep(w) \/ Interrupt(w)
    \/ \E r \in DOMAIN runs : LeaseExpires(r)
    \/ \E i \in DOMAIN stream : BecomesIdle(i)

Spec == Init /\ [][Next]_vars

\* The workers and the notification loop run forever, and time passes.
FairSpec ==
    /\ Spec
    /\ \A w \in Worker : WF_vars(WorkerStep(w))
    /\ WF_vars(PublishNotices)
    /\ \A r \in Run : WF_vars(r \in DOMAIN runs /\ LeaseExpires(r))
    /\ WF_vars(\E i \in DOMAIN stream : BecomesIdle(i))

-----------------------------------------------------------------------------
(* Properties                                                              *)

Open(r) == runs[r].status \notin Terminal

\* Between the outbox, the stream and the workers a run is never mislaid: as
\* long as it has no verdict, its outbox row is unpublished or the stream
\* holds an entry of it that nobody has acknowledged.
NothingMislaid ==
    \A r \in DOMAIN runs :
        Open(r) => \/ \E i \in Pending : outbox[i].of = r
                   \/ \E i \in DOMAIN stream : stream[i].run = r /\ stream[i].state # "acked"

\* Attempts overlap, yet the request shows the verdict of its newest run and
\* no older run is open: a claim never meets an input that is not current, a
\* result is stored once, and only for a verdict that has one.
RequestFollowsRun ==
    \A r \in DOMAIN runs :
        /\ Open(r) => /\ r = Len(runs) /\ request.status = "analyzing"
                      /\ runs[r].version = request.version
        /\ runs[r].results = (IF runs[r].status \in {"succeeded", "awaiting_profile"} THEN 1 ELSE 0)
        /\ r = Len(runs) => \/ Open(r)
                            \/ request.status = "rejected"
                            \/ request.status = (IF runs[r].status = "failed" THEN "analysis_failed"
                                                ELSE "analysis_ready")

\* A verdict is final, however late an earlier attempt answers, and so is the
\* owner's rejection, whatever a retry had read before it.
VerdictIsFinal ==
    /\ [][\A r \in DOMAIN runs :
          ~Open(r) => runs'[r].status = runs[r].status /\ runs'[r].results = runs[r].results]_vars
    /\ [][request.status = "rejected" => request'.status = "rejected"]_vars

\* Every run that was queued gets its verdict.
EveryRunEnds ==
    \A r \in Run : (r \in DOMAIN runs) ~> (r \in DOMAIN runs /\ ~Open(r))

\* An unpublished row of the outbox is published in the end.
OutboxIsPublished ==
    \A r \in Run : (\E i \in Pending : outbox[i].of = r) ~> ~(\E i \in Pending : outbox[i].of = r)
=============================================================================
