---------------------------- MODULE PrintStation ----------------------------
(***************************************************************************)
(* The local print station: its job journal (SQLite), the coroutines that  *)
(* prepare a job and send it to the AD5X, the monitor and the status page  *)
(* that reconcile the journal with the printer, the operator's resolve     *)
(* request, and restarts.                                                  *)
(*                                                                         *)
(* The station is one asyncio process: code between two awaits is one      *)
(* step.  Every await of a thread (reading the printer, uploading) is a    *)
(* step boundary, so a status is applied to rows that moved since it was   *)
(* read.  Job ids are rowids: job j is the j-th row of the journal.        *)
(*                                                                         *)
(* The printer and the network are external: a start request that was sent *)
(* may be answered, refused, or answered too late for the station to know. *)
(***************************************************************************)
EXTENDS Integers, FiniteSets

CONSTANTS
    NJobs,        \* number of submissions (bound)
    Window,       \* rows Journal.all() returns, newest first (100 in the code)
    Reader,       \* who reconciles: the monitor, and status pages being loaded
    MaxRestarts   \* number of crashes or shutdowns (bound)

ASSUME StationAssumption ==
    /\ NJobs \in Nat \ {0}
    /\ Window \in Nat \ {0}
    /\ MaxRestarts \in Nat
    /\ "monitor" \in Reader

Job == 1..NJobs
NoJob == 0

VARIABLES
    row,       \* the journal: one record per job, phase "none" before it exists
    task,      \* task[j]: where the coroutine working on job j is
    observed,  \* idle_observations: consecutive idle readings, in memory
    view,      \* the status each reader got and has not applied yet
    inspected, \* resolve requests of job j that read a ready printer
    machine,   \* the printer: its state and its selected file
    wire,      \* the job whose start request is on its way to the printer
    starts,    \* start requests sent to the printer for each job
    restarts

vars == <<row, task, observed, view, inspected, machine, wire, starts, restarts>>
physical == <<machine, wire, starts>>
readers == <<view, inspected>>

-----------------------------------------------------------------------------
(* Vocabulary                                                              *)

\* "stopped", "cancelled", "completed", "resolved" and "failed" are final.
Preparing == {"uploading", "validating", "slicing"}
Following == {"awaiting_start", "printing", "needs_attention"}
Final == {"completed", "cancelled", "stopped", "resolved", "failed"}
ACTIVE == Preparing \cup {"starting"} \cup Following
Phase == {"none", "sliced"} \cup ACTIVE \cup Final

\* start_intent is absent, or at most 90 seconds old, or older.
Intent == {"none", "new", "old"}

Row == [phase : Phase, print_now : BOOLEAN, authorized : BOOLEAN,
        start_intent : Intent]

NoRow == [phase |-> "none", print_now |-> FALSE, authorized |-> FALSE,
          start_intent |-> "none"]

Task == {"none", "upload", "process", "check", "decide", "send", "wait", "sent",
         "uncertain"}

\* What a status says: "idle" is native_idle, "cancelled" is an inactive
\* machine whose last job was cancelled; file 0 is the empty filename.
Reading == [state : {"idle", "heating", "printing", "paused", "completed",
                     "cancelled", "error"},
            file : Job \cup {NoJob}]

NoReading == [state |-> "none", file |-> NoJob]

Ready == {"idle", "completed", "cancelled"}
Running == {"heating", "printing", "paused"}

TypeOK ==
    /\ row \in [Job -> Row]
    /\ task \in [Job -> Task]
    /\ observed \in [Job -> 0..2]
    /\ view \in [Reader -> Reading \cup {NoReading}]
    /\ inspected \in [Job -> BOOLEAN]
    /\ machine \in Reading
    /\ wire \in Job \cup {NoJob}
    /\ starts \in [Job -> 0..2]
    /\ restarts \in 0..MaxRestarts

Init ==
    /\ row = [j \in Job |-> NoRow]
    /\ task = [j \in Job |-> "none"]
    /\ observed = [j \in Job |-> 0]
    /\ view = [r \in Reader |-> NoReading]
    /\ inspected = [j \in Job |-> FALSE]
    /\ machine = [state |-> "idle", file |-> NoJob]
    /\ wire = NoJob
    /\ starts = [j \in Job |-> 0]
    /\ restarts = 0

Active(j) == row[j].phase \in ACTIVE

\* The rows that Journal.all() returns: the newest ones.
Listed ==
    {j \in Job : /\ row[j].phase # "none"
                 /\ Cardinality({k \in Job : k > j /\ row[k].phase # "none"}) < Window}

\* Journal.update: an unguarded write of the phase.
Update(j, phase) == row' = [row EXCEPT ![j].phase = phase]

-----------------------------------------------------------------------------
(* Submitting and preparing                                                *)

\* The unique index admits one active row.  A token that was already used
\* returns the stored job and writes nothing.
Submit(j, now) ==
    /\ row[j].phase = "none"
    /\ \A k \in Job : k < j => row[k].phase # "none"
    /\ \A k \in Job : ~Active(k)
    /\ row' = [row EXCEPT ![j] = [NoRow EXCEPT !.phase = "uploading",
                                               !.print_now = now]]
    /\ task' = [task EXCEPT ![j] = "upload"]
    /\ UNCHANGED <<observed, readers, physical, restarts>>

EndUpload(j) ==
    /\ task[j] = "upload"
    /\ \/ Update(j, "failed") /\ task' = [task EXCEPT ![j] = "none"]
       \/ task' = [task EXCEPT ![j] = "process"] /\ UNCHANGED row
    /\ UNCHANGED <<observed, readers, physical, restarts>>

\* process: validate, slice, then stop or go on to print.
Process(j) ==
    /\ task[j] = "process"
    /\ \/ /\ row[j].phase \in {"uploading", "validating"}
          /\ Update(j, IF row[j].phase = "uploading" THEN "validating" ELSE "slicing")
          /\ UNCHANGED task
       \/ /\ row[j].phase = "slicing"
          /\ IF row[j].print_now
             THEN task' = [task EXCEPT ![j] = "check"] /\ UNCHANGED row
             ELSE task' = [task EXCEPT ![j] = "none"] /\ Update(j, "sliced")
       \/ Update(j, "failed") /\ task' = [task EXCEPT ![j] = "none"]
    /\ UNCHANGED <<observed, readers, physical, restarts>>

\* Faulty: a job may be asked to print again once it has failed.
RetryStart(j) ==
    /\ row[j].phase \in {"sliced", "resolved"}
    /\ \A k \in Job : ~Active(k)
    /\ row' = [row EXCEPT ![j].phase = "starting", ![j].authorized = TRUE]
    /\ task' = [task EXCEPT ![j] = "check"]
    /\ UNCHANGED <<observed, readers, physical, restarts>>

\* The same request repeated returns the job; a different one is refused.
ClaimStart(j) ==
    /\ row[j].phase = "sliced"
    /\ ~row[j].authorized
    /\ row[j].start_intent = "none"
    /\ \A k \in Job : ~Active(k)
    /\ row' = [row EXCEPT ![j].phase = "starting", ![j].authorized = TRUE]
    /\ task' = [task EXCEPT ![j] = "check"]
    /\ UNCHANGED <<observed, readers, physical, restarts>>

-----------------------------------------------------------------------------
(* Sending: dispatch_prepared                                              *)

\* Any exception ends the coroutine; what it leaves depends on the intent.
AfterFailure(j) == IF row[j].start_intent = "none" THEN "failed" ELSE "needs_attention"

\* Options, context, file hashes, expired readiness, or an unreachable printer.
CheckFails(j) ==
    /\ task[j] \in {"check", "decide"}
    /\ Update(j, AfterFailure(j))
    /\ task' = [task EXCEPT ![j] = "none"]
    /\ UNCHANGED <<observed, readers, physical, restarts>>

\* A printer read as not ready fails the job: CheckFails.
DispatchRead(j) ==
    /\ task[j] = "check"
    /\ machine.state \in Ready
    /\ task' = [task EXCEPT ![j] = "decide"]
    /\ UNCHANGED <<row, observed, readers, physical, restarts>>

\* The intent is durable before the upload thread starts.
WriteIntent(j) ==
    /\ task[j] = "decide"
    /\ row' = [row EXCEPT ![j].phase = "starting", ![j].start_intent = "new"]
    /\ task' = [task EXCEPT ![j] = "send"]
    /\ UNCHANGED <<observed, readers, physical, restarts>>

\* upload_and_print: a file that does not print, a second look at the
\* printer, then the one start request.  No earlier request is still on its
\* way after a whole upload (assumption on the network).
SendStart(j) ==
    /\ task[j] = "send"
    /\ machine.state \in Ready
    /\ wire = NoJob
    /\ wire' = j
    /\ starts' = [starts EXCEPT ![j] = @ + 1]
    /\ task' = [task EXCEPT ![j] = "wait"]
    /\ UNCHANGED <<row, observed, readers, machine, restarts>>

\* The upload failed, or the request got no answer in time: it may be
\* anywhere.
StartUncertain(j) ==
    /\ task[j] \in {"send", "wait"}
    /\ task' = [task EXCEPT ![j] = "uncertain"]
    /\ UNCHANGED <<row, observed, readers, physical, restarts>>

FinishStart(j) ==
    /\ task[j] \in {"sent", "uncertain"}
    /\ Update(j, IF task[j] = "sent" THEN "awaiting_start" ELSE AfterFailure(j))
    /\ task' = [task EXCEPT ![j] = "none"]
    /\ UNCHANGED <<observed, readers, physical, restarts>>

-----------------------------------------------------------------------------
(* The printer and the network (external)                                  *)

\* A request that arrives starts its file; the answer may be lost.
Accept(j) ==
    /\ wire = j
    /\ machine.state \in Ready
    /\ machine' = [state |-> "heating", file |-> j]
    /\ wire' = NoJob
    /\ task' \in {task} \cup (IF task[j] = "wait" THEN {[task EXCEPT ![j] = "sent"]} ELSE {})
    /\ UNCHANGED <<row, observed, readers, starts, restarts>>

\* Lost or refused; a refusal may be answered.
Drop(j) ==
    /\ wire = j
    /\ wire' = NoJob
    /\ task' \in {task} \cup (IF task[j] = "wait" THEN {[task EXCEPT ![j] = "uncertain"]} ELSE {})
    /\ UNCHANGED <<row, observed, readers, machine, starts, restarts>>

\* What the machine does by itself or at its screen.  A cancelled job may
\* leave a cancelled, a still selected, or no file.
MachineStep(state, file) ==
    /\ \/ machine.state = "heating" /\ state = "printing" /\ file = machine.file
       \/ machine.state = "printing" /\ state = "completed" /\ file = machine.file
       \/ machine.state = "printing" /\ state = "paused" /\ file = machine.file
       \/ machine.state = "paused" /\ state = "printing" /\ file = machine.file
       \/ machine.state \in Running /\ state \in {"cancelled", "error"} /\ file = machine.file
       \/ machine.state \in Running /\ state = "idle" /\ file \in {NoJob, machine.file}
       \/ machine.state \in {"completed", "cancelled", "error"} /\ state = "idle" /\ file = NoJob
    /\ machine' = [state |-> state, file |-> file]
    /\ UNCHANGED <<row, task, observed, readers, wire, starts, restarts>>

-----------------------------------------------------------------------------
(* Following the printer                                                   *)

\* A status is read in a thread; the caller applies it in a later step.
Read(r) ==
    /\ view[r] = NoReading
    /\ view' = [view EXCEPT ![r] = machine]
    /\ UNCHANGED <<row, task, observed, inspected, physical, restarts>>

FollowedAnyPhase(j) == j \in Listed /\ row[j].start_intent # "none"

Followed(j) ==
    /\ j \in Listed
    /\ row[j].phase \in Following
    /\ row[j].start_intent # "none"

NativeIdle(j, v) == v.state = "idle" /\ v.file \in {NoJob, j}

\* long: twelve seconds have passed since the first idle reading.
Stopped(j, v, long) ==
    /\ NativeIdle(j, v)
    /\ row[j].start_intent = "old"
    /\ long
    /\ observed[j] = 2

\* Faulty: the end of a print is taken for this job's, whatever file it was.
VerdictOnAnyFile(j, v, long) ==
    IF v.state \in {"completed", "cancelled"} THEN v.state ELSE row[j].phase

Verdict(j, v, long) ==
    LET old == row[j].start_intent = "old"
    IN  CASE v.state = "cancelled" /\ v.file = j -> "cancelled"
          [] Stopped(j, v, long) -> "stopped"
          [] v.state = "heating" /\ v.file = j -> "awaiting_start"
          [] v.state = "printing" /\ v.file = j -> "printing"
          [] v.state = "completed" /\ v.file = j -> "completed"
          [] \/ v.state = "error"
             \/ v.state = "paused" /\ v.file = j
             \/ /\ old /\ ~Stopped(j, v, long)
                /\ v.file # j \/ v.state = "idle" -> "needs_attention"
          [] OTHER -> row[j].phase

Observations(j, v, long) ==
    CASE ~NativeIdle(j, v) \/ Stopped(j, v, long) -> 0
      [] NativeIdle(j, v) /\ row[j].start_intent # "old" -> observed[j]
      [] OTHER -> IF observed[j] = 2 THEN 2 ELSE observed[j] + 1

Reconcile(r, long) ==
    LET v == view[r]
    IN  /\ v # NoReading
        /\ row' = [j \in Job |->
                     IF Followed(j) THEN [row[j] EXCEPT !.phase = Verdict(j, v, long)]
                     ELSE row[j]]
        /\ observed' = [j \in Job |->
                          IF Followed(j) THEN Observations(j, v, long) ELSE observed[j]]
        /\ view' = [view EXCEPT ![r] = NoReading]
        /\ UNCHANGED <<task, inspected, physical, restarts>>

\* Both callers forget what they observed; only the monitor marks the rows.
Unreachable(r) ==
    /\ view[r] # NoReading
    /\ row' = [j \in Job |->
                 IF /\ r = "monitor"
                    /\ j \in Listed
                    /\ row[j].phase \in {"awaiting_start", "printing"}
                 THEN [row[j] EXCEPT !.phase = "needs_attention"]
                 ELSE row[j]]
    /\ observed' = [j \in Job |-> 0]
    /\ view' = [view EXCEPT ![r] = NoReading]
    /\ UNCHANGED <<task, inspected, physical, restarts>>

\* Ninety seconds after the intent, wherever its coroutine and its request are
\* by then: the intent is stamped before the upload.
AgeIntent(j) ==
    /\ row[j].start_intent = "new"
    /\ row' = [row EXCEPT ![j].start_intent = "old"]
    /\ UNCHANGED <<task, observed, readers, physical, restarts>>

\* The operator's resolve request: the row is checked before the status is
\* read and not again before it is written.  A printer that is not ready
\* refuses the request.  (The observations of a closed row are never read.)
ResolveRead(j) ==
    /\ row[j].phase = "needs_attention"
    /\ ~inspected[j]
    /\ machine.state \in Ready
    /\ inspected' = [inspected EXCEPT ![j] = TRUE]
    /\ UNCHANGED <<row, task, observed, view, physical, restarts>>

ResolveWrite(j) ==
    /\ inspected[j]
    /\ Update(j, "resolved")
    /\ inspected' = [inspected EXCEPT ![j] = FALSE]
    /\ observed' = [observed EXCEPT ![j] = 0]
    /\ UNCHANGED <<task, view, physical, restarts>>

-----------------------------------------------------------------------------
(* Restarts                                                                *)

\* Faulty: only the rows that were being followed are recovered.
RecoverFollowed(graceful) == {j \in Listed : row[j].phase \in Following}

\* A shutdown cancels every coroutine, whose handler writes its row; then,
\* as after a crash, the next process recovers the rows it lists.
Recovered(graceful) ==
    {j \in Job : Active(j) /\ (j \in Listed \/ (graceful /\ task[j] # "none"))}

Restart(graceful) ==
    /\ restarts < MaxRestarts
    /\ row' = [j \in Job |->
                 IF j \in Recovered(graceful)
                 THEN [row[j] EXCEPT !.phase = AfterFailure(j)]
                 ELSE row[j]]
    /\ task' = [j \in Job |-> "none"]
    /\ observed' = [j \in Job |-> 0]
    /\ view' = [r \in Reader |-> NoReading]
    /\ inspected' = [j \in Job |-> FALSE]
    /\ restarts' = restarts + 1
    /\ UNCHANGED physical

TaskStep(j) ==
    \/ EndUpload(j) \/ Process(j) \/ CheckFails(j) \/ DispatchRead(j)
    \/ WriteIntent(j) \/ SendStart(j) \/ StartUncertain(j) \/ FinishStart(j)

Next ==
    \/ \E j \in Job :
          \/ \E now \in BOOLEAN : Submit(j, now)
          \/ ClaimStart(j)
          \/ TaskStep(j)
          \/ Accept(j)
          \/ Drop(j)
          \/ AgeIntent(j)
          \/ ResolveRead(j)
          \/ ResolveWrite(j)
    \/ \E m \in Reading : MachineStep(m.state, m.file)
    \/ \E r \in Reader :
          \/ Read(r)
          \/ \E long \in BOOLEAN : Reconcile(r, long)
          \/ Unreachable(r)
    \/ \E graceful \in BOOLEAN : Restart(graceful)

Spec == Init /\ [][Next]_vars

\* Coroutines and the monitor run, requests arrive or are dropped, time
\* passes, a print ends and its end is acknowledged, the operator resolves.
MachineGoesOn ==
    \/ machine.state \in {"heating", "paused"} /\ MachineStep("printing", machine.file)
    \/ machine.state = "error" /\ MachineStep("idle", NoJob)

Fairness ==
    /\ \A j \in Job :
          /\ WF_vars(TaskStep(j))
          /\ WF_vars(Accept(j) \/ Drop(j))
          /\ WF_vars(AgeIntent(j))
          /\ WF_vars(ResolveRead(j))
          /\ WF_vars(ResolveWrite(j))
    /\ WF_vars(Read("monitor"))
    /\ WF_vars(\E long \in BOOLEAN : Reconcile("monitor", long))
    /\ WF_vars(MachineGoesOn)
    /\ SF_vars(MachineStep("completed", machine.file))

FairSpec == Spec /\ Fairness

-----------------------------------------------------------------------------
(* Properties                                                              *)

\* At most one row is active: no write ever relies on the unique index to
\* reject it (an IntegrityError in reconcile would end the monitor).
OneActive == \A j, k \in Job : Active(j) /\ Active(k) => j = k

\* A start request is sent at most once for a job, whatever restarts,
\* timeouts and stale readings happen around it.
SentOnce == \A j \in Job : starts[j] <= 1

\* The printer runs the job, or its start request is on the way.
UnderWay(j) == wire = j \/ (machine.state \in Running /\ machine.file = j)

\* A job closed as completed, cancelled or failed is over, however old the
\* readings are and however many readers apply them: nothing of it runs or is
\* on its way to the printer.
ConfirmedEndIsOver ==
    \A j \in Job :
       row[j].phase \in {"completed", "cancelled", "failed"} => ~UnderWay(j)

\* After a restart every job whose sending began waits for an inspection.
RestartInspects ==
    [][restarts' # restarts =>
         \A j \in Job : Active(j) /\ row[j].start_intent # "none"
                           => row'[j].phase = "needs_attention"]_vars

\* The resolve request closes only a job that is still uncertain.
ResolvesUncertainOnly ==
    [][\A j \in Job : row'[j].phase = "resolved" /\ row[j].phase # "resolved"
                         => row[j].phase = "needs_attention"]_vars

\* A job in the active slot leaves it: no crash, lost answer or stale
\* reading blocks the station for good.
SlotIsReleased == \A j \in Job : Active(j) ~> ~Active(j)

\* A sent job is one whose intent is written and whose row is active.
Life(j) ==
    CASE row[j].phase \in Final -> "settled"
      [] Active(j) /\ row[j].start_intent # "none" -> "sent"
      [] OTHER -> "unsent"

Once == INSTANCE PrintOnce WITH life <- [j \in Job |-> Life(j)]

\* The station implements PrintOnce.
ImplementsPrintOnce == Once!Spec
=============================================================================
