---------------------------- MODULE PresentationLink ----------------------------
(***************************************************************************)
(* The presentation queue together with the connector that serves it from  *)
(* beside the printer: the connector's loop, the journal rows and outboxes *)
(* it shares with the station's monitor and operator, the requests it      *)
(* makes to the API, the printer and the bed.                              *)
(*                                                                         *)
(* The connector is one coroutine that waits for each request.  A request  *)
(* is lost on its way, handled without the answer arriving, or answered; a *)
(* claim that was given up may still be committed later, an event that was *)
(* given up has been handled or lost before it is sent again (assumption). *)
(* The monitor's reading of the printer is fresh: PrintStation has the     *)
(* stale ones and the pauses.  Local jobs of the station are left out.     *)
(***************************************************************************)
EXTENDS PresentationQueue, Sequences

CONSTANT MaxFaults    \* lost requests, lapses and restarts together (bound)

ASSUME FaultAssumption == MaxFaults \in Nat

VARIABLES
    journal,   \* the station's row of each entry, phase "none" before it exists
    conn,      \* where the connector is, for which entry, what it read
    machine,   \* the printer: its state and its selected file
    wire,      \* the entry whose start request is on its way to the printer
    bed,       \* whether the plate is clear
    starts,    \* start requests sent for each entry
    faults

station_side == <<journal, conn, machine, wire, bed, starts>>
vars == <<queue, station_side, faults>>
printer == <<machine, wire, bed, starts>>

-----------------------------------------------------------------------------
(* Vocabulary                                                              *)

Following == {"awaiting_start", "printing", "needs_attention"}

Over == {"completed", "cancelled", "stopped", "resolved"}

ACTIVE == {"validating", "starting"} \cup Following

JournalRow == [phase : {"none", "failed"} \cup ACTIVE \cup Over, start_intent : BOOLEAN,
               outbox : Seq(EventId), event_keys : SUBSET EventId, telemetry_error : BOOLEAN]

NoRow == [phase |-> "none", start_intent |-> FALSE, outbox |-> <<>>, event_keys |-> {},
          telemetry_error |-> FALSE]

\* seen is the state the next heartbeat reports, todo the rows this tick has
\* still to report, via the server's session of the claim under way.  An
\* outbox is flushed at "report", "ack" and "last".
Conn == [at : {"idle", "beat", "rows", "recover", "report", "grants", "claim", "prepare",
               "intent", "queue", "ack", "send", "wait", "sent", "failed", "last"},
         for : Entry \cup {NoEntry}, seen : {"ready", "busy"}, todo : SUBSET Entry,
         via : SUBSET Bridge]

Ready == {"idle", "completed", "cancelled"}

Running == {"heating", "printing"}

LinkTypeOK ==
    /\ QueueTypeOK
    /\ journal \in [Entry -> JournalRow]
    /\ conn \in Conn
    /\ machine \in [state : Ready \cup Running \cup {"error"}, file : Entry \cup {NoEntry}]
    /\ wire \in Entry \cup {NoEntry}
    /\ bed \in BOOLEAN
    /\ starts \in [Entry -> 0..2]
    /\ faults \in 0..MaxFaults

AtRest == [at |-> "idle", for |-> NoEntry, seen |-> "busy", todo |-> {}, via |-> {}]

LinkInit ==
    /\ QueueInit
    /\ journal = [e \in Entry |-> NoRow]
    /\ conn = AtRest
    /\ machine = [state |-> "idle", file |-> NoEntry]
    /\ wire = NoEntry
    /\ bed = TRUE
    /\ starts = [e \in Entry |-> 0]
    /\ faults = 0

Fault == faults < MaxFaults /\ faults' = faults + 1

Goto(at) == conn' = [conn EXCEPT !.at = at]

\* queue_event: an event is queued once; a print's only with a new bucket.
Queued(row, id) ==
    IF \/ id \in row.event_keys
       \/ id[1] = "printing" /\ \E k \in row.event_keys : k[1] = "printing" /\ k[2] >= id[2]
    THEN row
    ELSE [row EXCEPT !.outbox = Append(@, id), !.event_keys = @ \cup {id}]

Physical(e) == journal[e].start_intent

-----------------------------------------------------------------------------
(* A tick: heartbeat, reports, grants                                      *)

Tick ==
    /\ conn.at = "idle"
    /\ conn' = [AtRest EXCEPT !.at = "beat",
                              !.seen = IF machine.state \in {"idle", "completed"}
                                       THEN "ready" ELSE "busy"]
    /\ UNCHANGED <<queue, journal, printer, faults>>

\* The rows of this tick are read after the heartbeat was answered.
Beat ==
    /\ conn.at = "beat"
    /\ Heartbeat(conn.seen)
    /\ conn' = [AtRest EXCEPT !.at = "rows", !.todo = {e \in Entry : journal[e].phase # "none"}]
    /\ UNCHANGED <<journal, printer, faults>>

ReportRow(e) ==
    /\ conn.at = "rows"
    /\ e \in conn.todo
    /\ \E b \in Bucket :
          journal' = IF Physical(e) /\ journal[e].phase \in Following \cup Over
                     THEN [journal EXCEPT ![e] =
                             Queued(@, <<@.phase, IF @.phase = "printing" THEN b ELSE 0>>)]
                     ELSE journal
    /\ conn' = [conn EXCEPT !.for = e, !.todo = @ \ {e},
                            !.at = IF journal[e].phase = "failed" /\ journal[e].event_keys = {}
                                   THEN "recover" ELSE "report"]
    /\ UNCHANGED <<queue, printer, faults>>

\* Any row that is active, read anew, ends the tick.
RowsReported ==
    /\ conn.at = "rows"
    /\ conn.todo = {}
    /\ IF \E e \in Entry : journal[e].phase \in ACTIVE
       THEN conn' = AtRest
       ELSE Goto("grants")
    /\ UNCHANGED <<queue, journal, printer, faults>>

\* Only a grant without a row gets one and is dispatched.
Reserve ==
    /\ conn.at = "grants"
    /\ IF \E e \in Grants : journal[e].phase = "none"
       THEN \E e \in Grants :
              /\ journal' = [journal EXCEPT ![e].phase = "validating"]
              /\ conn' = [conn EXCEPT !.at = "claim", !.for = e]
       ELSE conn' = AtRest /\ UNCHANGED journal
    /\ UNCHANGED <<queue, printer, faults>>

-----------------------------------------------------------------------------
(* The claim request                                                       *)

Claiming == conn.at \in {"claim", "recover"}

\* Made by a dispatch, or by a tick that found a row that never got an event.
ClaimArrives(s) ==
    /\ Claiming
    /\ conn.via = {}
    /\ BeginClaim(s, conn.for)
    /\ conn' = [conn EXCEPT !.via = {s}]
    /\ UNCHANGED <<journal, printer, faults>>

ClaimProceeds(s) ==
    /\ ReadStation(s)
    /\ UNCHANGED <<station_side, faults>>

\* A dispatch goes on or fails; a tick only queues the refusal it owes.
AfterClaim(won) ==
    IF conn.at = "claim"
    THEN /\ conn' = [conn EXCEPT !.via = {}, !.at = IF won THEN "prepare" ELSE "failed"]
         /\ UNCHANGED journal
    ELSE /\ conn' = [conn EXCEPT !.via = {}, !.at = "report"]
         /\ journal' = IF won
                       THEN [journal EXCEPT ![conn.for] = Queued(@, <<"refused", 0>>)]
                       ELSE journal

\* The server finishes whether or not the connector still waits for it.
ClaimEnds(s) ==
    /\ CommitClaim(s)
    /\ IF conn.via = {s}
       THEN AfterClaim(entry'[conn.for].status # entry[conn.for].status)
       ELSE UNCHANGED <<journal, conn>>
    /\ UNCHANGED <<printer, faults>>

\* Without a grant the claim is refused, unless it repeats one that succeeded.
ClaimAnswered ==
    /\ Claiming
    /\ conn.via = {}
    /\ conn.for \notin Grants
    /\ AfterClaim(entry[conn.for].status = "claimed")
    /\ UNCHANGED <<queue, printer, faults>>

\* No answer in time: the request never arrived, or its session goes on.
ClaimLost ==
    /\ Claiming
    /\ Fault
    /\ AfterClaim(FALSE)
    /\ UNCHANGED <<queue, printer>>

-----------------------------------------------------------------------------
(* Dispatch                                                                *)

\* Artifact, verification, wire file and a look at the printer.
Prepare ==
    /\ conn.at = "prepare"
    /\ \/ /\ entry[conn.for].status = "claimed"
          /\ machine.state \in Ready
          /\ Goto("intent")
          /\ UNCHANGED faults
       \/ Goto("failed") /\ Fault
    /\ UNCHANGED <<queue, journal, printer>>

\* The durable intent and the sent event are two writes of the journal.
WriteIntent ==
    /\ conn.at = "intent"
    /\ journal' = [journal EXCEPT ![conn.for].phase = "starting", ![conn.for].start_intent = TRUE]
    /\ Goto("queue")
    /\ UNCHANGED <<queue, printer, faults>>

QueueSent ==
    /\ conn.at = "queue"
    /\ journal' = [journal EXCEPT ![conn.for] = Queued(@, <<"sent", 0>>)]
    /\ Goto("ack")
    /\ UNCHANGED <<queue, printer, faults>>

\* The start request of upload_and_print.  No earlier one is still under way
\* after a whole upload (assumption).
SendStart ==
    /\ conn.at = "send"
    /\ machine.state \in Ready
    /\ wire = NoEntry
    /\ wire' = conn.for
    /\ starts' = [starts EXCEPT ![conn.for] = @ + 1]
    /\ Goto("wait")
    /\ UNCHANGED <<queue, journal, machine, bed, faults>>

\* No answer in time, or a printer that is no longer ready.
SendFails ==
    /\ conn.at \in {"send", "wait"}
    /\ IF machine.state \in Ready THEN Fault ELSE conn.at = "send" /\ UNCHANGED faults
    /\ Goto("failed")
    /\ UNCHANGED <<queue, journal, printer>>

StartAnswered ==
    /\ conn.at = "sent"
    /\ journal' = [journal EXCEPT ![conn.for] =
                     Queued([@ EXCEPT !.phase = "awaiting_start"], <<"awaiting_start", 0>>)]
    /\ Goto("last")
    /\ UNCHANGED <<queue, printer, faults>>

\* The handler of every exception in dispatch().
DispatchFailed ==
    LET e == conn.for
    IN  /\ conn.at = "failed"
        /\ journal' = [journal EXCEPT ![e] =
              IF Physical(e)
              THEN Queued([@ EXCEPT !.phase = "needs_attention"], <<"needs_attention", 0>>)
              ELSE Queued([@ EXCEPT !.phase = "failed"], <<"refused", 0>>)]
        /\ Goto("last")
        /\ UNCHANGED <<queue, printer, faults>>

-----------------------------------------------------------------------------
(* Delivering the outbox                                                   *)

Flushing == conn.at \in {"report", "ack", "last"}

Outbox == journal[conn.for].outbox

\* Faulty: the start request does not wait for the acknowledgement.
FlushedAnyway(ok) ==
    conn' = CASE conn.at = "report" -> [conn EXCEPT !.at = "rows", !.for = NoEntry]
              [] conn.at = "last" -> AtRest
              [] conn.at = "ack" -> [conn EXCEPT !.at = "send"]

\* flush() returns: dispatch() sends only when it delivered everything.
Flushed(ok) ==
    conn' = CASE conn.at = "report" -> [conn EXCEPT !.at = "rows", !.for = NoEntry]
              [] conn.at = "last" -> AtRest
              [] conn.at = "ack" -> [conn EXCEPT !.at = IF ok THEN "send" ELSE "failed"]

FlushEnds ==
    /\ Flushing
    /\ Outbox = <<>> \/ journal[conn.for].telemetry_error
    /\ Flushed(~journal[conn.for].telemetry_error)
    /\ UNCHANGED <<queue, journal, printer, faults>>

MayPost == Flushing /\ Outbox # <<>> /\ ~journal[conn.for].telemetry_error

Post ==
    LET id == Head(Outbox)
    IN  /\ MayPost
        /\ \/ RecordEvent(conn.for, id)
           \/ Known(conn.for, id) /\ UNCHANGED queue
        /\ journal' = [journal EXCEPT ![conn.for].outbox = Tail(@)]
        /\ UNCHANGED <<conn, printer, faults>>

\* 404 for an entry this station never claimed, 409 otherwise: the outbox of
\* the row is given up.
PostRejected ==
    LET id == Head(Outbox)
    IN  /\ MayPost
        /\ ~Known(conn.for, id)
        /\ ~Accepts(conn.for, id)
        /\ journal' = [journal EXCEPT ![conn.for].telemetry_error = TRUE]
        /\ Flushed(FALSE)
        /\ UNCHANGED <<queue, printer, faults>>

\* Faulty: an event leaves the outbox before it is acknowledged.
PostPopsFirst ==
    LET id == Head(Outbox)
    IN  /\ MayPost
        /\ RecordEvent(conn.for, id) \/ UNCHANGED queue
        /\ Flushed(FALSE)
        /\ Fault
        /\ journal' = [journal EXCEPT ![conn.for].outbox = Tail(@)]
        /\ UNCHANGED printer

\* The event was not delivered, or its answer was not: it stays in the outbox.
PostLost ==
    LET id == Head(Outbox)
    IN  /\ MayPost
        /\ RecordEvent(conn.for, id) \/ UNCHANGED queue
        /\ Flushed(FALSE)
        /\ Fault
        /\ UNCHANGED <<journal, printer>>

\* A tick's own request that gets no answer ends the tick.
TickLost ==
    /\ \/ conn.at = "beat" /\ (Heartbeat(conn.seen) \/ UNCHANGED queue)
       \/ conn.at = "grants" /\ UNCHANGED queue
    /\ conn' = AtRest
    /\ Fault
    /\ UNCHANGED <<journal, printer>>

-----------------------------------------------------------------------------
(* The printer, the monitor, the operator and the owner                    *)

\* External: a request that arrives starts its file on whatever is on the bed.
Accept ==
    /\ wire # NoEntry
    /\ machine.state \in Ready
    /\ machine' = [state |-> "heating", file |-> wire]
    /\ wire' = NoEntry
    /\ bed' = FALSE
    /\ conn' = IF conn.at = "wait" /\ conn.for = wire THEN [conn EXCEPT !.at = "sent"] ELSE conn
    /\ UNCHANGED <<queue, journal, starts, faults>>

\* External: lost on its way, or refused and answered so.
Drop ==
    /\ wire # NoEntry
    /\ wire' = NoEntry
    /\ conn' = IF conn.at = "wait" /\ conn.for = wire THEN [conn EXCEPT !.at = "failed"] ELSE conn
    /\ UNCHANGED <<queue, journal, machine, bed, starts, faults>>

\* External.
MachineStep(state) ==
    /\ \/ machine.state = "heating" /\ state = "printing"
       \/ machine.state = "printing" /\ state = "completed"
       \/ machine.state \in Running /\ state \in {"cancelled", "error"}
       \/ machine.state \in {"completed", "cancelled", "error"} /\ state = "idle"
    /\ machine' = [state |-> state, file |-> IF state = "idle" THEN NoEntry ELSE machine.file]
    /\ UNCHANGED <<queue, journal, conn, wire, bed, starts, faults>>

\* Faulty: an idle printer is believed at once.
VerdictsAtOnce(e) ==
    IF machine.file = e /\ machine.state \in {"heating", "printing", "completed", "cancelled"}
    THEN {IF machine.state = "heating" THEN "awaiting_start" ELSE machine.state}
    ELSE {"needs_attention"} \cup (IF machine.state = "idle" THEN {"stopped"} ELSE {})

\* What Station.reconcile makes of a fresh status.  Assumption: ninety seconds
\* after the intent the start request has arrived or been dropped; until then
\* another file decides nothing.  The code's clock does not see to it, since
\* it runs through the upload: PrintStation leaves it free.
Verdicts(e) ==
    IF machine.file = e /\ machine.state \in {"heating", "printing", "completed", "cancelled"}
    THEN {IF machine.state = "heating" THEN "awaiting_start" ELSE machine.state}
    ELSE IF machine.state = "error" \/ machine.file = e THEN {"needs_attention"}
    ELSE IF wire = e THEN {}
    ELSE {"needs_attention"} \cup (IF machine.state = "idle" THEN {"stopped"} ELSE {})

Monitor(e) ==
    /\ journal[e].phase \in Following
    /\ Physical(e)
    /\ \E phase \in Verdicts(e) : journal' = [journal EXCEPT ![e].phase = phase]
    /\ UNCHANGED <<queue, conn, printer, faults>>

\* The printer cannot be read.
Unreachable(e) ==
    /\ journal[e].phase \in {"awaiting_start", "printing"}
    /\ Fault
    /\ journal' = [journal EXCEPT ![e].phase = "needs_attention"]
    /\ UNCHANGED <<queue, conn, printer>>

\* The operator inspects a ready printer; a start request still under way
\* would be over by then (assumption).
Resolve(e) ==
    /\ journal[e].phase = "needs_attention"
    /\ machine.state \in Ready
    /\ wire # e
    /\ journal' = [journal EXCEPT ![e].phase = "resolved"]
    /\ UNCHANGED <<queue, conn, printer, faults>>

Restart ==
    /\ Fault
    /\ journal' = [e \in Entry |->
                     IF journal[e].phase \in ACTIVE
                     THEN [journal[e] EXCEPT !.phase = IF Physical(e) THEN "needs_attention"
                                                       ELSE "failed"]
                     ELSE journal[e]]
    /\ conn' = AtRest
    /\ UNCHANGED <<queue, printer>>

\* External: somebody takes the part off the plate.
RemovePart ==
    /\ ~bed
    /\ machine.state \notin Running
    /\ bed' = TRUE
    /\ UNCHANGED <<queue, journal, conn, machine, wire, starts, faults>>

\* The owner confirms what is true of the plate.
Clearance(s) ==
    /\ (\E e \in Entry : BeginClear(s, e) /\ bed) \/ CommitClear(s)
    /\ UNCHANGED <<station_side, faults>>

Admission(e) ==
    /\ Submit(e) \/ Admit(e) \/ Reject(e)
    /\ UNCHANGED <<station_side, faults>>

Lapse ==
    /\ TimePasses
    /\ Fault
    /\ UNCHANGED station_side

ConnectorStep ==
    \/ Tick \/ Beat \/ RowsReported \/ Reserve \/ ClaimAnswered
    \/ \E e \in Entry : ReportRow(e)
    \/ \E s \in Bridge : ClaimArrives(s)
    \/ Prepare \/ WriteIntent \/ QueueSent \/ SendStart \/ SendFails \/ StartAnswered
    \/ DispatchFailed \/ FlushEnds \/ Post \/ PostRejected

LinkNext ==
    \/ ConnectorStep
    \/ ClaimLost \/ PostLost \/ TickLost
    \/ \E s \in Bridge : ClaimProceeds(s) \/ ClaimEnds(s)
    \/ Accept \/ Drop \/ RemovePart \/ Restart \/ Lapse
    \/ \E state \in Ready \cup Running \cup {"error"} : MachineStep(state)
    \/ \E e \in Entry : Monitor(e) \/ Unreachable(e) \/ Resolve(e) \/ Admission(e)
    \/ \E s \in Tab : Clearance(s)

LinkSpec == LinkInit /\ [][LinkNext]_vars

-----------------------------------------------------------------------------
(* Properties                                                              *)

\* The start request of an entry is sent once, and only when the server has
\* recorded that it would be.
AcknowledgedBeforeSend ==
    \A e \in Entry : starts[e] <= 1 /\ (starts[e] = 1 => Known(e, <<"sent", 0>>))

\* The server calls an attempt finished, and gives the station to the next
\* entry, only when nothing of it runs or is on its way to the printer.
ServerNeverAhead ==
    \A e \in Entry :
       entry[e].status \in Terminal => wire # e /\ ~(machine.state \in Running /\ machine.file = e)

\* A print starts on a plate that nobody has printed on since somebody looked:
\* a clearance is used by one start only, whatever is lost or repeated.
PlateNeedsClearBed ==
    [][\A e \in Entry : machine'.file = e /\ machine'.state = "heating" /\ wire = e => bed]_vars

\* Somebody still has entry e in hand: the connector, the monitor or the
\* operator, an undelivered event, or the next tick, which reports a finished
\* row and recovers one that failed before its first event.
InHand(e) ==
    LET row == journal[e]
    IN  \/ conn.for = e
        \/ row.phase \in Following
        \/ row.outbox # <<>>
        \/ row.phase \in Over /\ <<row.phase, 0>> \notin row.event_keys
        \/ row.phase = "failed" /\ row.event_keys = {}

\* No crash and no lost request leaves the station reserved, or the head of
\* the queue blocked by its journal row, with nobody to move it, unless the
\* row tells the operator that the server rejected one of its events.
NobodyForgotten ==
    \A e \in Entry :
       \/ entry[e].status \in Held
       \/ entry[e].status = "approved" /\ journal[e].phase # "none"
       => InHand(e) \/ journal[e].telemetry_error
=============================================================================
