--------------------------- MODULE PresentationQueue ---------------------------
(***************************************************************************)
(* The free presentation queue as the API keeps it: one row per submitted  *)
(* model and one row for the station, changed by the buyer's submission,   *)
(* the owner's admission and plate clearance, the station's heartbeat, its *)
(* claim of the head entry and the events it reports.                      *)
(*                                                                         *)
(* A request reads rows and then writes with a comparison of what it read, *)
(* so clearance and claim are two steps or more.  An admission compares    *)
(* all it read and is one step; so is an event, which is written under the *)
(* lock of the rows it compares.  A row's version is only ever compared    *)
(* for equality: tx[s].fresh says that the version session s read is still *)
(* the row's.                                                              *)
(***************************************************************************)
EXTENDS Integers, FiniteSets

CONSTANTS
    Entry,     \* the submissions
    NoEntry,   \* the NULL of active_entry_id and clear_entry_id
    Tab,       \* the owner's clearance requests under way
    Bridge,    \* the station's claim requests under way
    Bucket     \* the progress buckets of a print

ASSUME EntryAssumption == NoEntry \notin Entry

ASSUME SessionAssumption == Tab \cap Bridge = {}

ASSUME BucketAssumption == Bucket \subseteq Nat /\ 0 \in Bucket

VARIABLES
    entry,     \* PresentationEntry rows: status, approved_at, recorded events
    station,   \* the PresentationStation row
    admitted,  \* the clock that approved_at is read from
    tx         \* the open clearance and claim requests

queue == <<entry, station, admitted, tx>>

-----------------------------------------------------------------------------
(* Vocabulary                                                              *)

Held == {"claimed", "starting", "printing", "needs_attention"}

Terminal == {"completed", "rejected", "cancelled", "stopped", "refused"}

Status == {"none", "waiting", "approved"} \cup Held \cup Terminal

Observation == {"sent", "awaiting_start", "printing", "completed", "cancelled",
                "stopped", "refused", "needs_attention", "resolved"}

\* An event id: one per observed state, for a print one per bucket.
EventId == Observation \X Bucket

\* Faulty: an inspected attempt returns to the queue, as a paid plate may.
StatusRequeued(observed) ==
    CASE observed \in {"sent", "awaiting_start"} -> "starting"
      [] observed = "resolved" -> "approved"
      [] OTHER -> observed

\* Faulty: the observation is stored as it is.
StatusCopied(observed) == IF observed = "sent" THEN "starting" ELSE observed

\* The status an observation gives the entry.
StatusAfter(observed) ==
    CASE observed \in {"sent", "awaiting_start"} -> "starting"
      [] observed = "resolved" -> "stopped"
      [] OTHER -> observed

Follows(status, observed) ==
    \/ status = "claimed" /\ observed \in {"sent", "refused"}
    \/ /\ status = "starting"
       /\ observed \in {"awaiting_start", "printing", "completed", "cancelled", "stopped",
                        "needs_attention"}
    \/ /\ status = "printing"
       /\ observed \in {"printing", "completed", "cancelled", "stopped", "needs_attention"}
    \/ /\ status = "needs_attention"
       /\ observed \in {"needs_attention", "printing", "completed", "cancelled", "stopped",
                        "resolved"}

Row == [status : Status, approved_at : Nat, events : SUBSET EventId]

\* seen is the reported state, "offline" too when the heartbeat is 30 seconds
\* old; recent says that the clearance is less than five minutes old.
Seen == {"ready", "busy", "offline"}

StationRow == [active : Entry \cup {NoEntry}, clear : Entry \cup {NoEntry},
               seen : Seen, recent : BOOLEAN]

Session == Tab \cup Bridge

Tx == [at : {"idle", "clear", "granted", "claim"}, for : Entry \cup {NoEntry}, fresh : BOOLEAN]

Idle == [at |-> "idle", for |-> NoEntry, fresh |-> FALSE]

QueueTypeOK ==
    /\ entry \in [Entry -> Row]
    /\ station \in StationRow
    /\ admitted \in Nat
    /\ tx \in [Session -> Tx]

QueueInit ==
    /\ entry = [e \in Entry |-> [status |-> "none", approved_at |-> 0, events |-> {}]]
    /\ station = [active |-> NoEntry, clear |-> NoEntry, seen |-> "offline", recent |-> FALSE]
    /\ admitted = 0
    /\ tx = [s \in Session |-> Idle]

\* The entry that head() selects.
IsHead(e) ==
    /\ entry[e].status = "approved"
    /\ \A k \in Entry : entry[k].status = "approved" => entry[e].approved_at <= entry[k].approved_at

\* A write of the station row that increments its version: s is done, and
\* what the other requests read is old.
StationWritten(s) ==
    tx' = [x \in Session |-> IF x = s THEN Idle ELSE [tx[x] EXCEPT !.fresh = FALSE]]

Rollback(s) ==
    /\ tx' = [tx EXCEPT ![s] = Idle]
    /\ UNCHANGED <<entry, station, admitted>>

-----------------------------------------------------------------------------
(* Buyer and owner                                                         *)

\* A repeated submission returns the row; a stale estimate or a slice that
\* does not match is refused.
Submit(e) ==
    /\ entry[e].status = "none"
    /\ entry' = [entry EXCEPT ![e].status = "waiting"]
    /\ UNCHANGED <<station, admitted, tx>>

Admit(e) ==
    /\ entry[e].status = "waiting"
    /\ admitted' = admitted + 1
    /\ entry' = [entry EXCEPT ![e].status = "approved", ![e].approved_at = admitted + 1]
    /\ UNCHANGED <<station, tx>>

Reject(e) ==
    /\ entry[e].status = "waiting"
    /\ admitted' = admitted + 1
    /\ entry' = [entry EXCEPT ![e].status = "rejected", ![e].approved_at = admitted + 1]
    /\ UNCHANGED <<station, tx>>

BeginClear(s, e) ==
    /\ tx[s] = Idle
    /\ IsHead(e)
    /\ station.active = NoEntry
    /\ station.seen = "ready"
    /\ tx' = [tx EXCEPT ![s] = [at |-> "clear", for |-> e, fresh |-> TRUE]]
    /\ UNCHANGED <<entry, station, admitted>>

\* Faulty: the clearance is written without comparing the station's version.
ClearUnversioned(s) ==
    /\ tx[s].at = "clear"
    /\ station' = [station EXCEPT !.clear = tx[s].for, !.recent = TRUE]
    /\ StationWritten(s)
    /\ UNCHANGED <<entry, admitted>>

CommitClear(s) ==
    /\ tx[s].at = "clear"
    /\ IF tx[s].fresh /\ station.active = NoEntry
       THEN /\ station' = [station EXCEPT !.clear = tx[s].for, !.recent = TRUE]
            /\ StationWritten(s)
            /\ UNCHANGED <<entry, admitted>>
       ELSE Rollback(s)

-----------------------------------------------------------------------------
(* The station's requests                                                  *)

\* Heartbeats do not modify the version.
Heartbeat(seen) ==
    /\ station' = [station EXCEPT !.seen = seen]
    /\ UNCHANGED <<entry, admitted, tx>>

\* Thirty seconds without a heartbeat, or five minutes after the clearance.
TimePasses ==
    /\ \/ station.seen # "offline" /\ station' = [station EXCEPT !.seen = "offline"]
       \/ station.recent /\ station' = [station EXCEPT !.recent = FALSE]
    /\ UNCHANGED <<entry, admitted, tx>>

Grants ==
    {e \in Entry : /\ station.active = NoEntry
                   /\ IsHead(e)
                   /\ station.seen = "ready"
                   /\ station.clear = e
                   /\ station.recent}

BeginClaim(s, e) ==
    /\ tx[s] = Idle
    /\ e \in Grants
    /\ tx' = [tx EXCEPT ![s] = [at |-> "granted", for |-> e, fresh |-> FALSE]]
    /\ UNCHANGED <<entry, station, admitted>>

\* The station row is read again after grants() has read it.
ReadStation(s) ==
    /\ tx[s].at = "granted"
    /\ tx' = [tx EXCEPT ![s].at = "claim", ![s].fresh = TRUE]
    /\ UNCHANGED <<entry, station, admitted>>

Claimed(e) ==
    /\ station' = [station EXCEPT !.active = e, !.clear = NoEntry, !.recent = FALSE]
    /\ entry' = [entry EXCEPT ![e].status = "claimed"]

\* Both rows are compared and written in one transaction.
CommitClaim(s) ==
    LET e == tx[s].for
    IN  /\ tx[s].at = "claim"
        /\ IF tx[s].fresh /\ station.active = NoEntry /\ station.clear = e
              /\ entry[e].status = "approved"
           THEN Claimed(e) /\ StationWritten(s) /\ UNCHANGED admitted
           ELSE Rollback(s)

\* An event id that is recorded is answered without a second effect.
Known(e, id) == id \in entry[e].events

Accepts(e, id) ==
    /\ ~Known(e, id)
    /\ entry[e].status \notin Terminal
    /\ station.active = e
    /\ Follows(entry[e].status, id[1])

\* A terminal event releases the station and consumes what clearance is left.
RecordEvent(e, id) ==
    LET after == StatusAfter(id[1])
    IN  /\ Accepts(e, id)
        /\ entry' = [entry EXCEPT ![e].status = after, ![e].events = @ \cup {id}]
        /\ IF after \in Terminal
           THEN /\ station' = [station EXCEPT !.active = NoEntry, !.clear = NoEntry,
                                              !.recent = FALSE]
                /\ tx' = [x \in Session |-> [tx[x] EXCEPT !.fresh = FALSE]]
           ELSE UNCHANGED <<station, tx>>
        /\ UNCHANGED admitted

QueueNext ==
    \/ \E e \in Entry : Submit(e) \/ Admit(e) \/ Reject(e)
    \/ \E s \in Tab : (\E e \in Entry : BeginClear(s, e)) \/ CommitClear(s)
    \/ \E s \in Bridge : (\E e \in Entry : BeginClaim(s, e)) \/ ReadStation(s) \/ CommitClaim(s)
    \/ \E s \in Session : tx[s] # Idle /\ Rollback(s)
    \/ \E seen \in Seen : Heartbeat(seen)
    \/ TimePasses
    \/ \E e \in Entry, id \in EventId : RecordEvent(e, id)

QueueSpec == QueueInit /\ [][QueueNext]_queue

-----------------------------------------------------------------------------
(* Properties                                                              *)

\* The station row and the entry rows, written by separate statements, name
\* the same reservation: the active entry is the one that is claimed and not
\* finished.  A clearance never outlives the reservation it led to.
ReservationAgrees ==
    /\ \A e \in Entry : entry[e].status \in Held <=> station.active = e
    /\ station.active # NoEntry => station.clear = NoEntry

\* How far the plate of an entry has got.
PlateOf(e) ==
    CASE entry[e].status \in {"none", "waiting", "approved", "rejected"} -> "waiting"
      [] entry[e].status = "claimed" -> "reserved"
      [] entry[e].status \in {"starting", "printing", "needs_attention"} -> "committed"
      [] OTHER -> "finished"

Plate == INSTANCE PlateLifecycle WITH Job <- Entry, plate <- [e \in Entry |-> PlateOf(e)]

\* The presentation queue keeps the promise of the paid production line.
ImplementsPlateLifecycle == Plate!Spec
=============================================================================
