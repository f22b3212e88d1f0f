--------------------------- MODULE Presentation_proofs ---------------------------
(***************************************************************************)
(* Proofs about the presentation queue for any number of entries, owner    *)
(* tabs and claim requests.                                                *)
(*                                                                         *)
(* First PresentationQueue alone: the station row and the entry rows       *)
(* agree, and the queue implements PlateLifecycle.  Then PresentationLink, *)
(* for any number of faults: its steps are steps of the queue, and LinkInv *)
(* carries what the connector, the journal, the printer and the server say *)
(* of each other, from which its safety properties follow.                 *)
(***************************************************************************)
EXTENDS PresentationLink, SequenceTheorems, TLAPS

\* A request under way is about an entry.
RequestsNameEntries == \A s \in Session : tx[s].at # "idle" => tx[s].for \in Entry

\* ReservationAgrees is inductive once requests are known to name entries: a
\* claim compares the cleared entry with its own, and both could be NULL.
QueueInv == QueueTypeOK /\ RequestsNameEntries /\ ReservationAgrees

-----------------------------------------------------------------------------
(* Rows keep their types                                                   *)

LEMMA IdleTyped == Idle \in Tx
  BY DEF Idle, Tx

LEMMA EntryUpdated ==
    ASSUME NEW table \in [Entry -> Row], NEW e \in Entry, NEW status \in Status,
           NEW n \in Nat, NEW id \in EventId
    PROVE  /\ [table EXCEPT ![e].status = status] \in [Entry -> Row]
           /\ [table EXCEPT ![e].status = status, ![e].approved_at = n] \in [Entry -> Row]
           /\ [table EXCEPT ![e].status = status, ![e].events = @ \cup {id}] \in [Entry -> Row]
<1>1. [table[e] EXCEPT !.status = status] \in Row
  BY DEF Row
<1>2. [[table[e] EXCEPT !.status = status] EXCEPT !.approved_at = n] \in Row
  BY DEF Row
<1>3. [[table[e] EXCEPT !.status = status] EXCEPT !.events = @ \cup {id}] \in Row
  BY DEF Row
<1> QED
  BY <1>1, <1>2, <1>3

\* What a recorded observation makes of an entry's status.
LEMMA ObservedStatus ==
    ASSUME NEW status, NEW id \in EventId, Follows(status, id[1])
    PROVE  /\ status \in Held
           /\ StatusAfter(id[1]) \in (Held \ {"claimed"}) \cup (Terminal \ {"rejected"})
           /\ StatusAfter(id[1]) \in Status
  BY DEF EventId, Observation, Follows, StatusAfter, Held, Terminal, Status

LEMMA Disjoint == Held \cap Terminal = {}
  BY DEF Held, Terminal

\* Requests after a write of the station row, or after an event released it.
LEMMA RequestsStaled ==
    ASSUME NEW s \in Session, tx \in [Session -> Tx], RequestsNameEntries
    PROVE  /\ StationWritten(s) => tx' \in [Session -> Tx] /\ RequestsNameEntries'
           /\ tx' = [x \in Session |-> [tx[x] EXCEPT !.fresh = FALSE]]
                => tx' \in [Session -> Tx] /\ RequestsNameEntries'
           /\ tx' = [tx EXCEPT ![s] = Idle] => tx' \in [Session -> Tx] /\ RequestsNameEntries'
<1>1. \A x \in Session : /\ [tx[x] EXCEPT !.fresh = FALSE] \in Tx
                         /\ [tx[x] EXCEPT !.fresh = FALSE].at = tx[x].at
                         /\ [tx[x] EXCEPT !.fresh = FALSE].for = tx[x].for
  BY DEF Tx
<1>2. Idle.at = "idle"
  BY DEF Idle
<1>3. ASSUME StationWritten(s) PROVE tx' \in [Session -> Tx] /\ RequestsNameEntries'
  BY <1>1, <1>2, <1>3, IdleTyped DEF StationWritten, RequestsNameEntries
<1>4. ASSUME tx' = [x \in Session |-> [tx[x] EXCEPT !.fresh = FALSE]]
      PROVE  tx' \in [Session -> Tx] /\ RequestsNameEntries'
  BY <1>1, <1>4 DEF RequestsNameEntries
<1>5. ASSUME tx' = [tx EXCEPT ![s] = Idle]
      PROVE  tx' \in [Session -> Tx] /\ RequestsNameEntries'
  BY <1>2, <1>5, IdleTyped DEF RequestsNameEntries
<1> QED
  BY <1>3, <1>4, <1>5

-----------------------------------------------------------------------------
(* The invariant                                                           *)

LEMMA Initially == QueueInit => QueueInv
<1> SUFFICES ASSUME QueueInit PROVE QueueInv
  OBVIOUS
<1>1. entry \in [Entry -> Row]
  BY DEF QueueInit, Row, Status
<1>2. station \in StationRow
  BY DEF QueueInit, StationRow, Seen
<1>3. tx \in [Session -> Tx] /\ RequestsNameEntries
  BY IdleTyped DEF QueueInit, RequestsNameEntries, Idle
<1>4. ReservationAgrees
  BY EntryAssumption DEF QueueInit, ReservationAgrees, Held
<1> QED
  BY <1>1, <1>2, <1>3, <1>4 DEF QueueInv, QueueTypeOK, QueueInit

\* Buyer and owner change the status of entries that hold nothing.
LEMMA WaitingListKeeps ==
    ASSUME QueueInv, NEW e \in Entry, Submit(e) \/ Admit(e) \/ Reject(e)
    PROVE  QueueInv'
<1> USE DEF QueueInv, QueueTypeOK
<1>1. PICK status \in Status \ Held, n \in Nat :
         /\ entry' = [entry EXCEPT ![e].status = status]
            \/ entry' = [entry EXCEPT ![e].status = status, ![e].approved_at = n]
         /\ entry[e].status \notin Held
         /\ admitted' \in Nat
         /\ UNCHANGED <<station, tx>>
  <2> admitted + 1 \in Nat
    OBVIOUS
  <2> "waiting" \in Status \ Held /\ "approved" \in Status \ Held /\ "rejected" \in Status \ Held
    BY DEF Status, Held, Terminal
  <2>1. CASE Submit(e)
    BY <2>1, 0 \in Nat DEF Submit, Held
  <2>2. CASE Admit(e)
    <3>1. entry[e].status \notin Held
      BY <2>2 DEF Admit, Held
    <3>2. /\ entry' = [entry EXCEPT ![e].status = "approved", ![e].approved_at = admitted + 1]
          /\ admitted' \in Nat /\ UNCHANGED <<station, tx>>
      BY <2>2 DEF Admit
    <3> QED
      BY <3>1, <3>2
  <2>3. CASE Reject(e)
    <3>1. entry[e].status \notin Held
      BY <2>3 DEF Reject, Held
    <3>2. /\ entry' = [entry EXCEPT ![e].status = "rejected", ![e].approved_at = admitted + 1]
          /\ admitted' \in Nat /\ UNCHANGED <<station, tx>>
      BY <2>3 DEF Reject
    <3> QED
      BY <3>1, <3>2
  <2> QED
    BY <2>1, <2>2, <2>3
<1>2. entry' \in [Entry -> Row]
  <2>1. <<"sent", 0>> \in EventId
    BY BucketAssumption DEF EventId, Observation
  <2>2. entry \in [Entry -> Row] /\ status \in Status
    OBVIOUS
  <2>3. /\ [entry EXCEPT ![e].status = status] \in [Entry -> Row]
        /\ [entry EXCEPT ![e].status = status, ![e].approved_at = n] \in [Entry -> Row]
    BY <2>1, <2>2, EntryUpdated
  <2> QED
    BY <1>1, <2>3
<1>3. \A k \in Entry : entry'[k].status = IF k = e THEN status ELSE entry[k].status
  BY <1>1 DEF Row
<1>4. ReservationAgrees'
  BY <1>1, <1>3 DEF ReservationAgrees
<1>5. RequestsNameEntries'
  BY <1>1 DEF RequestsNameEntries
<1> QED
  BY <1>1, <1>2, <1>4, <1>5

LEMMA RollbackKeeps ==
    ASSUME QueueInv, NEW s \in Session, Rollback(s)
    PROVE  QueueInv'
  BY RequestsStaled DEF QueueInv, QueueTypeOK, Rollback, ReservationAgrees

\* A clearance is written while the station is free.
LEMMA ClearanceKeeps ==
    ASSUME QueueInv, NEW s \in Session,
           CommitClear(s) \/ \E e \in Entry : BeginClear(s, e)
    PROVE  QueueInv'
<1> USE DEF QueueInv, QueueTypeOK
<1>1. CASE \E e \in Entry : BeginClear(s, e)
  <2>1. PICK e \in Entry : BeginClear(s, e)
    BY <1>1
  <2>2. [at |-> "clear", for |-> e, fresh |-> TRUE] \in Tx
    BY DEF Tx
  <2> QED
    BY <2>1, <2>2 DEF BeginClear, ReservationAgrees, RequestsNameEntries
<1>2. CASE CommitClear(s) /\ tx[s].fresh /\ station.active = NoEntry
  <2>1. station' = [station EXCEPT !.clear = tx[s].for, !.recent = TRUE]
        /\ StationWritten(s) /\ UNCHANGED <<entry, admitted>>
    BY <1>2 DEF CommitClear
  <2>2. station' \in StationRow /\ station'.active = station.active
    <3>1. tx[s].for \in Entry \cup {NoEntry}
      BY DEF Tx
    <3> QED
      BY <2>1, <3>1 DEF StationRow
  <2>3. ReservationAgrees'
    BY <1>2, <2>1, <2>2 DEF ReservationAgrees
  <2> QED
    BY <2>1, <2>2, <2>3, RequestsStaled
<1>3. CASE CommitClear(s) /\ ~(tx[s].fresh /\ station.active = NoEntry)
  BY <1>3, RollbackKeeps DEF CommitClear
<1> QED
  BY <1>1, <1>2, <1>3

\* The claim reserves the entry that was cleared, and only on a free station.
LEMMA ClaimFacts ==
    ASSUME QueueInv, NEW s \in Session, CommitClaim(s),
           tx[s].fresh, station.active = NoEntry, station.clear = tx[s].for,
           entry[tx[s].for].status = "approved"
    PROVE  /\ tx[s].for \in Entry
           /\ station' \in StationRow /\ station'.active = tx[s].for /\ station'.clear = NoEntry
           /\ entry' \in [Entry -> Row]
           /\ \A k \in Entry :
                 entry'[k].status = IF k = tx[s].for THEN "claimed" ELSE entry[k].status
           /\ StationWritten(s) /\ UNCHANGED admitted
<1> USE DEF QueueInv, QueueTypeOK
<1> DEFINE e == tx[s].for
<1>1. tx[s].at = "claim" /\ Claimed(e) /\ StationWritten(s) /\ UNCHANGED admitted
  BY DEF CommitClaim
<1>2. e \in Entry
  BY <1>1 DEF RequestsNameEntries
<1>3. station' \in StationRow /\ station'.active = e /\ station'.clear = NoEntry
  BY <1>1, <1>2 DEF Claimed, StationRow
<1>4. entry' = [entry EXCEPT ![e].status = "claimed"]
  BY <1>1 DEF Claimed
<1>5. [entry[e] EXCEPT !.status = "claimed"] \in Row
  BY <1>2 DEF Row, Status, Held
<1>6. entry' \in [Entry -> Row]
  BY <1>2, <1>4, <1>5
<1>7. \A k \in Entry : entry'[k].status = IF k = e THEN "claimed" ELSE entry[k].status
  BY <1>2, <1>4 DEF Row
<1> QED
  BY <1>1, <1>2, <1>3, <1>6, <1>7

LEMMA ClaimKeeps ==
    ASSUME QueueInv, NEW s \in Session,
           ReadStation(s) \/ CommitClaim(s) \/ \E e \in Entry : BeginClaim(s, e)
    PROVE  QueueInv'
<1> USE DEF QueueInv, QueueTypeOK
<1>1. CASE \E e \in Entry : BeginClaim(s, e)
  <2>1. PICK e \in Entry : BeginClaim(s, e)
    BY <1>1
  <2>2. [at |-> "granted", for |-> e, fresh |-> FALSE] \in Tx
    BY DEF Tx
  <2> QED
    BY <2>1, <2>2 DEF BeginClaim, ReservationAgrees, RequestsNameEntries
<1>2. CASE ReadStation(s)
  <2>1. [[tx[s] EXCEPT !.at = "claim"] EXCEPT !.fresh = TRUE] \in Tx
    BY DEF Tx
  <2>2. tx' = [tx EXCEPT ![s] = [[tx[s] EXCEPT !.at = "claim"] EXCEPT !.fresh = TRUE]]
    BY <1>2 DEF ReadStation
  <2>3. tx[s].for \in Entry
    BY <1>2 DEF ReadStation, RequestsNameEntries
  <2>4. \A x \in Session : tx'[x].for = tx[x].for /\ (x # s => tx'[x] = tx[x])
    BY <2>2 DEF Tx
  <2>5. RequestsNameEntries'
    BY <2>3, <2>4 DEF RequestsNameEntries
  <2> QED
    BY <1>2, <2>1, <2>2, <2>5 DEF ReadStation, ReservationAgrees
<1>3. CASE CommitClaim(s) /\ tx[s].fresh /\ station.active = NoEntry
           /\ station.clear = tx[s].for /\ entry[tx[s].for].status = "approved"
  <2>1. ReservationAgrees'
    BY <1>3, ClaimFacts, EntryAssumption DEF ReservationAgrees, Held
  <2> QED
    BY <1>3, <2>1, ClaimFacts, RequestsStaled
<1>4. CASE CommitClaim(s) /\ ~(/\ tx[s].fresh /\ station.active = NoEntry
                               /\ station.clear = tx[s].for
                               /\ entry[tx[s].for].status = "approved")
  BY <1>4, RollbackKeeps DEF CommitClaim
<1> QED
  BY <1>1, <1>2, <1>3, <1>4

\* Heartbeats and the passing of time leave the reservation alone.
LEMMA StationReportsKeep ==
    ASSUME QueueInv, TimePasses \/ \E seen \in Seen : Heartbeat(seen)
    PROVE  QueueInv'
<1> USE DEF QueueInv, QueueTypeOK
<1>1. station' \in StationRow /\ station'.active = station.active /\ station'.clear = station.clear
  BY DEF TimePasses, Heartbeat, StationRow, Seen
<1>2. UNCHANGED <<entry, admitted, tx>>
  BY DEF TimePasses, Heartbeat
<1> QED
  BY <1>1, <1>2 DEF ReservationAgrees, RequestsNameEntries

\* What an event makes of the rows.
LEMMA EventFacts ==
    ASSUME QueueInv, NEW e \in Entry, NEW id \in EventId, RecordEvent(e, id)
    PROVE  /\ entry' \in [Entry -> Row]
           /\ \A k \in Entry :
                 entry'[k].status = IF k = e THEN StatusAfter(id[1]) ELSE entry[k].status
           /\ station.active = e /\ Follows(entry[e].status, id[1])
           /\ station' \in StationRow
           /\ IF StatusAfter(id[1]) \in Terminal
              THEN station'.active = NoEntry /\ station'.clear = NoEntry
              ELSE station' = station
<1> USE DEF QueueInv, QueueTypeOK
<1>1. station.active = e /\ Follows(entry[e].status, id[1])
  BY DEF RecordEvent, Accepts
<1>2. StatusAfter(id[1]) \in Status
  BY <1>1, ObservedStatus
<1>3. entry' = [entry EXCEPT ![e].status = StatusAfter(id[1]), ![e].events = @ \cup {id}]
  BY DEF RecordEvent
<1>4. entry' \in [Entry -> Row]
  BY <1>2, <1>3, EntryUpdated, 0 \in Nat
<1>5. \A k \in Entry : entry'[k].status = IF k = e THEN StatusAfter(id[1]) ELSE entry[k].status
  BY <1>3 DEF Row
<1>6. CASE StatusAfter(id[1]) \in Terminal
  <2>1. station' = [station EXCEPT !.active = NoEntry, !.clear = NoEntry, !.recent = FALSE]
    BY <1>6 DEF RecordEvent
  <2> QED
    BY <1>1, <1>4, <1>5, <1>6, <2>1 DEF StationRow
<1>7. CASE StatusAfter(id[1]) \notin Terminal
  BY <1>1, <1>4, <1>5, <1>7 DEF RecordEvent
<1> QED
  BY <1>6, <1>7

LEMMA EventKeeps ==
    ASSUME QueueInv, NEW e \in Entry, NEW id \in EventId, RecordEvent(e, id)
    PROVE  QueueInv'
<1> USE DEF QueueInv, QueueTypeOK
<1>1. ReservationAgrees'
  <2>1. StatusAfter(id[1]) \in Held \cup Terminal
    BY EventFacts, ObservedStatus
  <2>2. \A k \in Entry : k # e => entry[k].status \notin Held
    BY EventFacts DEF ReservationAgrees
  <2>3. station.clear = NoEntry
    BY EventFacts, EntryAssumption DEF ReservationAgrees
  <2> QED
    BY <2>1, <2>2, <2>3, EventFacts, EntryAssumption, Disjoint DEF ReservationAgrees
<1>2. admitted' = admitted
  BY DEF RecordEvent
<1>3. tx' \in [Session -> Tx] /\ RequestsNameEntries'
  <2>1. CASE UNCHANGED tx
    BY <2>1 DEF RequestsNameEntries
  <2>2. CASE tx' = [x \in Session |-> [tx[x] EXCEPT !.fresh = FALSE]]
    <3>1. CASE Session = {}
      BY <2>2, <3>1 DEF RequestsNameEntries
    <3>2. CASE \E s \in Session : TRUE
      BY <2>2, <3>2, RequestsStaled
    <3> QED
      BY <3>1, <3>2
  <2> QED
    BY <2>1, <2>2 DEF RecordEvent
<1> QED
  BY <1>1, <1>2, <1>3, EventFacts

LEMMA Inductive == QueueInv /\ [QueueNext]_queue => QueueInv'
<1> SUFFICES ASSUME QueueInv, [QueueNext]_queue PROVE QueueInv'
  OBVIOUS
<1>1. CASE \E e \in Entry : Submit(e) \/ Admit(e) \/ Reject(e)
  BY <1>1, WaitingListKeeps
<1>2. CASE \E s \in Tab : (\E e \in Entry : BeginClear(s, e)) \/ CommitClear(s)
  BY <1>2, ClearanceKeeps DEF Session
<1>3. CASE \E s \in Bridge :
             (\E e \in Entry : BeginClaim(s, e)) \/ ReadStation(s) \/ CommitClaim(s)
  BY <1>3, ClaimKeeps DEF Session
<1>4. CASE \E s \in Session : tx[s] # Idle /\ Rollback(s)
  BY <1>4, RollbackKeeps
<1>5. CASE TimePasses \/ \E seen \in Seen : Heartbeat(seen)
  BY <1>5, StationReportsKeep
<1>6. CASE \E e \in Entry, id \in EventId : RecordEvent(e, id)
  BY <1>6, EventKeeps
<1>7. CASE UNCHANGED queue
  BY <1>7 DEF queue, QueueInv, QueueTypeOK, RequestsNameEntries, ReservationAgrees
<1> QED
  BY <1>1, <1>2, <1>3, <1>4, <1>5, <1>6, <1>7 DEF QueueNext

LEMMA Invariant == QueueSpec => []QueueInv
  BY Initially, Inductive, PTL DEF QueueSpec

\* Every row of the queue keeps its type.
THEOREM TypeCorrect == QueueSpec => []QueueTypeOK
  BY Invariant, PTL DEF QueueInv

\* The station row and the entry rows name the same reservation, however many
\* owner tabs clear plates and however many claims overlap.
THEOREM ReservationHolds == QueueSpec => []ReservationAgrees
  BY Invariant, PTL DEF QueueInv

-----------------------------------------------------------------------------
(* Refinement                                                              *)

PlateTable == [e \in Entry |-> PlateOf(e)]

\* An entry is on the printer exactly while it is held.
LEMMA HeldIsOnPrinter ==
    ASSUME QueueTypeOK, NEW e \in Entry
    PROVE  /\ PlateOf(e) \in {"reserved", "committed"} <=> entry[e].status \in Held
           /\ entry[e].status = "claimed" => PlateOf(e) = "reserved"
           /\ entry[e].status \in Held \ {"claimed"} => PlateOf(e) = "committed"
           /\ entry[e].status = "approved" => PlateOf(e) = "waiting"
<1>1. entry[e].status \in Status
  BY DEF QueueTypeOK, Row
<1> QED
  BY <1>1 DEF PlateOf, Held, Status, Terminal

\* An entry whose status is not written keeps its plate.
LEMMA SameStatusSamePlate ==
    ASSUME NEW e \in Entry, entry'[e].status = entry[e].status
    PROVE  PlateOf(e)' = PlateOf(e)
  BY DEF PlateOf

LEMMA OnlyOneMoves ==
    ASSUME NEW e \in Entry,
           \A k \in Entry \ {e} : entry'[k].status = entry[k].status
    PROVE  PlateTable' = [PlateTable EXCEPT ![e] = PlateOf(e)']
  BY SameStatusSamePlate DEF PlateTable

LEMMA WaitingListStutters ==
    ASSUME QueueInv, NEW e \in Entry, Submit(e) \/ Admit(e) \/ Reject(e)
    PROVE  PlateTable' = PlateTable
<1>1. /\ entry[e].status \in {"none", "waiting"}
      /\ entry'[e].status \in {"waiting", "approved", "rejected"}
      /\ \A k \in Entry \ {e} : entry'[k].status = entry[k].status
  BY DEF Submit, Admit, Reject, QueueInv, QueueTypeOK, Row
<1>2. PlateOf(e)' = "waiting" /\ PlateOf(e) = "waiting"
  BY <1>1 DEF PlateOf
<1> QED
  BY <1>1, <1>2, OnlyOneMoves DEF PlateTable

LEMMA ClaimReserves ==
    ASSUME QueueInv, NEW s \in Session, CommitClaim(s)
    PROVE  (\E e \in Entry : Plate!Reserve(e)) \/ PlateTable' = PlateTable
<1>1. CASE /\ tx[s].fresh /\ station.active = NoEntry
           /\ station.clear = tx[s].for /\ entry[tx[s].for].status = "approved"
  <2>1. PICK e \in Entry : e = tx[s].for
    BY <1>1, ClaimFacts
  <2>2. \A k \in Entry : entry'[k].status = IF k = e THEN "claimed" ELSE entry[k].status
    BY <1>1, <2>1, ClaimFacts
  <2>3. PlateTable[e] = "waiting"
    BY <1>1, <2>1, HeldIsOnPrinter DEF PlateTable, QueueInv
  <2>4. \A k \in Entry : PlateTable[k] \notin {"reserved", "committed"}
    BY <1>1, HeldIsOnPrinter, EntryAssumption DEF PlateTable, QueueInv, ReservationAgrees
  <2>5. PlateOf(e)' = "reserved"
    BY <2>2 DEF PlateOf
  <2>6. PlateTable' = [PlateTable EXCEPT ![e] = "reserved"]
    BY <2>2, <2>5, OnlyOneMoves
  <2>7. Plate!Reserve(e)
    BY <2>3, <2>4, <2>6 DEF Plate!Reserve, Plate!OnPrinter, PlateTable
  <2> QED
    BY <2>7
<1>2. CASE ~(/\ tx[s].fresh /\ station.active = NoEntry
             /\ station.clear = tx[s].for /\ entry[tx[s].for].status = "approved")
  <2>1. entry' = entry
    BY <1>2 DEF CommitClaim, Rollback
  <2> QED
    BY <2>1, SameStatusSamePlate DEF PlateTable
<1> QED
  BY <1>1, <1>2

LEMMA EventMovesPlate ==
    ASSUME QueueInv, NEW e \in Entry, NEW id \in EventId, RecordEvent(e, id)
    PROVE  Plate!Commit(e) \/ Plate!Finish(e) \/ PlateTable' = PlateTable
<1> DEFINE after == StatusAfter(id[1])
<1>1. /\ \A k \in Entry : entry'[k].status = IF k = e THEN after ELSE entry[k].status
      /\ Follows(entry[e].status, id[1])
  BY EventFacts
<1>2. /\ entry[e].status \in Held
      /\ after \in (Held \ {"claimed"}) \cup (Terminal \ {"rejected"})
  BY <1>1, ObservedStatus
<1>3. PlateTable' = [PlateTable EXCEPT ![e] = PlateOf(e)']
  BY <1>1, OnlyOneMoves
<1>4. PlateTable[e] = IF entry[e].status = "claimed" THEN "reserved" ELSE "committed"
  BY <1>2, HeldIsOnPrinter DEF PlateTable, QueueInv
<1>5. CASE after \in Held \ {"claimed"}
  <2>1. PlateOf(e)' = "committed"
    BY <1>1, <1>5 DEF PlateOf, Held
  <2>2. CASE entry[e].status = "claimed"
    BY <1>3, <1>4, <2>1, <2>2 DEF Plate!Commit, PlateTable
  <2>3. CASE entry[e].status # "claimed"
    BY <1>3, <1>4, <2>1, <2>3 DEF PlateTable
  <2> QED
    BY <2>2, <2>3
<1>6. CASE after \in Terminal \ {"rejected"}
  <2>1. PlateOf(e)' = "finished"
    BY <1>1, <1>6 DEF PlateOf, Terminal
  <2> QED
    BY <1>3, <1>4, <2>1 DEF Plate!Finish, Plate!OnPrinter, PlateTable
<1> QED
  BY <1>2, <1>5, <1>6

LEMMA StepsMap ==
    ASSUME QueueInv, [QueueNext]_queue
    PROVE  [Plate!Next]_PlateTable
<1>1. CASE \E e \in Entry : Submit(e) \/ Admit(e) \/ Reject(e)
  BY <1>1, WaitingListStutters
<1>2. CASE \E s \in Bridge : CommitClaim(s)
  <2>1. PICK s \in Session : CommitClaim(s)
    BY <1>2 DEF Session
  <2> QED
    BY <2>1, ClaimReserves DEF Plate!Next
<1>3. CASE \E e \in Entry, id \in EventId : RecordEvent(e, id)
  BY <1>3, EventMovesPlate DEF Plate!Next
<1>4. CASE UNCHANGED entry
  BY <1>4, SameStatusSamePlate DEF PlateTable
<1>5. \/ \E e \in Entry : Submit(e) \/ Admit(e) \/ Reject(e)
      \/ \E s \in Bridge : CommitClaim(s)
      \/ \E e \in Entry, id \in EventId : RecordEvent(e, id)
      \/ UNCHANGED entry
  BY DEF QueueNext, queue, BeginClear, CommitClear, BeginClaim, ReadStation, Rollback,
         Heartbeat, TimePasses
<1> QED
  BY <1>1, <1>2, <1>3, <1>4, <1>5

\* The free presentation queue keeps the promise of the paid production line:
\* one plate on the printer, and never back into the queue once it was sent.
THEOREM QueueImplementsPlateLifecycle == QueueSpec => ImplementsPlateLifecycle
<1>1. QueueInit => Plate!Init
  BY DEF QueueInit, Plate!Init, PlateOf
<1>2. QueueInv /\ [QueueNext]_queue => [Plate!Next]_PlateTable
  BY StepsMap
<1> QED
  BY <1>1, <1>2, Invariant, PTL DEF QueueSpec, ImplementsPlateLifecycle, Plate!Spec, PlateTable

-----------------------------------------------------------------------------
(* The queue with its connector: the inductive invariant                   *)

\* The observations after which the server takes no other.
Closing == {"completed", "cancelled", "stopped", "resolved", "refused"}

\* Every state of the connector in which it has an entry in hand.
Dispatching == {"claim", "prepare", "intent", "queue", "ack", "send", "wait", "sent", "failed"}

Handling == Dispatching \cup {"recover", "report", "last"}

PhaseOf(e) == journal[e].phase

\* What a journal row's phase says of its intent and of the events it queued.
RowFits(row) ==
    /\ row.start_intent <=> row.phase \in {"starting"} \cup Following \cup Over
    /\ row.phase \in {"none", "validating"} => row.event_keys = {}
    /\ row.phase = "failed" => row.event_keys \subseteq {<<"refused", 0>>}
    /\ \A id \in row.event_keys : id[1] \in Closing => row.phase \in Over \cup {"failed"}

RowsFit == \A e \in Entry : RowFits(journal[e])

\* Where the connector is and the phase of the row it has in hand agree, and
\* no row is left in the middle of a dispatch.
InStep ==
    /\ conn.at \in Handling => conn.for \in Entry
    /\ conn.at \in {"claim", "prepare", "intent"} => PhaseOf(conn.for) = "validating"
    /\ conn.at \in {"queue", "ack", "send", "wait", "sent"} => PhaseOf(conn.for) = "starting"
    /\ conn.at = "failed" => PhaseOf(conn.for) \in {"validating", "starting"}
    /\ conn.at = "recover" => PhaseOf(conn.for) = "failed"
    /\ conn.at \in {"report", "last"} => PhaseOf(conn.for) \in Following \cup Over \cup {"failed"}
    /\ conn.at \in {"ack", "send"} => <<"sent", 0>> \in journal[conn.for].event_keys
    /\ conn.via # {} => Claiming
    /\ \A e \in conn.todo : PhaseOf(e) # "none"
    /\ \A e \in Entry : PhaseOf(e) \in {"validating", "starting"}
                          => conn.for = e /\ conn.at \in Dispatching

\* An event that was queued is in the outbox or recorded, and no other is.
KeysDelivered(row, known) ==
    /\ \A i \in 1..Len(row.outbox) : row.outbox[i] \in row.event_keys
    /\ known \subseteq row.event_keys
    /\ \A id \in row.event_keys : id \in known \/ \E i \in 1..Len(row.outbox) : row.outbox[i] = id

Delivered == \A e \in Entry : KeysDelivered(journal[e], entry[e].events)

\* The status the server gave an entry is the one its events tell.
StatusTold(row) ==
    /\ row.status \in {"none", "waiting", "approved", "rejected", "claimed"} => row.events = {}
    /\ row.status \in Terminal \ {"rejected"} => \E id \in row.events : id[1] \in Closing
    /\ \A id \in row.events : id[1] \in Closing => row.status \in Terminal

Told == \A e \in Entry : StatusTold(entry[e])

\* Only an admitted entry gets a journal row, and only one with a row is claimed.
RowsAdmitted ==
    /\ \A e \in Entry :
          /\ entry[e].status \in {"none", "waiting", "rejected"} => PhaseOf(e) = "none"
          /\ entry[e].status \in Held => PhaseOf(e) # "none"
    /\ \A s \in Bridge : tx[s].at # "idle" => PhaseOf(tx[s].for) # "none"

OffPrinter(e) == wire # e /\ ~(machine.state \in Running /\ machine.file = e)

\* What has to do with an entry at the printer was sent, once, with its
\* intent written and its sent event recorded; it is over when the row is.
SentFits ==
    \A e \in Entry :
         /\ starts[e] \in {0, 1}
         /\ wire = e \/ machine.file = e => starts[e] = 1
         /\ wire = e => machine.file # e
         /\ starts[e] = 1 => journal[e].start_intent /\ <<"sent", 0>> \in entry[e].events
         /\ PhaseOf(e) \in Over => OffPrinter(e)

\* A start request may still be sent: none was, and the last state is only
\* reached with the sent event recorded.
SendReady ==
    /\ conn.at \in {"queue", "ack", "send"} => starts[conn.for] = 0
    /\ conn.at = "send" => <<"sent", 0>> \in entry[conn.for].events

\* From the owner's look until the start arrives nothing is put on the plate.
BedCleared ==
    /\ \A s \in Tab : tx[s].at = "clear" /\ tx[s].fresh /\ station.active = NoEntry => bed
    /\ station.clear # NoEntry => bed
    /\ \A e \in Entry : station.active = e /\ (starts[e] = 0 \/ wire = e) => bed

LinkInv ==
    /\ QueueInv
    /\ LinkTypeOK
    /\ RowsFit
    /\ InStep
    /\ Delivered
    /\ Told
    /\ RowsAdmitted
    /\ SentFits
    /\ SendReady
    /\ BedCleared

-----------------------------------------------------------------------------
(* Journal rows                                                            *)

LEMMA RowUpdated ==
    ASSUME NEW row \in JournalRow, NEW id \in EventId,
           NEW phase \in {"none", "failed"} \cup ACTIVE \cup Over
    PROVE  /\ [row EXCEPT !.phase = phase] \in JournalRow
           /\ [row EXCEPT !.phase = phase].phase = phase
           /\ [row EXCEPT !.phase = phase].start_intent = row.start_intent
           /\ [row EXCEPT !.phase = phase].event_keys = row.event_keys
           /\ [row EXCEPT !.phase = phase].outbox = row.outbox
  BY DEF JournalRow

LEMMA PhasesApart ==
    /\ Following \subseteq Observation /\ Over \subseteq Observation
    /\ Following \cap Over = {} /\ ACTIVE \cap Over = {} /\ Following \subseteq ACTIVE
    /\ Over \subseteq Closing
    /\ "none" \notin ACTIVE \cup Over /\ "failed" \notin ACTIVE \cup Over
    /\ "validating" \notin Following \cup Over /\ "starting" \notin Following \cup Over
    /\ Following \cap Closing = {}
  BY DEF Following, Over, ACTIVE, Observation, Closing

\* queue_event adds an id to the keys and the outbox, or leaves the row.
LEMMA QueuedRow ==
    ASSUME NEW row \in JournalRow, NEW id \in EventId, NEW known, KeysDelivered(row, known)
    PROVE  /\ Queued(row, id) \in JournalRow
           /\ Queued(row, id).phase = row.phase
           /\ Queued(row, id).start_intent = row.start_intent
           /\ Queued(row, id).event_keys \subseteq row.event_keys \cup {id}
           /\ row.event_keys \subseteq Queued(row, id).event_keys
           /\ id[1] # "printing" => id \in Queued(row, id).event_keys
           /\ KeysDelivered(Queued(row, id), known)
<1>1. CASE Queued(row, id) = row
  BY <1>1 DEF Queued, JournalRow
<1>2. CASE Queued(row, id) # row
  <2> DEFINE r == [row EXCEPT !.outbox = Append(@, id), !.event_keys = @ \cup {id}]
  <2>1. Queued(row, id) = r
    BY <1>2 DEF Queued
  <2>2. /\ r.outbox = Append(row.outbox, id) /\ r.event_keys = row.event_keys \cup {id}
        /\ r.phase = row.phase /\ r.start_intent = row.start_intent
        /\ r.telemetry_error = row.telemetry_error
        /\ row.outbox \in Seq(EventId)
    BY DEF JournalRow
  <2>3. /\ r.outbox \in Seq(EventId) /\ Len(r.outbox) = Len(row.outbox) + 1
        /\ Len(row.outbox) \in Nat
        /\ \A i \in 1..Len(row.outbox) : r.outbox[i] = row.outbox[i]
        /\ r.outbox[Len(row.outbox) + 1] = id
    BY <2>2
  <2>4. r \in JournalRow
    BY <2>2, <2>3 DEF JournalRow
  <2>5. KeysDelivered(r, known)
    <3> HIDE DEF r
    <3>1. \A i \in 1..Len(r.outbox) : i \in 1..Len(row.outbox) \/ i = Len(row.outbox) + 1
      BY <2>3
    <3>2. \A i \in 1..Len(row.outbox) : i \in 1..Len(r.outbox)
      BY <2>3
    <3>3. Len(row.outbox) + 1 \in 1..Len(r.outbox)
      BY <2>3
    <3> QED
      BY <2>2, <2>3, <3>1, <3>2, <3>3 DEF KeysDelivered
  <2> QED
    BY <2>1, <2>2, <2>4, <2>5
<1> QED
  BY <1>1, <1>2

\* flush() takes the head off the outbox once the server has it.
LEMMA PoppedRow ==
    ASSUME NEW row \in JournalRow, row.outbox # <<>>, NEW known, KeysDelivered(row, known),
           NEW more, more = known \cup {Head(row.outbox)}
    PROVE  /\ [row EXCEPT !.outbox = Tail(@)] \in JournalRow
           /\ KeysDelivered([row EXCEPT !.outbox = Tail(@)], more)
           /\ KeysDelivered(row, more)
           /\ Head(row.outbox) \in EventId /\ Head(row.outbox) \in row.event_keys
<1> DEFINE r == [row EXCEPT !.outbox = Tail(@)]
<1>1. /\ r.outbox = Tail(row.outbox) /\ r.event_keys = row.event_keys
      /\ r.phase = row.phase /\ r.start_intent = row.start_intent
      /\ r.telemetry_error = row.telemetry_error
      /\ row.outbox \in Seq(EventId)
  BY DEF JournalRow
<1>2. /\ r.outbox \in Seq(EventId) /\ Len(r.outbox) = Len(row.outbox) - 1
      /\ Len(row.outbox) \in Nat \ {0}
      /\ \A i \in 1..Len(r.outbox) : r.outbox[i] = row.outbox[i + 1]
      /\ Head(row.outbox) = row.outbox[1] /\ row.outbox[1] \in EventId
  BY <1>1
<1>3. r \in JournalRow
  BY <1>1, <1>2 DEF JournalRow
<1> HIDE DEF r
<1>4. /\ 1 \in 1..Len(row.outbox)
      /\ \A i \in 1..Len(r.outbox) : i + 1 \in 1..Len(row.outbox)
      /\ \A i \in 1..Len(row.outbox) : i = 1 \/ (i - 1 \in 1..Len(r.outbox) /\ (i - 1) + 1 = i)
  BY <1>2
<1>5. Head(row.outbox) \in row.event_keys
  BY <1>2, <1>4 DEF KeysDelivered
<1>6. KeysDelivered(row, more)
  BY <1>5 DEF KeysDelivered
<1>7. KeysDelivered(r, more)
  <2>1. ASSUME NEW id \in r.event_keys, id \notin more
        PROVE  \E i \in 1..Len(r.outbox) : r.outbox[i] = id
    <3>1. PICK i \in 1..Len(row.outbox) : row.outbox[i] = id
      BY <1>1, <2>1 DEF KeysDelivered
    <3>2. i # 1
      BY <1>2, <2>1, <3>1
    <3>3. i - 1 \in 1..Len(r.outbox) /\ r.outbox[i - 1] = id
      BY <1>2, <1>4, <3>1, <3>2
    <3> QED
      BY <3>3
  <2> QED
    BY <1>1, <1>2, <1>4, <1>5, <2>1 DEF KeysDelivered
<1> QED
  BY <1>2, <1>3, <1>5, <1>6, <1>7 DEF r

-----------------------------------------------------------------------------
(* A step of the connector                                                 *)

LEMMA RestTyped ==
    /\ AtRest \in Conn
    /\ AtRest.at = "idle" /\ AtRest.for = NoEntry /\ AtRest.via = {} /\ AtRest.todo = {}
  BY DEF AtRest, Conn

\* Steps that move the connector only.
LEMMA OnlyConnMoves ==
    ASSUME LinkInv, UNCHANGED <<queue, journal, printer>>, faults' \in 0..MaxFaults,
           conn' \in Conn, InStep', SendReady'
    PROVE  LinkInv'
<1>1. UNCHANGED <<entry, station, admitted, tx, journal, machine, wire, bed, starts>>
  BY DEF queue, printer
<1>2. QueueInv'
  BY <1>1 DEF LinkInv, QueueInv, QueueTypeOK, RequestsNameEntries, ReservationAgrees
<1>3. LinkTypeOK'
  BY <1>1, <1>2 DEF LinkInv, LinkTypeOK, QueueInv
<1>4. RowsFit' /\ Delivered' /\ Told'
  BY <1>1 DEF LinkInv, RowsFit, Delivered, Told
<1>5. RowsAdmitted' /\ SentFits'
  BY <1>1 DEF LinkInv, RowsAdmitted, SentFits, PhaseOf, OffPrinter
<1>6. BedCleared'
  BY <1>1 DEF LinkInv, BedCleared
<1> QED
  BY <1>2, <1>3, <1>4, <1>5, <1>6 DEF LinkInv

\* Steps that write one row of the journal.
LEMMA RowWritten ==
    ASSUME LinkInv, NEW e \in Entry, NEW r \in JournalRow,
           journal' = [journal EXCEPT ![e] = r],
           UNCHANGED <<queue, printer>>, faults' \in 0..MaxFaults,
           RowFits(r), KeysDelivered(r, entry[e].events), r.phase # "none",
           PhaseOf(e) = "none" => entry[e].status = "approved",
           journal[e].start_intent => r.start_intent,
           r.phase \in Over => OffPrinter(e),
           conn' \in Conn, InStep', SendReady'
    PROVE  LinkInv'
<1>1. UNCHANGED <<entry, station, admitted, tx, machine, wire, bed, starts>>
  BY DEF queue, printer
<1>2. QueueInv'
  BY <1>1 DEF LinkInv, QueueInv, QueueTypeOK, RequestsNameEntries, ReservationAgrees
<1>3. journal \in [Entry -> JournalRow]
  BY DEF LinkInv, LinkTypeOK
<1>4. \A k \in Entry : journal'[k] = IF k = e THEN r ELSE journal[k]
  BY <1>3
<1>5. LinkTypeOK'
  BY <1>1, <1>2, <1>3 DEF LinkInv, LinkTypeOK, QueueInv
<1>6. RowsFit' /\ Delivered' /\ Told'
  BY <1>1, <1>4 DEF LinkInv, RowsFit, Delivered, Told
<1>7. RowsAdmitted'
  <2>1. "approved" \notin {"none", "waiting", "rejected"} /\ "approved" \notin Held
    BY DEF Held
  <2>2. \A k \in Entry : PhaseOf(k) # "none" => PhaseOf(k)' # "none"
    BY <1>4 DEF PhaseOf
  <2>3. \A s \in Bridge : tx[s].at # "idle" => tx[s].for \in Entry
    BY DEF LinkInv, QueueInv, RequestsNameEntries, Session
  <2> QED
    BY <1>1, <1>4, <2>1, <2>2, <2>3 DEF LinkInv, RowsAdmitted, PhaseOf
<1>8. SentFits'
  BY <1>1, <1>4 DEF LinkInv, SentFits, PhaseOf, OffPrinter
<1>9. BedCleared'
  BY <1>1 DEF LinkInv, BedCleared
<1> QED
  BY <1>2, <1>5, <1>6, <1>7, <1>8, <1>9 DEF LinkInv

\* A row whose event was queued fits if the event does.
LEMMA QueuedFits ==
    ASSUME NEW row \in JournalRow, RowFits(row), NEW id \in EventId, NEW known,
           KeysDelivered(row, known), row.phase \notin {"none", "validating"},
           row.phase = "failed" => id = <<"refused", 0>>,
           id[1] \in Closing => row.phase \in Over \cup {"failed"}
    PROVE  RowFits(Queued(row, id))
  BY QueuedRow DEF RowFits

-----------------------------------------------------------------------------
(* The connector's tick and its requests                                   *)

LEMMA TickKeeps ==
    ASSUME LinkInv, Tick \/ RowsReported PROVE LinkInv'
<1>1. conn \in Conn /\ InStep /\ faults \in 0..MaxFaults
  BY DEF LinkInv, LinkTypeOK
<1>2. conn' \in Conn /\ conn'.at \in {"idle", "beat", "grants"} /\ conn'.via = {}
      /\ conn'.todo = {}
  <2>1. CASE Tick
    <3>1. PICK seen \in {"ready", "busy"} : conn' = [AtRest EXCEPT !.at = "beat", !.seen = seen]
      BY <2>1 DEF Tick
    <3> QED
      BY <3>1, RestTyped DEF Conn
  <2>2. CASE RowsReported
    <3>1. conn.at = "rows" /\ conn.todo = {} /\ conn.via = {}
      BY <1>1, <2>2 DEF RowsReported, InStep, Claiming
    <3>2. conn' = AtRest \/ conn' = [conn EXCEPT !.at = "grants"]
      BY <2>2 DEF RowsReported, Goto
    <3> QED
      BY <1>1, <3>1, <3>2, RestTyped DEF Conn
  <2> QED
    BY <2>1, <2>2
<1>3. UNCHANGED <<queue, journal, printer, faults>>
  BY DEF Tick, RowsReported
<1>4. conn.at \in {"idle", "rows"}
  BY DEF Tick, RowsReported
<1>5. InStep'
  BY <1>1, <1>2, <1>3, <1>4 DEF InStep, PhaseOf, Dispatching, Handling, Claiming
<1>6. SendReady'
  BY <1>2 DEF SendReady
<1> QED
  BY <1>1, <1>2, <1>3, <1>5, <1>6, OnlyConnMoves

\* Between two requests of a dispatch, and when one of them fails.
LEMMA DispatchMoves ==
    ASSUME LinkInv, Prepare \/ SendFails PROVE LinkInv'
<1>1. conn \in Conn /\ InStep /\ faults \in 0..MaxFaults /\ MaxFaults \in Nat
  BY FaultAssumption DEF LinkInv, LinkTypeOK
<1>2. UNCHANGED <<queue, journal, printer>> /\ faults' \in 0..MaxFaults
  BY <1>1 DEF Prepare, SendFails, Fault
<1>3. \/ conn.at = "prepare" /\ conn' = [conn EXCEPT !.at = "intent"]
      \/ conn.at \in {"prepare", "send", "wait"} /\ conn' = [conn EXCEPT !.at = "failed"]
  BY DEF Prepare, SendFails, Goto
<1>4. /\ conn' \in Conn /\ conn'.for = conn.for /\ conn'.via = conn.via /\ conn'.todo = conn.todo
      /\ \/ conn.at = "prepare" /\ conn'.at = "intent"
         \/ conn.at \in {"prepare", "send", "wait"} /\ conn'.at = "failed"
  BY <1>1, <1>3 DEF Conn
<1>5. InStep'
  BY <1>1, <1>2, <1>4 DEF InStep, PhaseOf, Dispatching, Handling, Claiming
<1>6. SendReady'
  BY <1>4 DEF SendReady
<1> QED
  BY <1>2, <1>4, <1>5, <1>6, OnlyConnMoves

\* flush() returns with everything delivered, or gives up.
LEMMA FlushedStep ==
    ASSUME LinkInv, NEW ok, Flushing, Flushed(ok)
    PROVE  /\ conn' \in Conn /\ conn'.via = {} /\ conn'.todo \in {conn.todo, {}}
           /\ \/ conn.at = "report" /\ conn'.at = "rows"
              \/ conn.at = "last" /\ conn'.at = "idle"
              \/ conn.at = "ack" /\ conn'.at = (IF ok THEN "send" ELSE "failed")
                   /\ conn'.for = conn.for
<1>1. conn \in Conn /\ InStep
  BY DEF LinkInv, LinkTypeOK
<1>2. conn.at \in {"report", "ack", "last"} /\ conn.via = {}
  BY <1>1 DEF Flushing, InStep, Claiming
<1>3. CASE conn.at = "report"
  <2>1. conn' = [conn EXCEPT !.at = "rows", !.for = NoEntry]
    BY <1>3 DEF Flushed
  <2> QED
    BY <1>1, <1>2, <1>3, <2>1 DEF Conn
<1>4. CASE conn.at = "last"
  <2>1. conn' = AtRest
    BY <1>4 DEF Flushed
  <2> QED
    BY <1>2, <1>4, <2>1, RestTyped
<1>5. CASE conn.at = "ack"
  <2>1. conn' = [conn EXCEPT !.at = IF ok THEN "send" ELSE "failed"]
    BY <1>5 DEF Flushed
  <2> QED
    BY <1>1, <1>2, <1>5, <2>1 DEF Conn
<1> QED
  BY <1>2, <1>3, <1>4, <1>5

LEMMA FlushEndsKeeps ==
    ASSUME LinkInv, FlushEnds PROVE LinkInv'
<1> DEFINE ok == ~journal[conn.for].telemetry_error
<1>1. conn \in Conn /\ InStep /\ Delivered /\ SendReady /\ faults \in 0..MaxFaults
      /\ journal \in [Entry -> JournalRow]
  BY DEF LinkInv, LinkTypeOK
<1>2. /\ Flushing /\ Flushed(ok) /\ UNCHANGED <<queue, journal, printer, faults>>
      /\ ok => journal[conn.for].outbox = <<>>
  BY DEF FlushEnds, Outbox
<1>3. conn.for \in Entry
  BY <1>1, <1>2 DEF Flushing, InStep, Handling, Dispatching
<1>4. /\ conn' \in Conn /\ conn'.via = {} /\ conn'.todo \in {conn.todo, {}}
      /\ \/ conn.at = "report" /\ conn'.at = "rows"
         \/ conn.at = "last" /\ conn'.at = "idle"
         \/ conn.at = "ack" /\ conn'.at = (IF ok THEN "send" ELSE "failed")
              /\ conn'.for = conn.for
  BY <1>2, <1>3, FlushedStep
<1>5. InStep'
  <2> HIDE DEF ok
  <2> QED
    BY <1>1, <1>2, <1>3, <1>4 DEF InStep, PhaseOf, Dispatching, Handling, Claiming
<1>6. conn.at = "ack" /\ ok => <<"sent", 0>> \in entry[conn.for].events
  <2>1. SUFFICES ASSUME conn.at = "ack", ok PROVE <<"sent", 0>> \in entry[conn.for].events
    OBVIOUS
  <2>2. <<"sent", 0>> \in journal[conn.for].event_keys /\ Len(journal[conn.for].outbox) = 0
    BY <1>1, <1>2, <2>1 DEF InStep
  <2> QED
    BY <1>1, <1>3, <2>2 DEF Delivered, KeysDelivered
<1>7. SendReady'
  <2>1. entry' = entry /\ starts' = starts
    BY <1>2 DEF queue, printer
  <2> HIDE DEF ok
  <2> QED
    BY <1>1, <1>4, <1>6, <2>1 DEF SendReady
<1> QED
  BY <1>1, <1>2, <1>4, <1>5, <1>7, OnlyConnMoves

-----------------------------------------------------------------------------
(* Journal rows written by the connector                                   *)

\* The row of the entry in hand: types and what is known of it.
LEMMA RowInHand ==
    ASSUME LinkInv, NEW e \in Entry
    PROVE  /\ journal[e] \in JournalRow /\ RowFits(journal[e])
           /\ KeysDelivered(journal[e], entry[e].events)
           /\ conn \in Conn /\ faults \in 0..MaxFaults /\ InStep /\ SendReady /\ SentFits
           /\ journal \in [Entry -> JournalRow]
  BY DEF LinkInv, LinkTypeOK, RowsFit, Delivered

LEMMA EventsTyped ==
    /\ <<"sent", 0>> \in EventId /\ <<"refused", 0>> \in EventId
    /\ <<"awaiting_start", 0>> \in EventId /\ <<"needs_attention", 0>> \in EventId
    /\ \A phase \in Following \cup Over, b \in Bucket :
         <<phase, b>> \in EventId /\ <<phase, 0>> \in EventId
  BY BucketAssumption, PhasesApart DEF EventId, Observation

\* A tick queues what the row has come to.
LEMMA ReportRowKeeps ==
    ASSUME LinkInv, NEW e \in Entry, ReportRow(e) PROVE LinkInv'
<1>1. /\ journal[e] \in JournalRow /\ RowFits(journal[e])
      /\ KeysDelivered(journal[e], entry[e].events)
      /\ conn \in Conn /\ faults \in 0..MaxFaults /\ InStep /\ SendReady /\ SentFits
      /\ journal \in [Entry -> JournalRow]
  BY RowInHand
<1>2. /\ conn.at = "rows" /\ e \in conn.todo /\ conn.via = {}
      /\ PhaseOf(e) \notin {"none", "validating", "starting"}
      /\ UNCHANGED <<queue, printer, faults>>
  BY <1>1 DEF ReportRow, InStep, Claiming, Dispatching
<1>3. /\ conn' \in Conn /\ conn'.for = e /\ conn'.via = {} /\ conn'.todo \subseteq conn.todo
      /\ conn'.at \in {"recover", "report"}
      /\ conn'.at = "recover" => PhaseOf(e) = "failed"
  BY <1>1, <1>2 DEF ReportRow, Conn, PhaseOf
<1>4. SendReady'
  BY <1>3 DEF SendReady
<1>5. PhaseOf(e) \in Following \cup Over \cup {"failed"}
  BY <1>1, <1>2 DEF JournalRow, ACTIVE, PhaseOf
<1>6. CASE journal' = journal
  <2>1. InStep'
    BY <1>1, <1>2, <1>3, <1>5, <1>6 DEF InStep, PhaseOf, Dispatching, Handling, Claiming
  <2> QED
    BY <1>1, <1>2, <1>3, <1>4, <1>6, <2>1, OnlyConnMoves
<1>7. CASE journal' # journal
  <2>1. PICK b \in Bucket :
           journal' = [journal EXCEPT ![e] =
                         Queued(@, <<@.phase, IF @.phase = "printing" THEN b ELSE 0>>)]
    BY <1>7 DEF ReportRow
  <2>2. PhaseOf(e) \in Following \cup Over
    BY <1>7 DEF ReportRow, PhaseOf
  <2>3. PICK id \in EventId : id = <<PhaseOf(e), IF PhaseOf(e) = "printing" THEN b ELSE 0>>
    BY <2>2, EventsTyped
  <2>4. PICK r : r = Queued(journal[e], id)
    OBVIOUS
  <2>5. journal' = [journal EXCEPT ![e] = r]
    BY <1>1, <2>1, <2>3, <2>4 DEF PhaseOf
  <2>6. id[1] = PhaseOf(e)
    BY <2>3
  <2>7. RowFits(r)
    BY <1>1, <1>2, <2>2, <2>4, <2>6, PhasesApart, QueuedFits DEF PhaseOf
  <2>8. /\ r \in JournalRow /\ r.phase = PhaseOf(e) /\ r.start_intent = journal[e].start_intent
        /\ KeysDelivered(r, entry[e].events)
    BY <1>1, <2>4, QueuedRow DEF PhaseOf
  <2>9. \A k \in Entry : PhaseOf(k)' = PhaseOf(k)
    BY <1>1, <2>5, <2>8 DEF PhaseOf
  <2>10. InStep'
    BY <1>1, <1>2, <1>3, <1>5, <2>9 DEF InStep, Dispatching, Handling, Claiming, Conn
  <2>11. r.phase \in Over => OffPrinter(e)
    BY <1>1, <2>8 DEF SentFits
  <2> QED
    BY <1>1, <1>2, <1>3, <1>4, <2>5, <2>7, <2>8, <2>10, <2>11, RowWritten
<1> QED
  BY <1>6, <1>7

\* A grant without a row gets one.
LEMMA ReserveKeeps ==
    ASSUME LinkInv, Reserve PROVE LinkInv'
<1>1. /\ conn \in Conn /\ faults \in 0..MaxFaults /\ InStep /\ SendReady /\ SentFits
      /\ journal \in [Entry -> JournalRow] /\ Delivered /\ RowsFit
  BY DEF LinkInv, LinkTypeOK
<1>2. conn.at = "grants" /\ conn.via = {} /\ UNCHANGED <<queue, printer, faults>>
  BY <1>1 DEF Reserve, InStep, Claiming
<1>3. CASE conn' = AtRest /\ UNCHANGED journal
  <2>1. InStep' /\ SendReady'
    BY <1>1, <1>2, <1>3, RestTyped
    DEF InStep, SendReady, PhaseOf, Dispatching, Handling, Claiming
  <2> QED
    BY <1>1, <1>2, <1>3, <2>1, RestTyped, OnlyConnMoves
<1>4. ASSUME NEW e \in Grants, journal[e].phase = "none",
             journal' = [journal EXCEPT ![e].phase = "validating"],
             conn' = [conn EXCEPT !.at = "claim", !.for = e]
      PROVE  LinkInv'
  <2>1. e \in Entry /\ entry[e].status = "approved"
    BY <1>4 DEF Grants, IsHead
  <2>2. PICK r : r = [journal[e] EXCEPT !.phase = "validating"]
    OBVIOUS
  <2>3. journal' = [journal EXCEPT ![e] = r]
    BY <1>4, <2>2
  <2>4. /\ r \in JournalRow /\ r.phase = "validating" /\ r.start_intent = journal[e].start_intent
        /\ r.event_keys = journal[e].event_keys /\ r.outbox = journal[e].outbox
    BY <1>1, <2>1, <2>2 DEF JournalRow, ACTIVE
  <2>5. RowFits(journal[e]) /\ KeysDelivered(journal[e], entry[e].events)
    BY <1>1, <2>1 DEF RowsFit, Delivered
  <2>6. RowFits(r) /\ KeysDelivered(r, entry[e].events)
    BY <1>4, <2>4, <2>5, PhasesApart DEF RowFits, KeysDelivered
  <2>7. /\ conn' \in Conn /\ conn'.at = "claim" /\ conn'.for = e /\ conn'.via = {}
        /\ conn'.todo = conn.todo
    BY <1>1, <1>2, <1>4, <2>1 DEF Conn
  <2>8. \A k \in Entry : PhaseOf(k)' = IF k = e THEN "validating" ELSE PhaseOf(k)
    BY <1>1, <2>1, <2>3, <2>4 DEF PhaseOf
  <2>9. InStep' /\ SendReady'
    BY <1>1, <1>2, <2>1, <2>7, <2>8
    DEF InStep, SendReady, Dispatching, Handling, Claiming, Conn
  <2>10. r.phase \notin Over
    BY <2>4, PhasesApart
  <2> QED
    BY <1>1, <1>2, <2>1, <2>3, <2>4, <2>6, <2>7, <2>9, <2>10, RowWritten
<1>5. CASE \E e \in Grants : journal[e].phase = "none"
  <2>1. \A e, k \in Grants : e = k
    BY DEF Grants
  <2>2. PICK e \in Grants : /\ journal' = [journal EXCEPT ![e].phase = "validating"]
                            /\ conn' = [conn EXCEPT !.at = "claim", !.for = e]
    BY <1>5 DEF Reserve
  <2> QED
    BY <1>4, <1>5, <2>1, <2>2, Zenon
<1> QED
  BY <1>3, <1>5 DEF Reserve

\* What a claim's answer does: a dispatch goes on or fails, a tick that
\* recovers a row queues the refusal it owes.
LEMMA AfterClaimStep ==
    ASSUME LinkInv, Claiming, NEW won, AfterClaim(won)
    PROVE  /\ conn.for \in Entry
           /\ conn' \in Conn /\ conn'.for = conn.for /\ conn'.via = {} /\ conn'.todo = conn.todo
           /\ conn.at = "claim" => conn'.at \in {"prepare", "failed"} /\ UNCHANGED journal
           /\ conn.at = "recover" =>
                /\ conn'.at = "report" /\ PhaseOf(conn.for) = "failed"
                /\ \/ UNCHANGED journal
                   \/ \E r \in JournalRow :
                        /\ journal' = [journal EXCEPT ![conn.for] = r]
                        /\ r = Queued(journal[conn.for], <<"refused", 0>>)
                        /\ RowFits(r) /\ r.phase = "failed"
                        /\ r.start_intent = journal[conn.for].start_intent
                        /\ KeysDelivered(r, entry[conn.for].events)
<1>1. /\ conn \in Conn /\ InStep /\ journal \in [Entry -> JournalRow]
      /\ Delivered /\ RowsFit
  BY DEF LinkInv, LinkTypeOK
<1>2. conn.at \in {"claim", "recover"} /\ conn.for \in Entry
  BY <1>1 DEF Claiming, InStep, Handling, Dispatching
<1>3. CASE conn.at = "claim"
  <2>1. conn' \in Conn /\ conn'.for = conn.for /\ conn'.via = {} /\ conn'.todo = conn.todo
        /\ conn'.at \in {"prepare", "failed"} /\ UNCHANGED journal
    BY <1>1, <1>3 DEF AfterClaim, Conn
  <2> QED
    BY <1>2, <1>3, <2>1
<1>4. CASE conn.at = "recover"
  <2>1. /\ conn' = [conn EXCEPT !.via = {}, !.at = "report"]
        /\ \/ UNCHANGED journal
           \/ journal' = [journal EXCEPT ![conn.for] = Queued(@, <<"refused", 0>>)]
    BY <1>4 DEF AfterClaim
  <2>2. /\ conn' \in Conn /\ conn'.for = conn.for /\ conn'.via = {} /\ conn'.todo = conn.todo
        /\ conn'.at = "report"
    BY <1>1, <2>1 DEF Conn
  <2>3. /\ journal[conn.for] \in JournalRow /\ RowFits(journal[conn.for])
        /\ KeysDelivered(journal[conn.for], entry[conn.for].events)
        /\ journal[conn.for].phase = "failed"
    BY <1>1, <1>2, <1>4 DEF Delivered, RowsFit, InStep, PhaseOf
  <2>4. PICK id \in EventId : id = <<"refused", 0>>
    BY EventsTyped
  <2>5. PICK r : r = Queued(journal[conn.for], id)
    OBVIOUS
  <2>6. /\ r \in JournalRow /\ r.phase = "failed" /\ r.start_intent = journal[conn.for].start_intent
        /\ KeysDelivered(r, entry[conn.for].events)
    BY <2>3, <2>5, QueuedRow
  <2>7. RowFits(r)
    BY <2>3, <2>4, <2>5, QueuedFits
  <2>8. \/ UNCHANGED journal
        \/ journal' = [journal EXCEPT ![conn.for] = r]
    BY <1>1, <2>1, <2>4, <2>5
  <2> QED
    BY <1>2, <1>4, <2>2, <2>3, <2>4, <2>5, <2>6, <2>7, <2>8 DEF PhaseOf
<1> QED
  BY <1>2, <1>3, <1>4

\* The journal and the connector after the answer, whatever the queue did.
LEMMA AfterClaimKeepsStep ==
    ASSUME LinkInv, Claiming, NEW won, AfterClaim(won)
    PROVE  /\ InStep' /\ (conn'.at \notin {"queue", "ack", "send"})
           /\ journal' \in [Entry -> JournalRow] /\ RowsFit'
           /\ \A k \in Entry : /\ PhaseOf(k)' = PhaseOf(k)
                               /\ journal'[k].start_intent = journal[k].start_intent
                               /\ KeysDelivered(journal'[k], entry[k].events)
<1>1. /\ conn \in Conn /\ InStep /\ journal \in [Entry -> JournalRow]
      /\ Delivered /\ RowsFit
  BY DEF LinkInv, LinkTypeOK
<1>2. conn.at \in {"claim", "recover"}
  BY DEF Claiming
<1>3. /\ conn.for \in Entry
      /\ conn' \in Conn /\ conn'.for = conn.for /\ conn'.via = {} /\ conn'.todo = conn.todo
      /\ conn.at = "claim" => conn'.at \in {"prepare", "failed"} /\ UNCHANGED journal
      /\ conn.at = "recover" => conn'.at = "report" /\ PhaseOf(conn.for) = "failed"
  BY AfterClaimStep
<1>4. /\ journal' \in [Entry -> JournalRow] /\ RowsFit'
      /\ \A k \in Entry : /\ journal'[k].phase = journal[k].phase
                          /\ journal'[k].start_intent = journal[k].start_intent
                          /\ KeysDelivered(journal'[k], entry[k].events)
  <2>1. CASE UNCHANGED journal
    BY <1>1, <2>1 DEF RowsFit, Delivered
  <2>2. CASE \E r \in JournalRow :
               /\ journal' = [journal EXCEPT ![conn.for] = r]
               /\ RowFits(r) /\ r.phase = "failed"
               /\ r.start_intent = journal[conn.for].start_intent
               /\ KeysDelivered(r, entry[conn.for].events)
               /\ PhaseOf(conn.for) = "failed"
    <3>1. PICK r \in JournalRow :
             /\ journal' = [journal EXCEPT ![conn.for] = r]
             /\ RowFits(r) /\ r.phase = "failed"
             /\ r.start_intent = journal[conn.for].start_intent
             /\ KeysDelivered(r, entry[conn.for].events)
             /\ PhaseOf(conn.for) = "failed"
      BY <2>2
    <3>2. \A k \in Entry : journal'[k] = IF k = conn.for THEN r ELSE journal[k]
      BY <1>1, <3>1
    <3> QED
      BY <1>1, <1>3, <3>1, <3>2 DEF RowsFit, Delivered, PhaseOf
  <2> QED
    BY <1>2, <2>1, <2>2, AfterClaimStep
<1>5. \A k \in Entry : PhaseOf(k)' = PhaseOf(k)
  BY <1>4 DEF PhaseOf
<1>6. InStep'
  BY <1>1, <1>2, <1>3, <1>5 DEF InStep, Dispatching, Handling, Claiming, Conn
<1> QED
  BY <1>2, <1>3, <1>4, <1>5, <1>6

LEMMA ClaimAnswerKeeps ==
    ASSUME LinkInv, ClaimAnswered \/ ClaimLost PROVE LinkInv'
<1>1. PICK won : Claiming /\ AfterClaim(won) /\ UNCHANGED <<queue, printer>>
                 /\ faults' \in 0..MaxFaults
  <2>1. faults \in 0..MaxFaults
    BY DEF LinkInv, LinkTypeOK
  <2>2. faults' = faults \/ (faults < MaxFaults /\ faults' = faults + 1)
    BY DEF ClaimAnswered, ClaimLost, Fault
  <2>3. faults' \in 0..MaxFaults
    BY <2>1, <2>2, FaultAssumption
  <2> QED
    BY <2>3 DEF ClaimAnswered, ClaimLost
<1>2. /\ conn \in Conn /\ InStep /\ journal \in [Entry -> JournalRow] /\ SentFits
      /\ Delivered /\ RowsFit
  BY DEF LinkInv, LinkTypeOK
<1>3. conn.at \in {"claim", "recover"}
  BY <1>1 DEF Claiming
<1>4. conn.for \in Entry /\ conn' \in Conn
  BY <1>1, AfterClaimStep
<1>5. InStep' /\ conn'.at \notin {"queue", "ack", "send"}
  BY <1>1, AfterClaimKeepsStep
<1>6. SendReady'
  BY <1>5 DEF SendReady
<1>7. CASE UNCHANGED journal
  BY <1>1, <1>4, <1>5, <1>6, <1>7, OnlyConnMoves
<1>8. CASE ~UNCHANGED journal
  <2>1. PICK r \in JournalRow :
           /\ journal' = [journal EXCEPT ![conn.for] = r]
           /\ RowFits(r) /\ r.phase = "failed"
           /\ r.start_intent = journal[conn.for].start_intent
           /\ KeysDelivered(r, entry[conn.for].events)
           /\ PhaseOf(conn.for) = "failed"
    BY <1>1, <1>3, <1>8, AfterClaimStep
  <2>2. r.phase \notin Over /\ r.phase # "none"
    BY <2>1, PhasesApart
  <2> QED
    BY <1>1, <1>4, <1>5, <1>6, <2>1, <2>2, RowWritten
<1> QED
  BY <1>7, <1>8

\* The intent is written on a row that never had one; the sent event follows.
LEMMA IntentKeeps ==
    ASSUME LinkInv, WriteIntent \/ QueueSent PROVE LinkInv'
<1>1. PICK e : e = conn.for
  OBVIOUS
<1>2. /\ conn \in Conn /\ InStep /\ conn.at \in {"intent", "queue"} /\ e \in Entry
      /\ conn.via = {} /\ journal \in [Entry -> JournalRow]
  BY <1>1 DEF LinkInv, LinkTypeOK, WriteIntent, QueueSent, InStep, Handling, Dispatching, Claiming
<1>3. /\ journal[e] \in JournalRow /\ RowFits(journal[e])
      /\ KeysDelivered(journal[e], entry[e].events)
      /\ faults \in 0..MaxFaults /\ SendReady /\ SentFits
  BY <1>2, RowInHand
<1>4. /\ UNCHANGED <<queue, printer, faults>>
      /\ conn' \in Conn /\ conn'.for = e /\ conn'.via = {} /\ conn'.todo = conn.todo
      /\ conn'.at = (IF conn.at = "intent" THEN "queue" ELSE "ack")
  BY <1>1, <1>2 DEF WriteIntent, QueueSent, Goto, Conn
<1>5. UNCHANGED <<entry, starts>>
  BY <1>4 DEF queue, printer
<1>6. ASSUME NEW r \in JournalRow, journal' = [journal EXCEPT ![e] = r],
             r.phase = "starting", r.start_intent, RowFits(r),
             KeysDelivered(r, entry[e].events),
             conn.at = "queue" => <<"sent", 0>> \in r.event_keys, PhaseOf(e) # "none",
             starts[e] = 0
      PROVE  LinkInv'
  <2>1. \A k \in Entry : /\ PhaseOf(k)' = IF k = e THEN "starting" ELSE PhaseOf(k)
                         /\ journal'[k] = IF k = e THEN r ELSE journal[k]
    BY <1>2, <1>6 DEF PhaseOf
  <2>2. InStep'
    BY <1>1, <1>2, <1>4, <1>6, <2>1 DEF InStep, Dispatching, Handling, Claiming, Conn
  <2>3. SendReady'
    BY <1>2, <1>4, <1>5, <1>6 DEF SendReady
  <2>4. r.phase \notin Over /\ r.phase # "none"
    BY <1>6, PhasesApart
  <2> QED
    BY <1>2, <1>3, <1>4, <1>6, <2>2, <2>3, <2>4, RowWritten
<1>7. CASE WriteIntent
  <2>1. PICK r : r = [[journal[e] EXCEPT !.phase = "starting"] EXCEPT !.start_intent = TRUE]
    OBVIOUS
  <2>2. journal' = [journal EXCEPT ![e] = r]
    BY <1>1, <1>2, <1>7, <2>1 DEF WriteIntent
  <2>3. /\ r \in JournalRow /\ r.phase = "starting" /\ r.start_intent
        /\ r.event_keys = journal[e].event_keys /\ r.outbox = journal[e].outbox
    BY <1>3, <2>1 DEF JournalRow, ACTIVE
  <2>4. conn.at = "intent" /\ journal[e].phase = "validating"
    BY <1>1, <1>2, <1>7 DEF WriteIntent, InStep, PhaseOf
  <2>5. RowFits(r) /\ KeysDelivered(r, entry[e].events)
    BY <1>3, <2>3, <2>4 DEF RowFits, KeysDelivered
  <2>6. starts[e] = 0
    BY <1>2, <1>3, <2>4, PhasesApart DEF SentFits, RowFits
  <2> QED
    BY <1>6, <2>2, <2>3, <2>4, <2>5, <2>6 DEF PhaseOf
<1>8. CASE QueueSent
  <2>1. PICK id \in EventId : id = <<"sent", 0>>
    BY EventsTyped
  <2>2. PICK r : r = Queued(journal[e], id)
    OBVIOUS
  <2>3. journal' = [journal EXCEPT ![e] = r]
    BY <1>1, <1>2, <1>8, <2>1, <2>2 DEF QueueSent
  <2>4. conn.at = "queue" /\ journal[e].phase = "starting" /\ starts[e] = 0
    BY <1>1, <1>2, <1>3, <1>8 DEF QueueSent, InStep, PhaseOf, SendReady
  <2>5. /\ r \in JournalRow /\ r.phase = "starting" /\ r.start_intent = journal[e].start_intent
        /\ KeysDelivered(r, entry[e].events) /\ id \in r.event_keys
    BY <1>3, <2>1, <2>2, <2>4, QueuedRow
  <2>6. RowFits(r)
    BY <1>3, <2>1, <2>2, <2>4, QueuedFits DEF Closing
  <2>7. r.start_intent
    BY <2>5, <2>6 DEF RowFits
  <2> QED
    BY <1>6, <2>1, <2>3, <2>4, <2>5, <2>6, <2>7 DEF PhaseOf
<1> QED
  BY <1>7, <1>8

\* The end of a dispatch: the row is followed from here, or it failed before
\* its intent.
LEMMA DispatchEndKeeps ==
    ASSUME LinkInv, StartAnswered \/ DispatchFailed PROVE LinkInv'
<1>1. PICK e : e = conn.for
  OBVIOUS
<1>2. /\ conn \in Conn /\ InStep /\ conn.at \in {"sent", "failed"} /\ e \in Entry
      /\ conn.via = {} /\ journal \in [Entry -> JournalRow]
      /\ PhaseOf(e) \in {"validating", "starting"}
      /\ conn.at = "sent" => PhaseOf(e) = "starting"
  BY <1>1 DEF LinkInv, LinkTypeOK, StartAnswered, DispatchFailed, InStep, Handling, Dispatching,
              Claiming
<1>3. /\ journal[e] \in JournalRow /\ RowFits(journal[e])
      /\ KeysDelivered(journal[e], entry[e].events)
      /\ faults \in 0..MaxFaults /\ SendReady /\ SentFits
  BY <1>2, RowInHand
<1>4. /\ UNCHANGED <<queue, printer, faults>>
      /\ conn' \in Conn /\ conn'.for = e /\ conn'.via = {} /\ conn'.todo = conn.todo
      /\ conn'.at = "last"
  BY <1>1, <1>2 DEF StartAnswered, DispatchFailed, Goto, Conn
<1>5. SendReady'
  BY <1>4 DEF SendReady
<1>6. ASSUME NEW phase \in {"awaiting_start", "needs_attention", "failed"}, NEW id \in EventId,
             phase = "failed" <=> PhaseOf(e) = "validating",
             id[1] = IF phase = "failed" THEN "refused" ELSE phase,
             phase = "failed" => id = <<"refused", 0>>,
             journal' = [journal EXCEPT ![e] = Queued([@ EXCEPT !.phase = phase], id)]
      PROVE  LinkInv'
  <2>1. PICK q : q = [journal[e] EXCEPT !.phase = phase]
    OBVIOUS
  <2>2. /\ q \in JournalRow /\ q.phase = phase /\ q.start_intent = journal[e].start_intent
        /\ q.event_keys = journal[e].event_keys /\ q.outbox = journal[e].outbox
    BY <1>3, <1>6, <2>1 DEF JournalRow, ACTIVE, Following
  <2>3. phase = "failed" \/ phase \in Following
    BY <1>6 DEF Following
  <2>4. journal[e].start_intent <=> PhaseOf(e) = "starting"
    BY <1>2, <1>3, PhasesApart DEF RowFits, PhaseOf
  <2>5. RowFits(q) /\ KeysDelivered(q, entry[e].events)
    <3>1. KeysDelivered(q, entry[e].events)
      BY <1>3, <2>2 DEF KeysDelivered
    <3>2. q.start_intent <=> q.phase \in {"starting"} \cup Following \cup Over
      BY <1>2, <1>6, <2>2, <2>3, <2>4, PhasesApart
    <3>3. q.phase = "failed" => q.event_keys = {}
      BY <1>3, <1>6, <2>2 DEF RowFits, PhaseOf
    <3>4. \A k \in q.event_keys : k[1] \notin Closing
      BY <1>2, <1>3, <2>2, PhasesApart DEF RowFits, PhaseOf
    <3> QED
      BY <1>6, <2>2, <3>1, <3>2, <3>3, <3>4 DEF RowFits
  <2>6. PICK r : r = Queued(q, id)
    OBVIOUS
  <2>7. journal' = [journal EXCEPT ![e] = r]
    BY <1>2, <1>6, <2>1, <2>6
  <2>8. /\ r \in JournalRow /\ r.phase = phase /\ r.start_intent = journal[e].start_intent
        /\ KeysDelivered(r, entry[e].events)
    BY <2>2, <2>5, <2>6, QueuedRow
  <2>9. RowFits(r)
    <3>1. id[1] \in Closing => phase = "failed"
      BY <1>6, <2>3, PhasesApart
    <3>2. q.phase \notin {"none", "validating"}
      BY <1>6, <2>2
    <3> QED
      BY <1>6, <2>2, <2>5, <2>6, <3>1, <3>2, QueuedFits
  <2>10. r.phase \notin Over /\ r.phase # "none" /\ PhaseOf(e) # "none"
    BY <1>2, <2>3, <2>8, PhasesApart
  <2>11. \A k \in Entry : PhaseOf(k)' = IF k = e THEN phase ELSE PhaseOf(k)
    BY <1>2, <2>7, <2>8 DEF PhaseOf
  <2>12. InStep'
    BY <1>2, <1>4, <2>3, <2>10, <2>11, PhasesApart DEF InStep, Dispatching, Handling, Claiming, Conn
  <2> QED
    BY <1>2, <1>3, <1>4, <1>5, <2>7, <2>8, <2>9, <2>10, <2>12, RowWritten
<1>7. CASE StartAnswered
  <2>1. /\ PhaseOf(e) = "starting"
        /\ journal' = [journal EXCEPT ![e] =
                         Queued([@ EXCEPT !.phase = "awaiting_start"], <<"awaiting_start", 0>>)]
    BY <1>1, <1>2, <1>7 DEF StartAnswered
  <2> QED
    BY <1>6, <2>1, EventsTyped
<1>8. CASE DispatchFailed /\ PhaseOf(e) = "starting"
  <2>1. journal[e].start_intent
    BY <1>3, <1>8 DEF RowFits, PhaseOf
  <2>2. journal' = [journal EXCEPT ![e] =
                      Queued([journal[e] EXCEPT !.phase = "needs_attention"],
                             <<"needs_attention", 0>>)]
    BY <1>1, <1>8, <2>1 DEF DispatchFailed, Physical
  <2> QED
    BY <1>6, <1>8, <2>2, EventsTyped
<1>9. CASE DispatchFailed /\ PhaseOf(e) = "validating"
  <2>1. ~journal[e].start_intent
    BY <1>3, <1>9, PhasesApart DEF RowFits, PhaseOf
  <2>2. journal' = [journal EXCEPT ![e] =
                      Queued([journal[e] EXCEPT !.phase = "failed"], <<"refused", 0>>)]
    BY <1>1, <1>9, <2>1 DEF DispatchFailed, Physical
  <2> QED
    BY <1>6, <1>9, <2>2, EventsTyped
<1> QED
  BY <1>2, <1>7, <1>8, <1>9

-----------------------------------------------------------------------------
(* Monitor, operator and restart                                           *)

\* A row that is followed is given its next phase, or the last one.
LEMMA FollowedMoves ==
    ASSUME LinkInv, NEW e \in Entry, PhaseOf(e) \in Following,
           NEW phase \in Following \cup Over,
           phase \in Over => OffPrinter(e),
           journal' = [journal EXCEPT ![e].phase = phase],
           UNCHANGED <<queue, conn, printer>>, faults' \in 0..MaxFaults
    PROVE  LinkInv'
<1>1. /\ journal[e] \in JournalRow /\ RowFits(journal[e])
      /\ KeysDelivered(journal[e], entry[e].events)
      /\ conn \in Conn /\ InStep /\ SendReady /\ SentFits
      /\ journal \in [Entry -> JournalRow]
  BY RowInHand
<1>2. PICK r : r = [journal[e] EXCEPT !.phase = phase]
  OBVIOUS
<1>3. journal' = [journal EXCEPT ![e] = r]
  BY <1>2
<1>4. /\ r \in JournalRow /\ r.phase = phase /\ r.start_intent = journal[e].start_intent
      /\ r.event_keys = journal[e].event_keys /\ r.outbox = journal[e].outbox
  BY <1>1, <1>2, PhasesApart DEF JournalRow
<1>5. journal[e].phase \in Following
  BY DEF PhaseOf
<1>6. RowFits(r) /\ KeysDelivered(r, entry[e].events)
  <2>1. \A id \in r.event_keys : id[1] \notin Closing
    BY <1>1, <1>4, <1>5, PhasesApart DEF RowFits
  <2>2. phase \notin {"none", "validating", "failed"}
    BY PhasesApart
  <2>3. r.start_intent <=> phase \in {"starting"} \cup Following \cup Over
    BY <1>1, <1>4, <1>5 DEF RowFits
  <2> QED
    BY <1>1, <1>4, <2>1, <2>2, <2>3 DEF RowFits, KeysDelivered
<1>7. \A k \in Entry : PhaseOf(k)' = IF k = e THEN phase ELSE PhaseOf(k)
  BY <1>1, <1>3, <1>4 DEF PhaseOf
<1>8. phase \notin {"none", "validating", "starting", "failed"} /\ PhaseOf(e) # "none"
  BY <1>5, PhasesApart
<1>9. \A k \in Entry : journal'[k].event_keys = journal[k].event_keys
  BY <1>1, <1>3, <1>4
<1>10. InStep'
  <2>1. conn' = conn
    OBVIOUS
  <2> HIDE DEF PhaseOf
  <2> QED
    BY <1>1, <1>7, <1>8, <1>9, <2>1, PhasesApart
    DEF InStep, Dispatching, Handling, Claiming, Conn
<1>11. SendReady'
  BY <1>1 DEF SendReady, queue, printer
<1> QED
  BY <1>1, <1>3, <1>4, <1>6, <1>8, <1>10, <1>11, RowWritten

\* What the monitor concludes from the printer, and what the operator saw.
LEMMA MonitorKeeps ==
    ASSUME LinkInv, NEW e \in Entry, Monitor(e) \/ Unreachable(e) \/ Resolve(e) PROVE LinkInv'
<1>1. /\ faults \in 0..MaxFaults /\ SentFits
      /\ machine.state \in Ready \cup Running \cup {"error"}
  BY DEF LinkInv, LinkTypeOK
<1>2. CASE Monitor(e)
  <2>1. PICK phase \in Verdicts(e) : journal' = [journal EXCEPT ![e].phase = phase]
    BY <1>2 DEF Monitor
  <2>2. phase \in Following \cup Over
    BY <2>1 DEF Verdicts, Following, Over
  <2>3. phase \in Over => OffPrinter(e)
    BY <1>1, <2>1 DEF Verdicts, Following, Over, SentFits, OffPrinter, Running
  <2>4. PhaseOf(e) \in Following /\ UNCHANGED <<queue, conn, printer, faults>>
    BY <1>2 DEF Monitor, PhaseOf
  <2> QED
    BY <1>1, <2>1, <2>2, <2>3, <2>4, FollowedMoves
<1>3. CASE Unreachable(e)
  <2>1. /\ PhaseOf(e) \in Following /\ UNCHANGED <<queue, conn, printer>>
        /\ journal' = [journal EXCEPT ![e].phase = "needs_attention"]
        /\ faults < MaxFaults /\ faults' = faults + 1
    BY <1>3 DEF Unreachable, PhaseOf, Following, Fault
  <2>2. faults' \in 0..MaxFaults
    BY <1>1, <2>1, FaultAssumption
  <2>3. "needs_attention" \in Following
    BY DEF Following
  <2> QED
    BY <2>1, <2>2, <2>3, PhasesApart, FollowedMoves
<1>4. CASE Resolve(e)
  <2>1. /\ PhaseOf(e) \in Following /\ UNCHANGED <<queue, conn, printer, faults>>
        /\ journal' = [journal EXCEPT ![e].phase = "resolved"]
    BY <1>4 DEF Resolve, PhaseOf, Following
  <2>2. OffPrinter(e)
    BY <1>4 DEF Resolve, OffPrinter, Ready, Running
  <2>3. "resolved" \in Over
    BY DEF Over
  <2> QED
    BY <1>1, <2>1, <2>2, <2>3, FollowedMoves
<1> QED
  BY <1>2, <1>3, <1>4

\* A restart leaves no dispatch and no claim of the connector behind.
LEMMA RestartKeeps ==
    ASSUME LinkInv, Restart PROVE LinkInv'
<1>1. /\ QueueInv /\ LinkTypeOK /\ RowsFit /\ InStep /\ Delivered /\ Told /\ RowsAdmitted
      /\ SentFits /\ SendReady /\ BedCleared
      /\ journal \in [Entry -> JournalRow] /\ faults \in 0..MaxFaults
  BY DEF LinkInv, LinkTypeOK
<1>2. /\ UNCHANGED <<entry, station, admitted, tx, machine, wire, bed, starts>>
      /\ conn' = AtRest
      /\ faults < MaxFaults /\ faults' = faults + 1
  BY DEF Restart, queue, printer, Fault
<1>3. faults' \in 0..MaxFaults
  BY <1>1, <1>2, FaultAssumption
<1>4. ASSUME NEW e \in Entry
      PROVE  /\ journal'[e] \in JournalRow /\ RowFits(journal'[e])
             /\ KeysDelivered(journal'[e], entry[e].events)
             /\ PhaseOf(e)' \notin {"validating", "starting"}
             /\ PhaseOf(e)' = "none" <=> PhaseOf(e) = "none"
             /\ PhaseOf(e)' \in Over <=> PhaseOf(e) \in Over
             /\ journal'[e].start_intent = journal[e].start_intent
  <2>1. /\ journal[e] \in JournalRow /\ RowFits(journal[e])
        /\ KeysDelivered(journal[e], entry[e].events)
    BY <1>1 DEF RowsFit, Delivered
  <2>2. CASE journal[e].phase \notin ACTIVE
    <3>1. journal'[e] = journal[e]
      BY <2>2 DEF Restart
    <3> QED
      BY <2>1, <2>2, <3>1 DEF PhaseOf, ACTIVE
  <2>3. CASE journal[e].phase \in ACTIVE
    <3>1. PICK phase : phase = IF journal[e].start_intent THEN "needs_attention" ELSE "failed"
      OBVIOUS
    <3>2. journal'[e] = [journal[e] EXCEPT !.phase = phase]
      BY <2>3, <3>1 DEF Restart, Physical
    <3>3. PICK r : r = journal'[e]
      OBVIOUS
    <3>4. /\ r \in JournalRow /\ r.phase = phase /\ r.start_intent = journal[e].start_intent
          /\ r.event_keys = journal[e].event_keys /\ r.outbox = journal[e].outbox
      BY <2>1, <3>1, <3>2, <3>3 DEF JournalRow, ACTIVE, Following
    <3>5. /\ phase = "needs_attention" \/ phase = "failed"
          /\ "needs_attention" \in Following /\ "failed" \notin Following
      BY <3>1 DEF Following
    <3>6. \A id \in r.event_keys : id[1] \notin Closing
      BY <2>1, <2>3, <3>4, PhasesApart DEF RowFits
    <3>7. phase = "failed" => r.event_keys = {}
      BY <2>1, <2>3, <3>1, <3>4, PhasesApart DEF RowFits, ACTIVE
    <3>8. r.start_intent <=> phase \in {"starting"} \cup Following \cup Over
      BY <3>1, <3>4, <3>5, PhasesApart
    <3>9. RowFits(r)
      BY <3>4, <3>5, <3>6, <3>7, <3>8 DEF RowFits
    <3>10. KeysDelivered(r, entry[e].events)
      BY <2>1, <3>4 DEF KeysDelivered
    <3>11. phase \notin {"none", "validating", "starting"} /\ phase \notin Over
      BY <3>5, PhasesApart
    <3>12. journal[e].phase # "none" /\ journal[e].phase \notin Over
      BY <2>3, PhasesApart
    <3>13. PhaseOf(e)' = phase /\ PhaseOf(e) = journal[e].phase
      BY <3>3, <3>4 DEF PhaseOf
    <3> QED
      BY <3>3, <3>4, <3>9, <3>10, <3>11, <3>12, <3>13
  <2> QED
    BY <2>2, <2>3
<1>5. journal' \in [Entry -> JournalRow]
  <2>1. journal' = [e \in Entry |-> journal'[e]]
    BY DEF Restart
  <2> QED
    BY <1>4, <2>1
<1>6. QueueInv'
  BY <1>1, <1>2 DEF QueueInv, QueueTypeOK, RequestsNameEntries, ReservationAgrees
<1>7. LinkTypeOK'
  BY <1>1, <1>2, <1>3, <1>5, <1>6, RestTyped DEF LinkTypeOK, QueueInv
<1>8. RowsFit' /\ Delivered' /\ Told'
  BY <1>1, <1>2, <1>4 DEF RowsFit, Delivered, Told
<1>9. InStep' /\ SendReady'
  BY <1>2, <1>4, RestTyped DEF InStep, SendReady, Handling, Dispatching, Claiming
<1>10. RowsAdmitted'
  <2>1. \A s \in Bridge : tx[s].at # "idle" => tx[s].for \in Entry
    BY <1>1 DEF QueueInv, RequestsNameEntries, Session
  <2> QED
    BY <1>1, <1>2, <1>4, <2>1 DEF RowsAdmitted
<1>11. SentFits' /\ BedCleared'
  BY <1>1, <1>2, <1>4 DEF SentFits, OffPrinter, BedCleared
<1> QED
  BY <1>6, <1>7, <1>8, <1>9, <1>10, <1>11 DEF LinkInv

-----------------------------------------------------------------------------
(* Steps of the queue                                                      *)

\* No request begins.
RequestsGoOn ==
    \A x \in Session : /\ tx'[x].at # "idle" => tx[x].at # "idle" /\ tx'[x].for = tx[x].for
                       /\ x \in Tab /\ tx'[x].at = "clear" /\ tx'[x].fresh
                            => tx[x].at = "clear" /\ tx[x].fresh

LEMMA RequestsStale ==
    ASSUME tx \in [Session -> Tx], NEW s \in Session,
           \/ StationWritten(s)
           \/ tx' = [x \in Session |-> [tx[x] EXCEPT !.fresh = FALSE]]
    PROVE  /\ RequestsGoOn
           /\ \A x \in Session : tx'[x].at # "idle" => ~tx'[x].fresh
<1>1. \A x \in Session : /\ [tx[x] EXCEPT !.fresh = FALSE].at = tx[x].at
                         /\ [tx[x] EXCEPT !.fresh = FALSE].for = tx[x].for
                         /\ ~[tx[x] EXCEPT !.fresh = FALSE].fresh
  BY DEF Tx
<1>2. Idle.at = "idle"
  BY DEF Idle
<1>3. \A x \in Session : tx'[x] \in {Idle, [tx[x] EXCEPT !.fresh = FALSE]}
  BY DEF StationWritten
<1>4. ASSUME NEW x \in Session
      PROVE  tx'[x].at = "idle" \/ (tx'[x].at = tx[x].at /\ tx'[x].for = tx[x].for /\ ~tx'[x].fresh)
  <2>1. CASE tx'[x] = Idle
    BY <1>2, <2>1
  <2>2. CASE tx'[x] = [tx[x] EXCEPT !.fresh = FALSE]
    BY <1>1, <2>2
  <2> QED
    BY <1>3, <2>1, <2>2
<1> QED
  BY <1>4 DEF RequestsGoOn

LEMMA RequestDropped ==
    ASSUME tx \in [Session -> Tx], NEW s \in Session, Rollback(s)
    PROVE  RequestsGoOn /\ UNCHANGED <<entry, station, admitted>>
<1>1. Idle.at = "idle"
  BY DEF Idle
<1>2. \A x \in Session : tx'[x] = IF x = s THEN Idle ELSE tx[x]
  BY DEF Rollback
<1> QED
  BY <1>1, <1>2 DEF RequestsGoOn, Rollback

LEMMA AdmittedKept ==
    ASSUME LinkInv, RequestsGoOn, \A k \in Entry : PhaseOf(k)' = PhaseOf(k),
           \A k \in Entry : \/ entry'[k].status = entry[k].status
                            \/ entry'[k].status \in Held \cup (Terminal \ {"rejected"})
                                 /\ PhaseOf(k) # "none"
                            \/ entry'[k].status \notin Held /\ PhaseOf(k) = "none"
    PROVE  RowsAdmitted'
<1>1. \A s \in Bridge : tx[s].at # "idle" => tx[s].for \in Entry /\ PhaseOf(tx[s].for) # "none"
  BY DEF LinkInv, QueueInv, RequestsNameEntries, Session, RowsAdmitted
<1>2. \A s \in Bridge : tx'[s].at # "idle" => PhaseOf(tx[s].for)' # "none" /\ tx'[s].for = tx[s].for
  BY <1>1 DEF RequestsGoOn, Session
<1>3. \A s \in Bridge : tx'[s].at # "idle" => PhaseOf(tx[s].for)' = (PhaseOf(tx[s].for))'
  OBVIOUS
<1>4. {"none", "waiting", "rejected"} \cap (Held \cup (Terminal \ {"rejected"})) = {}
  BY DEF Held, Terminal
<1>5. \A k \in Entry :
         /\ entry'[k].status \in {"none", "waiting", "rejected"} => PhaseOf(k)' = "none"
         /\ entry'[k].status \in Held => PhaseOf(k)' # "none"
  BY <1>4 DEF LinkInv, RowsAdmitted
<1>6. \A s \in Bridge : tx'[s].at # "idle" => journal'[tx'[s].for].phase # "none"
  BY <1>2 DEF PhaseOf
<1> QED
  BY <1>5, <1>6 DEF RowsAdmitted, PhaseOf

\* A step of the queue that leaves the phases alone: what is left to show.
LEMMA QueueMoves ==
    ASSUME LinkInv, QueueInv', UNCHANGED printer, faults' \in 0..MaxFaults,
           conn' \in Conn, InStep', SendReady', journal' \in [Entry -> JournalRow], RowsFit',
           \A k \in Entry : /\ PhaseOf(k)' = PhaseOf(k)
                            /\ journal'[k].start_intent = journal[k].start_intent
                            /\ KeysDelivered(journal'[k], entry'[k].events)
                            /\ StatusTold(entry'[k])
                            /\ entry[k].events \subseteq entry'[k].events,
           RowsAdmitted', BedCleared'
    PROVE  LinkInv'
<1>1. UNCHANGED <<machine, wire, bed, starts>>
  BY DEF printer
<1>2. LinkTypeOK'
  BY <1>1 DEF LinkInv, LinkTypeOK, QueueInv
<1>3. Delivered' /\ Told'
  BY DEF Delivered, Told
<1>4. SentFits'
  BY <1>1 DEF LinkInv, SentFits, OffPrinter
<1> QED
  BY <1>2, <1>3, <1>4 DEF LinkInv

\* A queue step that the connector takes no part in.
LEMMA ConnStays ==
    ASSUME LinkInv, UNCHANGED <<journal, conn, printer>>,
           \A k \in Entry : entry[k].events \subseteq entry'[k].events
    PROVE  InStep' /\ SendReady' /\ conn' \in Conn
<1>1. conn \in Conn /\ InStep /\ SendReady /\ UNCHANGED <<journal, conn, starts>>
  BY DEF LinkInv, LinkTypeOK, printer
<1>2. conn.at \in {"queue", "ack", "send"} => conn.for \in Entry
  BY <1>1 DEF InStep, Handling, Dispatching
<1> QED
  BY <1>1, <1>2 DEF InStep, SendReady, PhaseOf, Handling, Dispatching, Claiming

LEMMA BedKept ==
    ASSUME LinkInv, RequestsGoOn, UNCHANGED printer,
           station'.active = station.active, station'.clear = station.clear
    PROVE  BedCleared'
  BY DEF LinkInv, BedCleared, RequestsGoOn, printer, Session

\* After a write of the station row, or the end of an attempt, no owner's look
\* at the plate is fresh.
LEMMA BedAfterWrite ==
    ASSUME LinkInv, UNCHANGED printer, station'.clear = NoEntry,
           \A x \in Session : tx'[x].at # "idle" => ~tx'[x].fresh,
           \/ station'.active = NoEntry
           \/ station'.active \in Entry /\ station.clear = station'.active
    PROVE  BedCleared'
<1>1. UNCHANGED <<bed, starts, wire>>
  BY DEF printer
<1>2. \A s \in Tab : tx'[s].at = "clear" => ~tx'[s].fresh
  BY DEF Session
<1>3. station'.active \in Entry => bed
  BY EntryAssumption DEF LinkInv, BedCleared
<1> QED
  BY <1>1, <1>2, <1>3 DEF BedCleared

\* Nothing of an entry or a request changes.
LEMMA StationOnly ==
    ASSUME LinkInv, QueueInv', UNCHANGED <<entry, admitted, tx, journal, printer>>,
           station'.active = station.active, station'.clear = station.clear,
           faults' \in 0..MaxFaults, conn' \in Conn, InStep', SendReady'
    PROVE  LinkInv'
<1>1. RequestsGoOn
  BY DEF RequestsGoOn
<1>2. BedCleared'
  BY <1>1, BedKept
<1>3. journal' \in [Entry -> JournalRow] /\ RowsFit'
  BY DEF LinkInv, LinkTypeOK, RowsFit
<1>4. \A k \in Entry : /\ PhaseOf(k)' = PhaseOf(k)
                       /\ journal'[k].start_intent = journal[k].start_intent
                       /\ KeysDelivered(journal'[k], entry'[k].events)
                       /\ StatusTold(entry'[k])
                       /\ entry[k].events \subseteq entry'[k].events
  BY DEF LinkInv, Delivered, Told, PhaseOf
<1>5. RowsAdmitted'
  BY DEF LinkInv, RowsAdmitted, PhaseOf
<1> QED
  BY <1>2, <1>3, <1>4, <1>5, QueueMoves

\* The heartbeat, its loss, and time that passes.
LEMMA HeartbeatKeeps ==
    ASSUME LinkInv, Beat \/ TickLost PROVE LinkInv'
<1>1. /\ conn \in Conn /\ InStep /\ faults \in 0..MaxFaults /\ QueueInv
      /\ journal \in [Entry -> JournalRow]
  BY DEF LinkInv, LinkTypeOK
<1>2. faults' = faults \/ (faults < MaxFaults /\ faults' = faults + 1)
  BY DEF Beat, TickLost, Fault
<1>3. faults' \in 0..MaxFaults
  BY <1>1, <1>2, FaultAssumption
<1>4. UNCHANGED <<journal, printer>> /\ conn.at \in {"beat", "grants"}
  BY DEF Beat, TickLost
<1>5. PICK seen \in Seen : Heartbeat(seen) \/ UNCHANGED queue
  BY <1>1 DEF Beat, TickLost, Conn, Seen
<1>6. /\ UNCHANGED <<entry, admitted, tx>> /\ QueueInv'
      /\ station'.active = station.active /\ station'.clear = station.clear
  <2>1. CASE Heartbeat(seen)
    BY <1>1, <2>1, StationReportsKeep DEF Heartbeat, QueueInv, QueueTypeOK, StationRow
  <2>2. CASE UNCHANGED queue
    BY <1>1, <2>2 DEF queue, QueueInv, QueueTypeOK, RequestsNameEntries, ReservationAgrees
  <2> QED
    BY <1>5, <2>1, <2>2
<1>7. /\ conn' \in Conn /\ conn'.at \in {"idle", "rows"} /\ conn'.via = {}
      /\ \A e \in conn'.todo : PhaseOf(e) # "none"
  <2>1. CASE conn' = AtRest
    BY <2>1, RestTyped
  <2>2. CASE conn' # AtRest
    <3>1. PICK todo \in SUBSET Entry :
             /\ conn' = [AtRest EXCEPT !.at = "rows", !.todo = todo]
             /\ todo = {e \in Entry : journal[e].phase # "none"}
      BY <2>2 DEF Beat, TickLost
    <3> QED
      BY <3>1, RestTyped DEF Conn, PhaseOf
  <2> QED
    BY <2>1, <2>2
<1>8. InStep' /\ SendReady'
  BY <1>1, <1>4, <1>7 DEF InStep, SendReady, PhaseOf, Handling, Dispatching, Claiming, Conn
<1> QED
  BY <1>3, <1>4, <1>6, <1>7, <1>8, StationOnly

LEMMA LapseKeeps ==
    ASSUME LinkInv, Lapse PROVE LinkInv'
<1>1. /\ faults \in 0..MaxFaults /\ QueueInv
  BY DEF LinkInv, LinkTypeOK
<1>2. faults < MaxFaults /\ faults' = faults + 1
  BY DEF Lapse, Fault
<1>3. faults' \in 0..MaxFaults
  BY <1>1, <1>2, FaultAssumption
<1>4. UNCHANGED <<journal, conn, printer>> /\ TimePasses
  BY DEF Lapse, station_side, printer
<1>5. /\ UNCHANGED <<entry, admitted, tx>> /\ QueueInv'
      /\ station'.active = station.active /\ station'.clear = station.clear
  BY <1>1, <1>4, StationReportsKeep DEF TimePasses, QueueInv, QueueTypeOK, StationRow
<1>6. InStep' /\ SendReady' /\ conn' \in Conn
  BY <1>4, <1>5, ConnStays
<1> QED
  BY <1>3, <1>4, <1>5, <1>6, StationOnly

\* A claim request arrives, or reads the station.
LEMMA BridgeMoves ==
    ASSUME LinkInv, QueueInv', NEW s \in Bridge, UNCHANGED <<entry, station, admitted>>,
           UNCHANGED <<journal, printer, faults>>,
           \A x \in Session \ {s} : tx'[x] = tx[x],
           tx'[s].for \in Entry, PhaseOf(tx'[s].for) # "none",
           conn' \in Conn, InStep', SendReady'
    PROVE  LinkInv'
<1>1. UNCHANGED <<bed, starts, wire>>
  BY DEF printer
<1>2. Tab \subseteq Session \ {s} /\ Bridge \subseteq Session
  BY SessionAssumption DEF Session
<1>3. BedCleared'
  BY <1>1, <1>2 DEF LinkInv, BedCleared
<1>4. journal' \in [Entry -> JournalRow] /\ RowsFit' /\ faults' \in 0..MaxFaults
  BY DEF LinkInv, LinkTypeOK, RowsFit
<1>5. \A k \in Entry : /\ PhaseOf(k)' = PhaseOf(k)
                       /\ journal'[k].start_intent = journal[k].start_intent
                       /\ KeysDelivered(journal'[k], entry'[k].events)
                       /\ StatusTold(entry'[k])
                       /\ entry[k].events \subseteq entry'[k].events
  BY DEF LinkInv, Delivered, Told, PhaseOf
<1>6. RowsAdmitted'
  <2>1. \A x \in Bridge : tx'[x].at # "idle" => journal[tx'[x].for].phase # "none"
    BY <1>2 DEF LinkInv, RowsAdmitted, PhaseOf
  <2> QED
    BY <2>1 DEF LinkInv, RowsAdmitted, PhaseOf
<1> QED
  BY <1>3, <1>4, <1>5, <1>6, QueueMoves

LEMMA ClaimBeginsKeeps ==
    ASSUME LinkInv, NEW s \in Bridge, ClaimArrives(s) \/ ClaimProceeds(s) PROVE LinkInv'
<1>1. /\ conn \in Conn /\ InStep /\ SendReady /\ QueueInv /\ s \in Session
      /\ tx \in [Session -> Tx] /\ RowsAdmitted
  BY DEF LinkInv, LinkTypeOK, QueueInv, QueueTypeOK, Session
<1>2. CASE ClaimArrives(s)
  <2>1. /\ BeginClaim(s, conn.for) /\ UNCHANGED <<entry, station, admitted>>
        /\ UNCHANGED <<journal, printer, faults>>
        /\ conn.at \in {"claim", "recover"} /\ conn.for \in Entry
        /\ PhaseOf(conn.for) # "none"
    BY <1>1, <1>2 DEF ClaimArrives, BeginClaim, Claiming, InStep, Handling, Dispatching
  <2>2. QueueInv'
    BY <1>1, <2>1, ClaimKeeps
  <2>3. /\ \A x \in Session \ {s} : tx'[x] = tx[x]
        /\ tx'[s].for = conn.for
    BY <1>1, <2>1 DEF BeginClaim
  <2>4. /\ conn' \in Conn /\ conn'.at = conn.at /\ conn'.for = conn.for /\ conn'.todo = conn.todo
    BY <1>1, <1>2 DEF ClaimArrives, Conn
  <2>5. InStep' /\ SendReady'
    BY <1>1, <2>1, <2>4 DEF InStep, SendReady, PhaseOf, Handling, Dispatching, Claiming
  <2> QED
    BY <2>1, <2>2, <2>3, <2>4, <2>5, BridgeMoves
<1>3. CASE ClaimProceeds(s)
  <2>1. /\ ReadStation(s) /\ UNCHANGED <<entry, station, admitted>>
        /\ UNCHANGED <<journal, conn, printer, faults>>
        /\ tx[s].at = "granted"
    BY <1>3 DEF ClaimProceeds, ReadStation, station_side, printer
  <2>2. QueueInv'
    BY <1>1, <2>1, ClaimKeeps
  <2>3. /\ \A x \in Session \ {s} : tx'[x] = tx[x]
        /\ tx'[s].for = tx[s].for
    BY <1>1, <2>1 DEF ReadStation, Tx
  <2>4. tx[s].for \in Entry /\ PhaseOf(tx[s].for) # "none"
    BY <1>1, <2>1 DEF QueueInv, RequestsNameEntries, RowsAdmitted
  <2>5. InStep' /\ SendReady' /\ conn' \in Conn
    BY <2>1, ConnStays
  <2> QED
    BY <2>1, <2>2, <2>3, <2>4, <2>5, BridgeMoves
<1> QED
  BY <1>2, <1>3

\* The connector's side when a claim session ends, with events left alone.
LEMMA ClaimEndsForConn ==
    ASSUME LinkInv, NEW s \in Bridge, ClaimEnds(s),
           \A k \in Entry : entry'[k].events = entry[k].events
    PROVE  /\ UNCHANGED printer /\ faults' \in 0..MaxFaults
           /\ conn' \in Conn /\ InStep' /\ SendReady'
           /\ journal' \in [Entry -> JournalRow] /\ RowsFit'
           /\ \A k \in Entry : /\ PhaseOf(k)' = PhaseOf(k)
                               /\ journal'[k].start_intent = journal[k].start_intent
                               /\ KeysDelivered(journal'[k], entry'[k].events)
<1>1. /\ conn \in Conn /\ InStep /\ SendReady /\ faults \in 0..MaxFaults
      /\ journal \in [Entry -> JournalRow] /\ Delivered /\ RowsFit
  BY DEF LinkInv, LinkTypeOK
<1>2. UNCHANGED <<printer, faults>>
  BY DEF ClaimEnds
<1>3. CASE conn.via = {s}
  <2>1. PICK won : AfterClaim(won)
    BY <1>3 DEF ClaimEnds
  <2>2. Claiming
    BY <1>1, <1>3 DEF InStep
  <2>3. conn' \in Conn
    BY <2>1, <2>2, AfterClaimStep
  <2>4. /\ InStep' /\ (conn'.at \notin {"queue", "ack", "send"})
        /\ journal' \in [Entry -> JournalRow] /\ RowsFit'
        /\ \A k \in Entry : /\ PhaseOf(k)' = PhaseOf(k)
                            /\ journal'[k].start_intent = journal[k].start_intent
                            /\ KeysDelivered(journal'[k], entry[k].events)
    BY <2>1, <2>2, AfterClaimKeepsStep
  <2>5. SendReady'
    BY <2>4 DEF SendReady
  <2> QED
    BY <1>1, <1>2, <2>3, <2>4, <2>5
<1>4. CASE conn.via # {s}
  <2>1. UNCHANGED <<journal, conn>>
    BY <1>4 DEF ClaimEnds
  <2>2. InStep' /\ SendReady' /\ conn' \in Conn
    BY <1>2, <2>1, ConnStays
  <2>3. \A k \in Entry : /\ PhaseOf(k)' = PhaseOf(k)
                         /\ journal'[k].start_intent = journal[k].start_intent
                         /\ KeysDelivered(journal'[k], entry'[k].events)
    BY <1>1, <2>1 DEF Delivered, PhaseOf
  <2> QED
    BY <1>1, <1>2, <2>1, <2>2, <2>3 DEF RowsFit
<1> QED
  BY <1>3, <1>4

\* The claim commits or is rolled back, with or without somebody waiting.
LEMMA ClaimEndsKeeps ==
    ASSUME LinkInv, NEW s \in Bridge, ClaimEnds(s) PROVE LinkInv'
<1>1. /\ QueueInv /\ s \in Session /\ tx \in [Session -> Tx] /\ entry \in [Entry -> Row]
      /\ CommitClaim(s) /\ Told /\ RowsAdmitted
  BY DEF LinkInv, QueueInv, QueueTypeOK, Session, ClaimEnds
<1>2. QueueInv'
  BY <1>1, ClaimKeeps
<1>3. tx[s].at = "claim" /\ tx[s].for \in Entry /\ PhaseOf(tx[s].for) # "none"
  BY <1>1 DEF CommitClaim, QueueInv, RequestsNameEntries, RowsAdmitted
<1>4. CASE Rollback(s)
  <2>1. RequestsGoOn /\ UNCHANGED <<entry, station, admitted>>
    BY <1>1, <1>4, RequestDropped
  <2>2. /\ UNCHANGED printer /\ faults' \in 0..MaxFaults
        /\ conn' \in Conn /\ InStep' /\ SendReady'
        /\ journal' \in [Entry -> JournalRow] /\ RowsFit'
        /\ \A k \in Entry : /\ PhaseOf(k)' = PhaseOf(k)
                            /\ journal'[k].start_intent = journal[k].start_intent
                            /\ KeysDelivered(journal'[k], entry'[k].events)
    BY <2>1, ClaimEndsForConn
  <2>3. BedCleared'
    BY <2>1, <2>2, BedKept
  <2>4. RowsAdmitted'
    BY <2>1, <2>2, AdmittedKept
  <2>5. \A k \in Entry : StatusTold(entry'[k]) /\ entry[k].events \subseteq entry'[k].events
    BY <1>1, <2>1 DEF Told
  <2> QED
    BY <1>2, <2>2, <2>3, <2>4, <2>5, QueueMoves
<1>5. CASE ~Rollback(s)
  <2>1. PICK e \in Entry : e = tx[s].for
    BY <1>3
  <2>2. /\ tx[s].fresh /\ station.active = NoEntry /\ station.clear = e
        /\ entry[e].status = "approved" /\ Claimed(e)
    BY <1>1, <1>5, <2>1 DEF CommitClaim
  <2>3. /\ station'.active = e /\ station'.clear = NoEntry
        /\ \A k \in Entry : entry'[k].status = IF k = e THEN "claimed" ELSE entry[k].status
        /\ StationWritten(s)
    BY <1>1, <2>1, <2>2, ClaimFacts
  <2>4. \A k \in Entry : entry'[k].events = entry[k].events
    BY <1>1, <2>2 DEF Claimed, Row
  <2>5. /\ UNCHANGED printer /\ faults' \in 0..MaxFaults
        /\ conn' \in Conn /\ InStep' /\ SendReady'
        /\ journal' \in [Entry -> JournalRow] /\ RowsFit'
        /\ \A k \in Entry : /\ PhaseOf(k)' = PhaseOf(k)
                            /\ journal'[k].start_intent = journal[k].start_intent
                            /\ KeysDelivered(journal'[k], entry'[k].events)
    BY <2>4, ClaimEndsForConn
  <2>6. RequestsGoOn /\ \A x \in Session : tx'[x].at # "idle" => ~tx'[x].fresh
    BY <1>1, <2>3, RequestsStale
  <2>7. BedCleared'
    BY <2>2, <2>3, <2>5, <2>6, BedAfterWrite
  <2>8. \A k \in Entry : \/ entry'[k].status = entry[k].status
                         \/ entry'[k].status \in Held \cup (Terminal \ {"rejected"})
                              /\ PhaseOf(k) # "none"
                         \/ entry'[k].status \notin Held /\ PhaseOf(k) = "none"
    BY <1>3, <2>1, <2>3 DEF Held
  <2>9. RowsAdmitted'
    BY <2>5, <2>6, <2>8, AdmittedKept
  <2>10. \A k \in Entry : StatusTold(entry'[k]) /\ entry[k].events \subseteq entry'[k].events
    BY <1>1, <2>2, <2>3, <2>4 DEF Told, StatusTold, Terminal
  <2> QED
    BY <1>2, <2>5, <2>7, <2>9, <2>10, QueueMoves
<1> QED
  BY <1>4, <1>5

\* An event that the server records.
LEMMA EventMoves ==
    ASSUME LinkInv, NEW e \in Entry, NEW id \in EventId, RecordEvent(e, id),
           UNCHANGED printer
    PROVE  /\ QueueInv' /\ RequestsGoOn /\ BedCleared'
           /\ \A k \in Entry : /\ entry'[k].events = IF k = e THEN entry[e].events \cup {id}
                                                     ELSE entry[k].events
                               /\ StatusTold(entry'[k])
                               /\ \/ entry'[k].status = entry[k].status
                                  \/ entry'[k].status \in Held \cup (Terminal \ {"rejected"})
                                       /\ PhaseOf(k) # "none"
<1>1. /\ QueueInv /\ tx \in [Session -> Tx] /\ entry \in [Entry -> Row] /\ Told /\ RowsAdmitted
  BY DEF LinkInv, QueueInv, QueueTypeOK
<1>2. QueueInv'
  BY <1>1, EventKeeps
<1> DEFINE after == StatusAfter(id[1])
<1>3. /\ \A k \in Entry : entry'[k].status = IF k = e THEN after ELSE entry[k].status
      /\ station.active = e /\ Follows(entry[e].status, id[1])
      /\ IF after \in Terminal
         THEN station'.active = NoEntry /\ station'.clear = NoEntry
         ELSE station' = station
  BY <1>1, EventFacts
<1>4. /\ entry[e].status \in Held
      /\ after \in (Held \ {"claimed"}) \cup (Terminal \ {"rejected"})
  BY <1>3, ObservedStatus
<1>5. after \in Terminal <=> id[1] \in Closing
  BY <1>3 DEF Follows, StatusAfter, Terminal, Closing
<1>6. \A k \in Entry : entry'[k].events = IF k = e THEN entry[e].events \cup {id}
                                          ELSE entry[k].events
  <2>1. entry' = [entry EXCEPT ![e].status = after, ![e].events = @ \cup {id}]
    BY DEF RecordEvent
  <2> HIDE DEF after
  <2> QED
    BY <1>1, <2>1 DEF Row
<1>7. PhaseOf(e) # "none"
  BY <1>1, <1>4 DEF RowsAdmitted
<1>8. StatusTold(entry'[e])
  <2> HIDE DEF after
  <2>1. \A k \in entry[e].events : k[1] \notin Closing
    BY <1>1, <1>4, Disjoint DEF Told, StatusTold
  <2>2. after \notin {"none", "waiting", "approved", "rejected", "claimed"}
    BY <1>4 DEF Held, Terminal
  <2> QED
    BY <1>3, <1>5, <1>6, <2>1, <2>2 DEF StatusTold
<1>9. \A k \in Entry : StatusTold(entry'[k])
  <2> HIDE DEF after
  <2>1. ASSUME NEW k \in Entry, k # e PROVE StatusTold(entry'[k])
    BY <1>1, <1>3, <1>6, <2>1 DEF Told, StatusTold
  <2> QED
    BY <1>8, <2>1
<1>10. CASE after \in Terminal
  <2>1. tx' = [x \in Session |-> [tx[x] EXCEPT !.fresh = FALSE]]
    BY <1>10 DEF RecordEvent
  <2>2. RequestsGoOn /\ \A x \in Session : tx'[x].at # "idle" => ~tx'[x].fresh
    <3>1. CASE Session = {}
      BY <3>1 DEF RequestsGoOn
    <3>2. CASE \E s \in Session : TRUE
      BY <1>1, <2>1, <3>2, RequestsStale
    <3> QED
      BY <3>1, <3>2
  <2>3. BedCleared'
    BY <1>3, <1>10, <2>2, BedAfterWrite
  <2> QED
    BY <1>2, <1>3, <1>4, <1>6, <1>7, <1>9, <2>2, <2>3
<1>11. CASE after \notin Terminal
  <2>1. UNCHANGED <<station, tx>>
    BY <1>11 DEF RecordEvent
  <2>2. RequestsGoOn
    BY <2>1 DEF RequestsGoOn
  <2>3. BedCleared'
    BY <2>1, <2>2, BedKept
  <2> QED
    BY <1>2, <1>3, <1>4, <1>6, <1>7, <1>9, <2>2, <2>3
<1> QED
  BY <1>10, <1>11

\* What a delivered event does to the queue, the first time or again.
LEMMA Delivery ==
    ASSUME LinkInv, NEW e \in Entry, NEW id \in EventId, UNCHANGED printer,
           RecordEvent(e, id) \/ (Known(e, id) /\ UNCHANGED queue)
    PROVE  /\ QueueInv' /\ BedCleared'
           /\ (\A k \in Entry : PhaseOf(k)' = PhaseOf(k)) => RowsAdmitted'
           /\ \A k \in Entry : /\ entry'[k].events = IF k = e THEN entry[e].events \cup {id}
                                                     ELSE entry[k].events
                               /\ StatusTold(entry'[k])
<1>1. CASE RecordEvent(e, id)
  <2>1. /\ QueueInv' /\ RequestsGoOn /\ BedCleared'
        /\ \A k \in Entry : /\ entry'[k].events = IF k = e THEN entry[e].events \cup {id}
                                                  ELSE entry[k].events
                            /\ StatusTold(entry'[k])
                            /\ \/ entry'[k].status = entry[k].status
                               \/ entry'[k].status \in Held \cup (Terminal \ {"rejected"})
                                    /\ PhaseOf(k) # "none"
    BY <1>1, EventMoves
  <2>2. (\A k \in Entry : PhaseOf(k)' = PhaseOf(k)) => RowsAdmitted'
    <3> SUFFICES ASSUME \A k \in Entry : PhaseOf(k)' = PhaseOf(k) PROVE RowsAdmitted'
      OBVIOUS
    <3> QED
      BY <2>1, AdmittedKept
  <2> QED
    BY <2>1, <2>2
<1>2. CASE Known(e, id) /\ UNCHANGED queue
  <2>1. UNCHANGED <<entry, station, admitted, tx>>
    BY <1>2 DEF queue
  <2>2. QueueInv'
    BY <2>1 DEF LinkInv, QueueInv, QueueTypeOK, RequestsNameEntries, ReservationAgrees
  <2>3. RequestsGoOn
    BY <2>1 DEF RequestsGoOn
  <2>4. BedCleared'
    BY <2>1, <2>3, BedKept
  <2>5. (\A k \in Entry : PhaseOf(k)' = PhaseOf(k)) => RowsAdmitted'
    <3> SUFFICES ASSUME \A k \in Entry : PhaseOf(k)' = PhaseOf(k) PROVE RowsAdmitted'
      OBVIOUS
    <3> QED
      BY <2>1, <2>3, AdmittedKept
  <2>6. entry[e].events \cup {id} = entry[e].events
    BY <1>2 DEF Known
  <2> QED
    BY <2>1, <2>2, <2>4, <2>5, <2>6 DEF LinkInv, Told
<1> QED
  BY <1>1, <1>2

\* The row whose outbox is flushed.
LEMMA FlushedRow ==
    ASSUME LinkInv, MayPost
    PROVE  /\ conn.for \in Entry /\ conn.via = {} /\ Flushing
           /\ conn.at \in {"report", "ack", "last"}
           /\ PhaseOf(conn.for) \notin {"none", "validating"}
           /\ conn.at = "ack" => PhaseOf(conn.for) = "starting"
           /\ journal[conn.for].outbox # <<>>
           /\ Head(journal[conn.for].outbox) \in EventId
<1>1. /\ conn \in Conn /\ InStep /\ conn.at \in {"report", "ack", "last"}
      /\ journal[conn.for].outbox # <<>> /\ Flushing
  BY DEF MayPost, Flushing, Outbox, LinkInv, LinkTypeOK
<1>2. conn.for \in Entry /\ conn.via = {}
  BY <1>1 DEF InStep, Handling, Dispatching, Claiming
<1>3. journal[conn.for] \in JournalRow
  BY <1>2 DEF LinkInv, LinkTypeOK
<1>4. /\ PhaseOf(conn.for) \notin {"none", "validating"}
      /\ conn.at = "ack" => PhaseOf(conn.for) = "starting"
  BY <1>1, PhasesApart DEF InStep
<1>5. Head(journal[conn.for].outbox) \in EventId
  BY <1>1, <1>3 DEF JournalRow
<1> QED
  BY <1>1, <1>2, <1>4, <1>5

\* An acknowledged event leaves the outbox.
LEMMA PostKeeps ==
    ASSUME LinkInv, Post PROVE LinkInv'
<1>1. PICK e \in Entry : e = conn.for
  BY FlushedRow DEF Post
<1>2. PICK id \in EventId : id = Head(journal[e].outbox)
  BY <1>1, FlushedRow DEF Post
<1>3. /\ journal[e].outbox # <<>> /\ UNCHANGED <<conn, printer, faults>>
      /\ RecordEvent(e, id) \/ (Known(e, id) /\ UNCHANGED queue)
      /\ journal' = [journal EXCEPT ![e].outbox = Tail(@)]
  BY <1>1, <1>2, FlushedRow DEF Post, Outbox
<1>4. /\ journal \in [Entry -> JournalRow] /\ RowsFit /\ Delivered /\ faults \in 0..MaxFaults
      /\ InStep /\ SendReady /\ conn \in Conn
  BY DEF LinkInv, LinkTypeOK
<1>5. /\ QueueInv' /\ BedCleared'
      /\ (\A k \in Entry : PhaseOf(k)' = PhaseOf(k)) => RowsAdmitted'
      /\ \A k \in Entry : /\ entry'[k].events = IF k = e THEN entry[e].events \cup {id}
                                                ELSE entry[k].events
                          /\ StatusTold(entry'[k])
  BY <1>3, Delivery
<1>6. PICK r : r = [journal[e] EXCEPT !.outbox = Tail(@)]
  OBVIOUS
<1>7. journal' = [journal EXCEPT ![e] = r]
  BY <1>3, <1>6
<1>8. /\ r.phase = journal[e].phase /\ r.start_intent = journal[e].start_intent
      /\ r.event_keys = journal[e].event_keys
  BY <1>4, <1>6 DEF JournalRow
<1>9. r \in JournalRow /\ KeysDelivered(r, entry'[e].events)
  <2>1. journal[e] \in JournalRow /\ KeysDelivered(journal[e], entry[e].events)
    BY <1>4 DEF Delivered
  <2> QED
    BY <1>2, <1>3, <1>5, <1>6, <2>1, PoppedRow
<1>10. \A k \in Entry : journal'[k] = IF k = e THEN r ELSE journal[k]
  BY <1>4, <1>7
<1>11. journal' \in [Entry -> JournalRow] /\ RowsFit'
  BY <1>4, <1>7, <1>8, <1>9, <1>10 DEF RowsFit, RowFits
<1>12. \A k \in Entry : /\ PhaseOf(k)' = PhaseOf(k)
                        /\ journal'[k].event_keys = journal[k].event_keys
                        /\ journal'[k].start_intent = journal[k].start_intent
                        /\ KeysDelivered(journal'[k], entry'[k].events)
                        /\ entry[k].events \subseteq entry'[k].events
  BY <1>4, <1>5, <1>8, <1>9, <1>10 DEF PhaseOf, Delivered
<1>13. InStep' /\ SendReady'
  <2>1. UNCHANGED <<conn, starts>>
    BY <1>3 DEF printer
  <2>2. conn.at \in {"queue", "ack", "send"} => conn.for \in Entry
    BY <1>1
  <2> QED
    BY <1>1, <1>4, <1>12, <2>1, <2>2 DEF InStep, SendReady, Handling, Dispatching, Claiming, Conn
<1> QED
  BY <1>3, <1>4, <1>5, <1>11, <1>12, <1>13, QueueMoves

\* A lost answer leaves the event in the outbox, whatever the server did.
LEMMA PostLostKeeps ==
    ASSUME LinkInv, PostLost PROVE LinkInv'
<1>1. PICK e \in Entry : e = conn.for
  BY FlushedRow DEF PostLost
<1>2. PICK id \in EventId : id = Head(journal[e].outbox)
  BY <1>1, FlushedRow DEF PostLost
<1>3. /\ journal[e].outbox # <<>> /\ UNCHANGED <<journal, printer>> /\ Flushed(FALSE)
      /\ RecordEvent(e, id) \/ UNCHANGED queue
      /\ Flushing /\ conn.at \in {"report", "ack", "last"}
      /\ conn.at = "ack" => PhaseOf(e) = "starting"
      /\ faults < MaxFaults /\ faults' = faults + 1
  BY <1>1, <1>2, FlushedRow DEF PostLost, Outbox, Fault
<1>4. /\ journal \in [Entry -> JournalRow] /\ RowsFit /\ Delivered /\ faults \in 0..MaxFaults
      /\ InStep /\ SendReady /\ conn \in Conn
  BY DEF LinkInv, LinkTypeOK
<1>5. faults' \in 0..MaxFaults
  BY <1>3, <1>4, FaultAssumption
<1>6. /\ conn' \in Conn /\ conn'.via = {} /\ conn'.todo \in {conn.todo, {}}
      /\ \/ conn.at = "report" /\ conn'.at = "rows"
         \/ conn.at = "last" /\ conn'.at = "idle"
         \/ conn.at = "ack" /\ conn'.at = "failed" /\ conn'.for = conn.for
  BY <1>3, FlushedStep
<1>7. InStep' /\ SendReady'
  BY <1>1, <1>3, <1>4, <1>6 DEF InStep, SendReady, PhaseOf, Handling, Dispatching, Claiming, Conn
<1>8. CASE UNCHANGED queue
  BY <1>3, <1>5, <1>6, <1>7, <1>8, OnlyConnMoves
<1>9. CASE RecordEvent(e, id)
  <2>1. /\ QueueInv' /\ BedCleared'
        /\ (\A k \in Entry : PhaseOf(k)' = PhaseOf(k)) => RowsAdmitted'
        /\ \A k \in Entry : /\ entry'[k].events = IF k = e THEN entry[e].events \cup {id}
                                                  ELSE entry[k].events
                            /\ StatusTold(entry'[k])
    BY <1>3, <1>9, Delivery
  <2>2. KeysDelivered(journal[e], entry'[e].events)
    <3>1. journal[e] \in JournalRow /\ KeysDelivered(journal[e], entry[e].events)
      BY <1>4 DEF Delivered
    <3> QED
      BY <1>2, <1>3, <2>1, <3>1, PoppedRow
  <2>3. \A k \in Entry : /\ PhaseOf(k)' = PhaseOf(k)
                         /\ journal'[k].start_intent = journal[k].start_intent
                         /\ KeysDelivered(journal'[k], entry'[k].events)
                         /\ entry[k].events \subseteq entry'[k].events
    BY <1>3, <1>4, <2>1, <2>2 DEF PhaseOf, Delivered
  <2>4. journal' \in [Entry -> JournalRow] /\ RowsFit'
    BY <1>3, <1>4 DEF RowsFit
  <2> QED
    BY <1>3, <1>5, <1>6, <1>7, <2>1, <2>3, <2>4, QueueMoves
<1> QED
  BY <1>3, <1>8, <1>9

\* A rejected event: the outbox is given up.
LEMMA PostRejectedKeeps ==
    ASSUME LinkInv, PostRejected PROVE LinkInv'
<1>1. PICK e \in Entry : e = conn.for
  BY FlushedRow DEF PostRejected
<1>2. /\ UNCHANGED <<queue, printer, faults>> /\ Flushed(FALSE)
      /\ Flushing /\ conn.at \in {"report", "ack", "last"}
      /\ PhaseOf(e) \notin {"none", "validating"}
      /\ conn.at = "ack" => PhaseOf(e) = "starting"
      /\ journal' = [journal EXCEPT ![e].telemetry_error = TRUE]
  BY <1>1, FlushedRow DEF PostRejected
<1>3. /\ journal[e] \in JournalRow /\ RowFits(journal[e])
      /\ KeysDelivered(journal[e], entry[e].events)
      /\ conn \in Conn /\ faults \in 0..MaxFaults /\ InStep /\ SendReady /\ SentFits
      /\ journal \in [Entry -> JournalRow]
  BY RowInHand
<1>4. /\ conn' \in Conn /\ conn'.via = {} /\ conn'.todo \in {conn.todo, {}}
      /\ \/ conn.at = "report" /\ conn'.at = "rows"
         \/ conn.at = "last" /\ conn'.at = "idle"
         \/ conn.at = "ack" /\ conn'.at = "failed" /\ conn'.for = conn.for
  BY <1>2, FlushedStep
<1>5. PICK r : r = [journal[e] EXCEPT !.telemetry_error = TRUE]
  OBVIOUS
<1>6. journal' = [journal EXCEPT ![e] = r]
  BY <1>2, <1>5
<1>7. /\ r \in JournalRow /\ r.phase = journal[e].phase
      /\ r.start_intent = journal[e].start_intent
      /\ r.event_keys = journal[e].event_keys /\ r.outbox = journal[e].outbox
  BY <1>3, <1>5 DEF JournalRow
<1>8. RowFits(r) /\ KeysDelivered(r, entry[e].events)
  BY <1>3, <1>7 DEF RowFits, KeysDelivered
<1>9. \A k \in Entry : PhaseOf(k)' = PhaseOf(k)
  BY <1>3, <1>6, <1>7 DEF PhaseOf
<1>10. InStep' /\ SendReady'
  BY <1>1, <1>2, <1>3, <1>4, <1>9 DEF InStep, SendReady, Handling, Dispatching, Claiming, Conn
<1>11. r.phase # "none" /\ PhaseOf(e) # "none" /\ (r.phase \in Over => OffPrinter(e))
  BY <1>2, <1>3, <1>7 DEF PhaseOf, SentFits
<1> QED
  BY <1>2, <1>3, <1>4, <1>6, <1>7, <1>8, <1>10, <1>11, RowWritten

\* The waiting list: an entry without a row is submitted and admitted.
LEMMA AdmissionKeeps ==
    ASSUME LinkInv, NEW e \in Entry, Admission(e) PROVE LinkInv'
<1>1. /\ QueueInv /\ Told /\ RowsAdmitted /\ entry \in [Entry -> Row]
      /\ journal \in [Entry -> JournalRow] /\ Delivered /\ RowsFit /\ faults \in 0..MaxFaults
  BY DEF LinkInv, LinkTypeOK, QueueInv, QueueTypeOK
<1>2. UNCHANGED <<journal, conn, printer, faults>> /\ (Submit(e) \/ Admit(e) \/ Reject(e))
  BY DEF Admission, station_side, printer
<1>3. QueueInv'
  BY <1>1, <1>2, WaitingListKeeps
<1>4. /\ UNCHANGED <<station, tx>>
      /\ entry[e].status \in {"none", "waiting"}
      /\ entry'[e].status \in {"waiting", "approved", "rejected"}
      /\ \A k \in Entry : k # e => entry'[k] = entry[k]
      /\ entry'[e].events = entry[e].events
  BY <1>1, <1>2 DEF Submit, Admit, Reject, Row
<1>5. PhaseOf(e) = "none" /\ entry[e].events = {}
  BY <1>1, <1>4 DEF RowsAdmitted, Told, StatusTold
<1>6. \A k \in Entry : StatusTold(entry'[k]) /\ entry'[k].events = entry[k].events
  BY <1>1, <1>4, <1>5 DEF Told, StatusTold, Terminal
<1>7. RequestsGoOn
  BY <1>4 DEF RequestsGoOn
<1>8. BedCleared'
  BY <1>2, <1>4, <1>7, BedKept
<1>9. \A k \in Entry : PhaseOf(k)' = PhaseOf(k)
  BY <1>2 DEF PhaseOf
<1>10. RowsAdmitted'
  <2>1. entry'[e].status \notin Held
    BY <1>4 DEF Held
  <2> QED
    BY <1>4, <1>5, <1>7, <1>9, <2>1, AdmittedKept
<1>11. InStep' /\ SendReady' /\ conn' \in Conn
  BY <1>2, <1>6, ConnStays
<1>12. \A k \in Entry : /\ journal'[k].start_intent = journal[k].start_intent
                        /\ KeysDelivered(journal'[k], entry'[k].events)
  BY <1>1, <1>2, <1>6 DEF Delivered
<1>13. RowsFit' /\ journal' \in [Entry -> JournalRow] /\ faults' \in 0..MaxFaults
  BY <1>1, <1>2 DEF RowsFit
<1> QED
  BY <1>2, <1>3, <1>6, <1>8, <1>9, <1>10, <1>11, <1>12, <1>13, QueueMoves

\* The owner looks at a clear plate; the confirmation only counts if the
\* station has not been written since.
LEMMA ClearanceStepKeeps ==
    ASSUME LinkInv, NEW s \in Tab, Clearance(s) PROVE LinkInv'
<1>1. /\ QueueInv /\ Told /\ RowsAdmitted /\ BedCleared /\ s \in Session
      /\ tx \in [Session -> Tx] /\ station \in StationRow
      /\ journal \in [Entry -> JournalRow] /\ Delivered /\ RowsFit /\ faults \in 0..MaxFaults
  BY DEF LinkInv, LinkTypeOK, QueueInv, QueueTypeOK, Session
<1>2. UNCHANGED <<journal, conn, printer, faults, bed, wire, starts>>
  BY DEF Clearance, station_side, printer
<1>3. CommitClear(s) \/ \E e \in Entry : BeginClear(s, e)
  BY DEF Clearance
<1>4. QueueInv'
  BY <1>1, <1>3, ClearanceKeeps
<1>5. entry' = entry
  BY <1>3 DEF CommitClear, BeginClear, Rollback
<1>6. RowsAdmitted' /\ BedCleared'
  <2>1. CASE \E e \in Entry : BeginClear(s, e) /\ bed
    <3>1. PICK e \in Entry : BeginClear(s, e) /\ bed
      BY <2>1
    <3>2. /\ UNCHANGED station /\ \A x \in Session \ {s} : tx'[x] = tx[x]
      BY <1>1, <3>1 DEF BeginClear
    <3>3. Bridge \subseteq Session \ {s}
      BY SessionAssumption DEF Session
    <3>4. RowsAdmitted'
      BY <1>1, <1>2, <1>5, <3>2, <3>3 DEF RowsAdmitted, PhaseOf
    <3> QED
      BY <1>2, <3>1, <3>4 DEF BedCleared
  <2>2. CASE Rollback(s)
    <3>1. RequestsGoOn /\ UNCHANGED station
      BY <1>1, <2>2, RequestDropped
    <3>2. \A k \in Entry : PhaseOf(k)' = PhaseOf(k)
      BY <1>2 DEF PhaseOf
    <3> QED
      BY <1>2, <1>5, <3>1, <3>2, BedKept, AdmittedKept
  <2>3. CASE CommitClear(s) /\ ~Rollback(s)
    <3>1. /\ tx[s].at = "clear" /\ tx[s].fresh /\ station.active = NoEntry
          /\ station' = [station EXCEPT !.clear = tx[s].for, !.recent = TRUE]
          /\ StationWritten(s)
      BY <2>3 DEF CommitClear
    <3>2. bed
      BY <1>1, <3>1 DEF BedCleared
    <3>3. RequestsGoOn
      BY <1>1, <3>1, RequestsStale
    <3>4. \A k \in Entry : PhaseOf(k)' = PhaseOf(k)
      BY <1>2 DEF PhaseOf
    <3>5. RowsAdmitted'
      BY <1>5, <3>3, <3>4, AdmittedKept
    <3> QED
      BY <1>2, <3>2, <3>5 DEF BedCleared
  <2> QED
    BY <2>1, <2>2, <2>3 DEF Clearance
<1>7. InStep' /\ SendReady' /\ conn' \in Conn
  BY <1>2, <1>5, ConnStays
<1>8. \A k \in Entry : /\ PhaseOf(k)' = PhaseOf(k)
                       /\ journal'[k].start_intent = journal[k].start_intent
                       /\ KeysDelivered(journal'[k], entry'[k].events)
                       /\ StatusTold(entry'[k])
                       /\ entry[k].events \subseteq entry'[k].events
  BY <1>1, <1>2, <1>5 DEF PhaseOf, Delivered, Told
<1>9. RowsFit' /\ journal' \in [Entry -> JournalRow] /\ faults' \in 0..MaxFaults
  BY <1>1, <1>2 DEF RowsFit
<1> QED
  BY <1>2, <1>4, <1>6, <1>7, <1>8, <1>9, QueueMoves

-----------------------------------------------------------------------------
(* Steps at the printer                                                    *)

\* What was sent for an entry and is not over at the printer is reserved for
\* it at the server.
LEMMA OnPrinterReserved ==
    ASSUME LinkInv, NEW e \in Entry, starts[e] = 1, ~OffPrinter(e)
    PROVE  entry[e].status \in Held /\ station.active = e
<1>1. /\ Told /\ Delivered /\ SentFits /\ RowsFit /\ ReservationAgrees
      /\ entry[e].status \in Status
  BY DEF LinkInv, QueueInv, QueueTypeOK, Row
<1>2. /\ <<"sent", 0>> \in entry[e].events /\ journal[e].start_intent
      /\ PhaseOf(e) \notin Over
  BY <1>1 DEF SentFits
<1>3. entry[e].events \subseteq journal[e].event_keys /\ RowFits(journal[e])
  BY <1>1 DEF Delivered, KeysDelivered, RowsFit
<1>4. \A id \in entry[e].events : id[1] \notin Closing
  BY <1>2, <1>3, PhasesApart DEF RowFits, PhaseOf
<1>5. entry[e].status \notin Terminal /\ entry[e].status \notin {"none", "waiting", "approved"}
  BY <1>1, <1>2, <1>4 DEF Told, StatusTold
<1>6. entry[e].status \in Held
  BY <1>1, <1>5 DEF Status
<1> QED
  BY <1>1, <1>6 DEF ReservationAgrees

LEMMA PrinterMoves ==
    ASSUME LinkInv, UNCHANGED <<queue, journal, faults>>, conn' \in Conn,
           machine' \in [state : Ready \cup Running \cup {"error"}, file : Entry \cup {NoEntry}],
           wire' \in Entry \cup {NoEntry}, bed' \in BOOLEAN, starts' \in [Entry -> 0..2],
           InStep', SendReady', SentFits', BedCleared'
    PROVE  LinkInv'
<1>1. UNCHANGED <<entry, station, admitted, tx, journal, faults>>
  BY DEF queue
<1>2. QueueInv'
  BY <1>1 DEF LinkInv, QueueInv, QueueTypeOK, RequestsNameEntries, ReservationAgrees
<1>3. LinkTypeOK'
  BY <1>1, <1>2 DEF LinkInv, LinkTypeOK, QueueInv
<1>4. RowsFit' /\ Delivered' /\ Told'
  BY <1>1 DEF LinkInv, RowsFit, Delivered, Told
<1>5. RowsAdmitted'
  BY <1>1 DEF LinkInv, RowsAdmitted, PhaseOf
<1> QED
  BY <1>2, <1>3, <1>4, <1>5 DEF LinkInv

\* The start request is sent, once.
LEMMA SendStartKeeps ==
    ASSUME LinkInv, SendStart PROVE LinkInv'
<1>1. PICK e : e = conn.for
  OBVIOUS
<1>2. /\ conn \in Conn /\ InStep /\ SendReady /\ SentFits /\ BedCleared /\ RowsFit
      /\ starts \in [Entry -> 0..2] /\ bed \in BOOLEAN
      /\ machine \in [state : Ready \cup Running \cup {"error"}, file : Entry \cup {NoEntry}]
  BY DEF LinkInv, LinkTypeOK
<1>3. /\ conn.at = "send" /\ wire = NoEntry /\ wire' = e
      /\ starts' = [starts EXCEPT ![e] = @ + 1]
      /\ conn' = [conn EXCEPT !.at = "wait"]
      /\ UNCHANGED <<queue, journal, machine, bed, faults>>
  BY <1>1 DEF SendStart, Goto
<1>4. /\ e \in Entry /\ conn.via = {} /\ PhaseOf(e) = "starting"
      /\ starts[e] = 0 /\ <<"sent", 0>> \in entry[e].events
  BY <1>1, <1>2, <1>3 DEF InStep, SendReady, Handling, Dispatching, Claiming
<1>5. \A k \in Entry : starts'[k] = IF k = e THEN 1 ELSE starts[k]
  BY <1>2, <1>3, <1>4
<1>6. starts' \in [Entry -> 0..2]
  BY <1>2, <1>3, <1>4, <1>5
<1>7. /\ conn' \in Conn /\ conn'.at = "wait" /\ conn'.for = e /\ conn'.via = {}
      /\ conn'.todo = conn.todo
  BY <1>1, <1>2, <1>3, <1>4 DEF Conn
<1>8. \A k \in Entry : PhaseOf(k)' = PhaseOf(k)
  BY <1>3 DEF PhaseOf
<1>9. InStep' /\ SendReady'
  BY <1>1, <1>2, <1>3, <1>4, <1>7, <1>8 DEF InStep, SendReady, Handling, Dispatching, Claiming, Conn
<1>10. journal[e].start_intent
  BY <1>2, <1>4 DEF RowsFit, RowFits, PhaseOf
<1>11. entry' = entry /\ station' = station /\ tx' = tx
  BY <1>3 DEF queue
<1>12. SentFits'
  <2> SUFFICES ASSUME NEW k \in Entry
               PROVE  /\ starts'[k] \in {0, 1}
                      /\ wire' = k \/ machine'.file = k => starts'[k] = 1
                      /\ wire' = k => machine'.file # k
                      /\ starts'[k] = 1 => journal'[k].start_intent
                                           /\ <<"sent", 0>> \in entry'[k].events
                      /\ PhaseOf(k)' \in Over => OffPrinter(k)'
    BY DEF SentFits
  <2>1. CASE k = e
    BY <1>2, <1>3, <1>4, <1>5, <1>8, <1>10, <1>11, <2>1, PhasesApart DEF SentFits
  <2>2. CASE k # e
    BY <1>2, <1>3, <1>5, <1>8, <1>11, <2>2 DEF SentFits, OffPrinter
  <2> QED
    BY <2>1, <2>2
<1>13. BedCleared'
  BY <1>2, <1>3, <1>4, <1>5, <1>11, EntryAssumption DEF BedCleared
<1> QED
  BY <1>2, <1>3, <1>4, <1>6, <1>7, <1>9, <1>12, <1>13, PrinterMoves

\* The request arrives at the printer, or is dropped.
LEMMA WireKeeps ==
    ASSUME LinkInv, Accept \/ Drop PROVE LinkInv'
<1>1. PICK e \in Entry : e = wire
  BY DEF Accept, Drop, LinkInv, LinkTypeOK
<1>2. /\ conn \in Conn /\ InStep /\ SendReady /\ SentFits /\ BedCleared
      /\ starts \in [Entry -> 0..2] /\ bed \in BOOLEAN /\ ReservationAgrees
      /\ machine \in [state : Ready \cup Running \cup {"error"}, file : Entry \cup {NoEntry}]
  BY DEF LinkInv, LinkTypeOK, QueueInv
<1>3. /\ wire' = NoEntry /\ UNCHANGED <<queue, journal, starts, faults>>
      /\ \/ conn' = conn
         \/ conn.at = "wait" /\ conn' = [conn EXCEPT !.at = "sent"]
         \/ conn.at = "wait" /\ conn' = [conn EXCEPT !.at = "failed"]
  BY DEF Accept, Drop
<1>4. UNCHANGED <<entry, station, tx>> /\ \A k \in Entry : PhaseOf(k)' = PhaseOf(k)
  BY <1>3 DEF queue, PhaseOf
<1>5. conn' \in Conn /\ InStep' /\ SendReady'
  <2>1. CASE conn' = conn
    BY <1>2, <1>3, <1>4, <2>1
    DEF InStep, SendReady, PhaseOf, Handling, Dispatching, Claiming
  <2>2. CASE conn' # conn
    <3>1. /\ conn' \in Conn /\ conn.at = "wait" /\ conn'.at \in {"sent", "failed"}
          /\ conn'.for = conn.for /\ conn'.via = conn.via /\ conn'.todo = conn.todo
      BY <1>2, <1>3, <2>2 DEF Conn
    <3> QED
      BY <1>2, <1>3, <1>4, <3>1
      DEF InStep, SendReady, PhaseOf, Handling, Dispatching, Claiming
  <2> QED
    BY <2>1, <2>2
<1>6. starts[e] = 1 /\ ~OffPrinter(e) /\ PhaseOf(e) \notin Over
  BY <1>1, <1>2 DEF SentFits, OffPrinter
<1>7. station.active = e /\ station.clear = NoEntry
  BY <1>2, <1>6, EntryAssumption, OnPrinterReserved DEF ReservationAgrees
<1>8. CASE Accept
  <2>1. machine' = [state |-> "heating", file |-> e] /\ bed' = FALSE
    BY <1>1, <1>8 DEF Accept
  <2>2. /\ machine' \in [state : Ready \cup Running \cup {"error"}, file : Entry \cup {NoEntry}]
        /\ machine'.file = e
    BY <2>1 DEF Running
  <2>3. SentFits'
    <3> SUFFICES ASSUME NEW k \in Entry
                 PROVE  /\ starts'[k] \in {0, 1}
                        /\ wire' = k \/ machine'.file = k => starts'[k] = 1
                        /\ wire' = k => machine'.file # k
                        /\ starts'[k] = 1 => journal'[k].start_intent
                                             /\ <<"sent", 0>> \in entry'[k].events
                        /\ PhaseOf(k)' \in Over => OffPrinter(k)'
      BY DEF SentFits
    <3>1. wire' # k
      BY <1>3, EntryAssumption
    <3> QED
      BY <1>2, <1>3, <1>4, <1>6, <2>2, <3>1 DEF SentFits, OffPrinter
  <2>4. BedCleared'
    BY <1>3, <1>4, <1>6, <1>7, EntryAssumption DEF BedCleared
  <2> QED
    BY <1>2, <1>3, <1>5, <2>1, <2>2, <2>3, <2>4, PrinterMoves
<1>9. CASE Drop
  <2>1. UNCHANGED <<machine, bed>>
    BY <1>9 DEF Drop
  <2>2. SentFits' /\ BedCleared'
    BY <1>2, <1>3, <1>4, <2>1, EntryAssumption DEF SentFits, BedCleared, OffPrinter
  <2> QED
    BY <1>2, <1>3, <1>5, <2>1, <2>2, PrinterMoves
<1> QED
  BY <1>8, <1>9

\* The printer prints, and somebody takes the part off the plate.
LEMMA MachineKeeps ==
    ASSUME LinkInv,
           RemovePart \/ \E state \in Ready \cup Running \cup {"error"} : MachineStep(state)
    PROVE  LinkInv'
<1>1. /\ conn \in Conn /\ InStep /\ SendReady /\ SentFits /\ BedCleared
      /\ starts \in [Entry -> 0..2] /\ bed \in BOOLEAN /\ wire \in Entry \cup {NoEntry}
      /\ machine \in [state : Ready \cup Running \cup {"error"}, file : Entry \cup {NoEntry}]
  BY DEF LinkInv, LinkTypeOK
<1>2. /\ UNCHANGED <<queue, journal, conn, wire, starts, faults>> /\ bed' \in {bed, TRUE}
  BY DEF RemovePart, MachineStep
<1>3. UNCHANGED <<entry, station, tx>>
  BY <1>2 DEF queue
<1>4. InStep' /\ SendReady' /\ BedCleared'
  BY <1>1, <1>2, <1>3
  DEF InStep, SendReady, BedCleared, PhaseOf, Handling, Dispatching, Claiming
<1>5. /\ machine' \in [state : Ready \cup Running \cup {"error"}, file : Entry \cup {NoEntry}]
      /\ machine'.file \in {machine.file, NoEntry}
      /\ machine'.state \in Running => machine.state \in Running /\ machine'.file = machine.file
  <2>1. CASE RemovePart
    BY <1>1, <2>1 DEF RemovePart
  <2>2. CASE \E state \in Ready \cup Running \cup {"error"} : MachineStep(state)
    <3>1. PICK state \in Ready \cup Running \cup {"error"} : MachineStep(state)
      BY <2>2
    <3>2. machine' = [state |-> state, file |-> IF state = "idle" THEN NoEntry ELSE machine.file]
      BY <3>1 DEF MachineStep
    <3>3. state \in Running => machine.state \in Running /\ state # "idle"
      BY <3>1 DEF MachineStep, Running
    <3> QED
      BY <1>1, <3>2, <3>3
  <2> QED
    BY <2>1, <2>2
<1>6. SentFits'
  BY <1>1, <1>2, <1>3, <1>5, EntryAssumption DEF SentFits, PhaseOf, OffPrinter
<1> QED
  BY <1>1, <1>2, <1>4, <1>5, <1>6, PrinterMoves

-----------------------------------------------------------------------------
(* The invariant of the connected queue                                    *)

LEMMA LinkInitially == LinkInit => LinkInv
<1> SUFFICES ASSUME LinkInit PROVE LinkInv
  OBVIOUS
<1>1. QueueInv
  BY Initially DEF LinkInit
<1>2. NoRow \in JournalRow /\ NoRow.phase = "none" /\ NoRow.event_keys = {}
      /\ ~NoRow.start_intent /\ NoRow.outbox = <<>>
  BY DEF NoRow, JournalRow
<1>3. /\ journal \in [Entry -> JournalRow] /\ \A e \in Entry : journal[e] = NoRow
      /\ \A e \in Entry : entry[e].status = "none" /\ entry[e].events = {}
      /\ \A s \in Session : tx[s].at = "idle"
      /\ station.active = NoEntry /\ station.clear = NoEntry
  BY <1>2 DEF LinkInit, QueueInit, Idle
<1>4. LinkTypeOK
  BY <1>1, <1>3, FaultAssumption, RestTyped DEF LinkInit, LinkTypeOK, QueueInv, Ready
<1>5. RowsFit /\ Delivered
  BY <1>2, <1>3, PhasesApart DEF RowsFit, RowFits, Delivered, KeysDelivered
<1>6. Told /\ RowsAdmitted
  BY <1>2, <1>3 DEF Told, StatusTold, RowsAdmitted, PhaseOf, Terminal, Held, Session
<1>7. InStep /\ SendReady
  BY <1>2, <1>3, RestTyped DEF LinkInit, InStep, SendReady, PhaseOf, Handling, Dispatching
<1>8. SentFits
  BY <1>2, <1>3, EntryAssumption, PhasesApart DEF LinkInit, SentFits, PhaseOf
<1>9. BedCleared
  BY <1>3, EntryAssumption DEF LinkInit, BedCleared, Session
<1> QED
  BY <1>1, <1>4, <1>5, <1>6, <1>7, <1>8, <1>9 DEF LinkInv

LEMMA LinkStutters == LinkInv /\ UNCHANGED vars => LinkInv'
<1> SUFFICES ASSUME LinkInv, UNCHANGED vars PROVE LinkInv'
  OBVIOUS
<1>1. UNCHANGED <<queue, journal, conn, printer, faults>>
  BY DEF vars, station_side, printer
<1>2. conn \in Conn /\ faults \in 0..MaxFaults /\ UNCHANGED entry
  BY <1>1 DEF LinkInv, LinkTypeOK, queue
<1>3. InStep' /\ SendReady' /\ conn' \in Conn
  BY <1>1, <1>2, ConnStays
<1> QED
  BY <1>1, <1>2, <1>3, OnlyConnMoves

LEMMA ConnectorKeeps == LinkInv /\ ConnectorStep => LinkInv'
<1> SUFFICES ASSUME LinkInv, ConnectorStep PROVE LinkInv'
  OBVIOUS
<1>1. CASE Tick \/ RowsReported
  BY <1>1, TickKeeps
<1>2. CASE Beat
  BY <1>2, HeartbeatKeeps
<1>3. CASE Reserve
  BY <1>3, ReserveKeeps
<1>4. CASE ClaimAnswered
  BY <1>4, ClaimAnswerKeeps
<1>5. CASE \E e \in Entry : ReportRow(e)
  BY <1>5, ReportRowKeeps
<1>6. CASE \E s \in Bridge : ClaimArrives(s)
  BY <1>6, ClaimBeginsKeeps
<1>7. CASE Prepare \/ SendFails
  BY <1>7, DispatchMoves
<1>8. CASE WriteIntent \/ QueueSent
  BY <1>8, IntentKeeps
<1>9. CASE SendStart
  BY <1>9, SendStartKeeps
<1>10. CASE StartAnswered \/ DispatchFailed
  BY <1>10, DispatchEndKeeps
<1>11. CASE FlushEnds
  BY <1>11, FlushEndsKeeps
<1>12. CASE Post
  BY <1>12, PostKeeps
<1>13. CASE PostRejected
  BY <1>13, PostRejectedKeeps
<1> QED
  BY <1>1, <1>2, <1>3, <1>4, <1>5, <1>6, <1>7, <1>8, <1>9, <1>10, <1>11, <1>12, <1>13
  DEF ConnectorStep

LEMMA LinkInductive == LinkInv /\ [LinkNext]_vars => LinkInv'
<1> SUFFICES ASSUME LinkInv, [LinkNext]_vars PROVE LinkInv'
  OBVIOUS
<1>1. CASE ConnectorStep
  BY <1>1, ConnectorKeeps
<1>2. CASE ClaimLost
  BY <1>2, ClaimAnswerKeeps
<1>3. CASE PostLost
  BY <1>3, PostLostKeeps
<1>4. CASE TickLost
  BY <1>4, HeartbeatKeeps
<1>5. CASE \E s \in Bridge : ClaimProceeds(s) \/ ClaimEnds(s)
  BY <1>5, ClaimBeginsKeeps, ClaimEndsKeeps
<1>6. CASE Accept \/ Drop
  BY <1>6, WireKeeps
<1>7. CASE RemovePart \/ \E state \in Ready \cup Running \cup {"error"} : MachineStep(state)
  BY <1>7, MachineKeeps
<1>8. CASE Restart
  BY <1>8, RestartKeeps
<1>9. CASE Lapse
  BY <1>9, LapseKeeps
<1>10. CASE \E e \in Entry : Monitor(e) \/ Unreachable(e) \/ Resolve(e) \/ Admission(e)
  BY <1>10, MonitorKeeps, AdmissionKeeps
<1>11. CASE \E s \in Tab : Clearance(s)
  BY <1>11, ClearanceStepKeeps
<1>12. CASE UNCHANGED vars
  BY <1>12, LinkStutters
<1> QED
  BY <1>1, <1>2, <1>3, <1>4, <1>5, <1>6, <1>7, <1>8, <1>9, <1>10, <1>11, <1>12 DEF LinkNext

LEMMA LinkInvariant == LinkSpec => []LinkInv
  BY LinkInitially, LinkInductive, PTL DEF LinkSpec

\* Every variable of the queue, the connector and the printer keeps its type.
THEOREM LinkTypeCorrect == LinkSpec => []LinkTypeOK
  BY LinkInvariant, PTL DEF LinkInv

\* No entry is started twice, and none before the server has recorded that its
\* start would be sent, whatever requests are lost and whenever the station
\* restarts.
THEOREM StartsAreAcknowledged == LinkSpec => []AcknowledgedBeforeSend
<1>1. LinkInv => AcknowledgedBeforeSend
  BY DEF LinkInv, SentFits, AcknowledgedBeforeSend, Known
<1> QED
  BY <1>1, LinkInvariant, PTL

\* What the server calls finished is neither on its way nor running.
THEOREM ServerStaysBehind == LinkSpec => []ServerNeverAhead
<1>1. LinkInv => ServerNeverAhead
  <2> SUFFICES ASSUME LinkInv, NEW e \in Entry, entry[e].status \in Terminal
               PROVE  OffPrinter(e)
    BY DEF ServerNeverAhead, OffPrinter
  <2>1. entry[e].status \notin Held
    BY Disjoint
  <2>2. ~OffPrinter(e) => starts[e] = 1
    BY DEF LinkInv, SentFits, OffPrinter
  <2> QED
    BY <2>1, <2>2, OnPrinterReserved
<1> QED
  BY <1>1, LinkInvariant, PTL

\* A start request that is still on its way finds the plate as clear as the
\* owner saw it.
THEOREM StartsOnClearBed == LinkSpec => PlateNeedsClearBed
<1>1. LinkInv => \A e \in Entry : machine'.file = e /\ machine'.state = "heating" /\ wire = e => bed
  <2> SUFFICES ASSUME LinkInv, NEW e \in Entry, wire = e PROVE bed
    OBVIOUS
  <2>1. starts[e] = 1 /\ ~OffPrinter(e)
    BY DEF LinkInv, SentFits, OffPrinter
  <2>2. station.active = e
    BY <2>1, OnPrinterReserved
  <2> QED
    BY <2>2 DEF LinkInv, BedCleared
<1> QED
  BY <1>1, LinkInvariant, PTL DEF PlateNeedsClearBed

\* Every entry that is reserved, or that blocks the head of the queue with its
\* row, is in the hands of the connector, the monitor, the operator or the
\* next tick.
THEOREM SomebodyHasIt == LinkSpec => []NobodyForgotten
<1>1. LinkInv => NobodyForgotten
  <2> SUFFICES ASSUME LinkInv, NEW e \in Entry,
                      \/ entry[e].status \in Held
                      \/ entry[e].status = "approved" /\ journal[e].phase # "none"
               PROVE  InHand(e)
    BY DEF NobodyForgotten
  <2>1. /\ RowFits(journal[e]) /\ KeysDelivered(journal[e], entry[e].events)
        /\ StatusTold(entry[e]) /\ InStep /\ journal[e] \in JournalRow
    BY DEF LinkInv, LinkTypeOK, RowsFit, Delivered, Told
  <2>2. journal[e].phase # "none" /\ entry[e].status \notin Terminal
    BY Disjoint DEF LinkInv, RowsAdmitted, PhaseOf, Terminal
  <2>3. journal[e].outbox = <<>> => journal[e].event_keys \subseteq entry[e].events
    <3>1. journal[e].outbox = <<>> => Len(journal[e].outbox) = 0
      OBVIOUS
    <3> QED
      BY <2>1, <3>1 DEF KeysDelivered
  <2>4. \A id \in entry[e].events : id[1] \notin Closing
    BY <2>1, <2>2 DEF StatusTold
  <2>5. CASE journal[e].phase \in {"validating", "starting"}
    BY <2>1, <2>5 DEF InStep, PhaseOf, InHand
  <2>6. CASE journal[e].phase \in Following
    BY <2>6 DEF InHand
  <2>7. CASE journal[e].phase \in Over
    <3>1. PICK id : id = <<journal[e].phase, 0>>
      OBVIOUS
    <3>2. id[1] \in Closing
      BY <2>7, <3>1, PhasesApart
    <3> QED
      BY <2>3, <2>4, <2>7, <3>1, <3>2 DEF InHand
  <2>8. CASE journal[e].phase = "failed"
    <3>1. journal[e].event_keys \subseteq {<<"refused", 0>>}
      BY <2>1, <2>8 DEF RowFits
    <3>2. <<"refused", 0>> \notin entry[e].events
      BY <2>4 DEF Closing
    <3> QED
      BY <2>3, <2>8, <3>1, <3>2 DEF InHand
  <2> QED
    BY <2>1, <2>2, <2>5, <2>6, <2>7, <2>8 DEF JournalRow, ACTIVE
<1> QED
  BY <1>1, LinkInvariant, PTL

-----------------------------------------------------------------------------
(* The connected queue is the queue                                        *)

\* Whatever the connector and the printer do, the queue takes one of its own
\* steps or none.
LEMMA LinkStepsQueue == LinkInv /\ [LinkNext]_vars => [QueueNext]_queue
<1> SUFFICES ASSUME LinkInv, [LinkNext]_vars PROVE QueueNext \/ UNCHANGED queue
  OBVIOUS
<1>1. CASE UNCHANGED queue
  BY <1>1
<1>2. CASE Beat \/ TickLost
  <2>1. conn.seen \in Seen
    BY DEF LinkInv, LinkTypeOK, Conn, Seen
  <2> QED
    BY <1>2, <2>1 DEF Beat, TickLost, QueueNext
<1>3. CASE \E s \in Bridge : ClaimArrives(s) \/ ClaimProceeds(s) \/ ClaimEnds(s)
  <2>1. PICK s \in Bridge : ClaimArrives(s) \/ ClaimProceeds(s) \/ ClaimEnds(s)
    BY <1>3
  <2>2. CASE ClaimArrives(s)
    <3>1. BeginClaim(s, conn.for) /\ conn.for \in Entry
      BY <2>2 DEF ClaimArrives, BeginClaim, Grants
    <3> QED
      BY <3>1 DEF QueueNext
  <2>3. CASE ClaimProceeds(s) \/ ClaimEnds(s)
    BY <2>3 DEF ClaimProceeds, ClaimEnds, QueueNext
  <2> QED
    BY <2>1, <2>2, <2>3
<1>4. CASE Post \/ PostLost
  <2>1. MayPost
    BY <1>4 DEF Post, PostLost
  <2>2. conn.for \in Entry /\ Head(Outbox) \in EventId
    BY <2>1, FlushedRow DEF Outbox
  <2>3. RecordEvent(conn.for, Head(Outbox)) \/ UNCHANGED queue
    BY <1>4 DEF Post, PostLost
  <2> QED
    BY <2>2, <2>3 DEF QueueNext
<1>5. CASE Lapse
  BY <1>5 DEF Lapse, QueueNext
<1>6. CASE \E e \in Entry : Admission(e)
  BY <1>6 DEF Admission, QueueNext
<1>7. CASE \E s \in Tab : Clearance(s)
  BY <1>7 DEF Clearance, QueueNext
<1>8. CASE \/ Tick \/ RowsReported \/ Reserve \/ ClaimAnswered
           \/ \E e \in Entry : ReportRow(e)
           \/ Prepare \/ WriteIntent \/ QueueSent \/ SendStart \/ SendFails \/ StartAnswered
           \/ DispatchFailed \/ FlushEnds \/ PostRejected \/ ClaimLost
  BY <1>8 DEF Tick, RowsReported, Reserve, ClaimAnswered, ReportRow, Prepare, WriteIntent,
     QueueSent, SendStart, SendFails, StartAnswered, DispatchFailed, FlushEnds, PostRejected,
     ClaimLost
<1>9. CASE \/ Accept \/ Drop \/ RemovePart \/ Restart
           \/ \E state \in Ready \cup Running \cup {"error"} : MachineStep(state)
           \/ \E e \in Entry : Monitor(e) \/ Unreachable(e) \/ Resolve(e)
  BY <1>9 DEF Accept, Drop, RemovePart, Restart, MachineStep, Monitor, Unreachable, Resolve
<1>10. CASE UNCHANGED vars
  BY <1>10 DEF vars
<1> QED
  BY <1>2, <1>3, <1>4, <1>5, <1>6, <1>7, <1>8, <1>9, <1>10 DEF LinkNext, ConnectorStep

\* The queue under its connector is the queue of PresentationQueue.
THEOREM ConnectedQueue == LinkSpec => QueueSpec
  BY LinkStepsQueue, LinkInvariant, PTL DEF LinkSpec, QueueSpec, LinkInit

\* The station row and the entry rows name one reservation also with a
\* connector that repeats, loses and abandons requests.
THEOREM LinkReservationHolds == LinkSpec => []ReservationAgrees
  BY LinkInvariant, PTL DEF LinkInv, QueueInv

\* The connected queue keeps the promise of the paid production line.
THEOREM LinkImplementsPlateLifecycle == LinkSpec => ImplementsPlateLifecycle
  BY ConnectedQueue, QueueImplementsPlateLifecycle, PTL
=============================================================================
