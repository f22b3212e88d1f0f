----------------------- MODULE AnalysisPipeline_proofs -----------------------
(***************************************************************************)
(* Proofs about AnalysisPipeline for any number of workers, tabs, runs,    *)
(* attempts, notices and interruptions: no run is mislaid between the      *)
(* outbox, the stream and the workers, and the request shows the verdict   *)
(* of its newest run, which is final.                                      *)
(***************************************************************************)
EXTENDS AnalysisPipeline, SequenceTheorems, TLAPS

-----------------------------------------------------------------------------
(* The inductive invariant                                                 *)

\* What the request shows of its runs, and that an open run's input can be
\* claimed.
RequestFits ==
    /\ RequestFollowsRun
    /\ Len(runs) = 0 <=> request.status = "draft"
    /\ request.status = "draft" => request.asset = "quarantined"
    /\ \A r \in DOMAIN runs : Open(r) => request.asset \in {"quarantined", "validating"}

\* A tab that is still current read a request that has its verdict.
TabsFit ==
    \A t \in Tab :
        /\ tab[t][2] <= request.version
        /\ tab[t] = <<1, request.version>>
             => request.status \in {"analysis_ready", "analysis_failed"} /\ Len(runs) < MaxRuns

InStream(r) == \E k \in DOMAIN stream : stream[k].run = r

\* Every run has its outbox row; a published one is in the stream.
OutboxFits ==
    /\ \A i \in DOMAIN outbox :
          outbox[i].of # Notice => /\ outbox[i].of \in DOMAIN runs
                                   /\ outbox[i].published => InStream(outbox[i].of)
    /\ \A r \in DOMAIN runs : \E i \in DOMAIN outbox : outbox[i].of = r

\* Only the entries of a run with a verdict are acknowledged.
StreamFits ==
    \A k \in DOMAIN stream :
        /\ stream[k].run \in DOMAIN runs
        /\ stream[k].state = "acked" => ~Open(stream[k].run)

\* What a worker is about is there, and what it will acknowledge or mark may be.
LoopFits(l) ==
    /\ l.batch \subseteq DOMAIN outbox /\ \A i \in l.batch : outbox[i].of # Notice
    /\ l.at = "mark" => \A i \in l.batch : First(i, l.batch) => InStream(outbox[i].of)
    /\ l.at \in {"claim", "work", "ack"} => /\ l.message \in DOMAIN stream /\ l.run \in DOMAIN runs
                                           /\ l.run = stream[l.message].run
    /\ l.at = "ack" => ~Open(l.run)

WorkersFit == \A w \in Worker : LoopFits(worker[w])

IInv ==
    /\ TypeOK
    /\ RequestFits
    /\ TabsFit
    /\ OutboxFits
    /\ StreamFits
    /\ WorkersFit

\* What nothing but the end of a run takes back: rows and entries stay, and a
\* verdict does.
Grown ==
    /\ DOMAIN outbox \subseteq DOMAIN outbox'
    /\ \A i \in DOMAIN outbox : outbox'[i].of = outbox[i].of
    /\ DOMAIN stream \subseteq DOMAIN stream'
    /\ \A k \in DOMAIN stream : stream'[k].run = stream[k].run
    /\ DOMAIN runs \subseteq DOMAIN runs'
    /\ \A r \in DOMAIN runs : ~Open(r) => ~Open(r)'

-----------------------------------------------------------------------------
(* Rows and entries                                                        *)

LEMMA Appended ==
    ASSUME NEW S, NEW s \in Seq(S), NEW x \in S
    PROVE  /\ Append(s, x) \in Seq(S) /\ Len(Append(s, x)) = Len(s) + 1 /\ Len(s) \in Nat
           /\ DOMAIN s = 1..Len(s) /\ DOMAIN Append(s, x) = DOMAIN s \cup {Len(s) + 1}
           /\ \A i \in DOMAIN s : Append(s, x)[i] = s[i] /\ s[i] \in S
           /\ Append(s, x)[Len(s) + 1] = x
<1>1. /\ Append(s, x) \in Seq(S) /\ Len(Append(s, x)) = Len(s) + 1 /\ Len(s) \in Nat
      /\ DOMAIN s = 1..Len(s)
      /\ \A i \in 1..Len(s) : Append(s, x)[i] = s[i] /\ s[i] \in S
      /\ Append(s, x)[Len(s) + 1] = x
  OBVIOUS
<1>2. DOMAIN Append(s, x) = 1..(Len(s) + 1)
  BY <1>1
<1>3. 1..(Len(s) + 1) = (1..Len(s)) \cup {Len(s) + 1}
  BY <1>1
<1> QED
  BY <1>1, <1>2, <1>3

\* One element of a sequence is replaced.
LEMMA Replaced ==
    ASSUME NEW S, NEW s \in Seq(S), NEW i \in DOMAIN s, NEW x \in S
    PROVE  /\ [s EXCEPT ![i] = x] \in Seq(S) /\ Len([s EXCEPT ![i] = x]) = Len(s)
           /\ DOMAIN [s EXCEPT ![i] = x] = DOMAIN s
           /\ \A k \in DOMAIN s : [s EXCEPT ![i] = x][k] = IF k = i THEN x ELSE s[k]
<1>1. DOMAIN s = 1..Len(s) /\ Len(s) \in Nat /\ s \in [1..Len(s) -> S]
  OBVIOUS
<1>2. [s EXCEPT ![i] = x] \in [1..Len(s) -> S]
  BY <1>1
<1> QED
  BY <1>1, <1>2

LEMMA Typed ==
    ASSUME TypeOK
    PROVE  /\ runs \in Seq(RunRow) /\ outbox \in Seq(OutboxRow) /\ stream \in Seq(Message)
           /\ Len(runs) \in Nat /\ Len(runs) <= MaxRuns /\ MaxRuns \in Nat
           /\ DOMAIN runs = 1..Len(runs) /\ DOMAIN runs \subseteq Run
           /\ \A r \in DOMAIN runs : runs[r] \in RunRow
           /\ \A i \in DOMAIN outbox : outbox[i] \in OutboxRow /\ i \in Nat
           /\ \A k \in DOMAIN stream : stream[k] \in Message /\ k \in Nat
           /\ Run \subseteq 0..MaxRuns /\ Notice \notin Run /\ 0 \in 0..MaxRuns
           /\ MaxAttempts \in Nat /\ 0 \in 0..MaxAttempts
<1>1. /\ runs \in Seq(RunRow) /\ outbox \in Seq(OutboxRow) /\ stream \in Seq(Message)
      /\ Len(runs) <= MaxRuns /\ MaxRuns \in Nat /\ MaxAttempts \in Nat
  BY AnalysisAssumption DEF TypeOK
<1>2. /\ Len(runs) \in Nat /\ DOMAIN runs = 1..Len(runs)
      /\ \A r \in DOMAIN runs : runs[r] \in RunRow
  BY <1>1
<1>3. \A i \in DOMAIN outbox : outbox[i] \in OutboxRow /\ i \in Nat
  BY <1>1
<1>4. \A k \in DOMAIN stream : stream[k] \in Message /\ k \in Nat
  BY <1>1
<1>5. DOMAIN runs \subseteq Run
  BY <1>1, <1>2 DEF Run
<1>6. Run \subseteq 0..MaxRuns /\ Notice \notin Run /\ 0 \in 0..MaxRuns /\ 0 \in 0..MaxAttempts
  BY <1>1 DEF Run, Notice
<1> QED
  BY <1>1, <1>2, <1>3, <1>4, <1>5, <1>6

\* A loop that fitted still does when things have grown.
LEMMA LoopKept ==
    ASSUME Grown, NEW l, LoopFits(l) PROVE LoopFits(l)'
<1>1. \A i \in l.batch : i \in DOMAIN outbox /\ i \in DOMAIN outbox' /\ outbox'[i].of = outbox[i].of
  BY DEF LoopFits, Grown
<1>2. \A r : (\E k \in DOMAIN stream : stream[k].run = r)
               => \E k \in DOMAIN stream' : stream'[k].run = r
  BY DEF Grown
<1>3. l.at = "mark" => \A i \in l.batch : (\A j \in l.batch : i <= j)
                         => \E k \in DOMAIN stream' : stream'[k].run = outbox'[i].of
  BY <1>1, <1>2 DEF LoopFits, First, InStream
<1>4. l.at = "ack" => ~Open(l.run)'
  BY DEF LoopFits, Grown
<1>5. l.at \in {"claim", "work", "ack"} => /\ l.message \in DOMAIN stream' /\ l.run \in DOMAIN runs'
                                          /\ l.run = stream'[l.message].run
  BY DEF LoopFits, Grown
<1> QED
  BY <1>1, <1>3, <1>4, <1>5 DEF LoopFits, First, InStream

\* The loops when at most one worker moves.
LEMMA WorkersKept ==
    ASSUME worker \in [Worker -> Loop], WorkersFit, Grown, NEW w \in Worker, NEW l \in Loop,
           worker' = [worker EXCEPT ![w] = l], LoopFits(l)'
    PROVE  worker' \in [Worker -> Loop] /\ WorkersFit'
<1>1. ASSUME NEW x \in Worker PROVE LoopFits(worker[x])'
  <2>1. PICK k : k = worker'[x]
    OBVIOUS
  <2>2. CASE x = w
    BY <2>1, <2>2 DEF LoopFits
  <2>3. CASE x # w
    <3>1. LoopFits(k)
      BY <2>1, <2>3 DEF WorkersFit
    <3>2. LoopFits(k)'
      BY <3>1, LoopKept
    <3> QED
      BY <2>1, <3>2 DEF LoopFits
  <2> QED
    BY <2>2, <2>3
<1> QED
  BY <1>1 DEF WorkersFit

LEMMA WorkersStay ==
    ASSUME WorkersFit, Grown, worker' = worker PROVE WorkersFit'
<1>1. ASSUME NEW x \in Worker PROVE LoopFits(worker[x])'
  <2>1. PICK k : k = worker[x]
    OBVIOUS
  <2>2. LoopFits(k)
    BY <2>1 DEF WorkersFit
  <2>3. LoopFits(k)'
    BY <2>2, LoopKept
  <2> QED
    BY <2>1, <2>3 DEF LoopFits
<1> QED
  BY <1>1 DEF WorkersFit

-----------------------------------------------------------------------------
(* A worker between its writes                                             *)

LEMMA NothingGrew ==
    ASSUME UNCHANGED <<runs, outbox, stream>> PROVE Grown
  BY DEF Grown, Open

\* The rest of the invariant when only workers, tabs' reads and counters move.
LEMMA WorkerMoves ==
    ASSUME IInv, UNCHANGED <<request, runs, outbox, stream, tab>>,
           notices' \in 0..MaxNotices, interruptions' \in 0..MaxInterruptions,
           NEW w \in Worker, NEW l \in Loop, worker' = [worker EXCEPT ![w] = l], LoopFits(l)
    PROVE  IInv'
<1>1. Grown
  BY NothingGrew
<1>2. LoopFits(l)'
  BY <1>1, LoopKept
<1>3. worker \in [Worker -> Loop]
  BY DEF IInv, TypeOK
<1>4. worker' \in [Worker -> Loop] /\ WorkersFit'
  BY <1>1, <1>2, <1>3, WorkersKept DEF IInv
<1>5. TypeOK'
  BY <1>4 DEF IInv, TypeOK
<1>6. RequestFits' /\ TabsFit' /\ OutboxFits' /\ StreamFits'
  BY DEF IInv, RequestFits, RequestFollowsRun, TabsFit, OutboxFits, StreamFits, InStream, Open
<1> QED
  BY <1>4, <1>5, <1>6 DEF IInv

LEMMA StartFits == ASSUME TypeOK PROVE Start \in Loop /\ LoopFits(Start)
  BY Typed DEF Start, Loop, At, LoopFits

LEMMA ReadBatchKeeps ==
    ASSUME IInv, NEW w \in Worker, ReadBatch(w) PROVE IInv'
<1>1. UNCHANGED <<request, runs, outbox, stream, tab, notices, interruptions>>
  BY DEF ReadBatch, Reads, database, counters
<1>2. TypeOK /\ worker[w] \in Loop /\ worker \in [Worker -> Loop]
      /\ notices \in 0..MaxNotices /\ interruptions \in 0..MaxInterruptions
  BY DEF IInv, TypeOK
<1>3. PICK rows : rows = Batch
  OBVIOUS
<1>4. rows \subseteq DOMAIN outbox /\ \A i \in rows : outbox[i].of # Notice
  BY <1>3 DEF Batch, Oldest, Pending
<1>5. rows \in SUBSET Nat
  BY <1>2, <1>4, Typed
<1>6. PICK at \in At : at = IF rows = {} THEN "poll" ELSE "publish"
  BY DEF At
<1>7. PICK l : l = [worker[w] EXCEPT !.at = at, !.batch = rows]
  OBVIOUS
<1>8. l \in Loop /\ l.at = at /\ l.batch = rows
  BY <1>2, <1>5, <1>7 DEF Loop
<1>9. worker' = [worker EXCEPT ![w] = l]
  BY <1>2, <1>3, <1>6, <1>7 DEF ReadBatch, Reads
<1>10. LoopFits(l)
  BY <1>4, <1>6, <1>8 DEF LoopFits
<1> QED
  BY <1>1, <1>2, <1>8, <1>9, <1>10, WorkerMoves

\* A worker acknowledges a run only with a verdict: an open run is current
\* and its input can be claimed.
LEMMA ClaimRefusedKeeps ==
    ASSUME IInv, NEW w \in Worker, ClaimRefused(w) PROVE IInv'
<1> DEFINE r == worker[w].run
<1>1. UNCHANGED <<request, runs, outbox, stream, tab, notices, interruptions>>
  BY DEF ClaimRefused, database, counters
<1>2. TypeOK /\ worker[w] \in Loop /\ worker \in [Worker -> Loop] /\ LoopFits(worker[w])
      /\ notices \in 0..MaxNotices /\ interruptions \in 0..MaxInterruptions
      /\ worker[w].at = "claim"
  BY DEF IInv, TypeOK, WorkersFit, ClaimRefused
<1>3. r \in DOMAIN runs
  BY <1>2 DEF LoopFits
<1>4. CASE Disposes(w, "retry")
  <2>1. worker' = [worker EXCEPT ![w] = Start]
    BY <1>4 DEF Disposes
  <2> QED
    BY <1>1, <1>2, <2>1, StartFits, WorkerMoves
<1>5. CASE Disposes(w, "acknowledge") /\ ~Open(r)
  <2>1. PICK at \in At : at = "ack"
    BY DEF At
  <2>2. PICK l : l = [worker[w] EXCEPT !.at = at]
    OBVIOUS
  <2>3. worker' = [worker EXCEPT ![w] = l]
    BY <1>2, <1>5, <2>1, <2>2 DEF Disposes
  <2>4. /\ l \in Loop /\ l.at = "ack" /\ l.batch = worker[w].batch
        /\ l.message = worker[w].message /\ l.run = r
    BY <1>2, <2>1, <2>2 DEF Loop
  <2>5. LoopFits(l)
    BY <1>2, <1>5, <2>4 DEF LoopFits
  <2> QED
    BY <1>1, <1>2, <2>3, <2>4, <2>5, WorkerMoves
<1>6. Open(r) => Current(runs[r]) /\ request.asset \in {"quarantined", "validating"}
  BY <1>3 DEF IInv, RequestFits, RequestFollowsRun, Current
<1>7. \/ Disposes(w, "retry")
      \/ Disposes(w, "acknowledge") /\ ~Open(r)
  BY <1>6 DEF ClaimRefused, Open
<1> QED
  BY <1>4, <1>5, <1>7

\* A worker gives a delivery up or starts afresh.
LEMMA RestartKeeps ==
    ASSUME IInv, NEW w \in Worker, GiveUp(w) \/ Interrupt(w) PROVE IInv'
<1>1. /\ UNCHANGED <<request, runs, outbox, stream, tab, notices>>
      /\ worker' = [worker EXCEPT ![w] = Start]
      /\ \/ interruptions' = interruptions
         \/ interruptions < MaxInterruptions /\ interruptions' = interruptions + 1
  BY DEF GiveUp, Interrupt, Disposes, database, counters
<1>2. TypeOK /\ notices \in 0..MaxNotices /\ interruptions \in 0..MaxInterruptions
  BY DEF IInv, TypeOK
<1>3. interruptions' \in 0..MaxInterruptions
  BY <1>1, <1>2, AnalysisAssumption
<1> QED
  BY <1>1, <1>2, <1>3, StartFits, WorkerMoves

-----------------------------------------------------------------------------
(* The outbox and the stream                                               *)

\* A notice is appended.
LEMMA NoticeAdded ==
    ASSUME TypeOK, outbox' = Append(outbox, Unpublished(Notice))
    PROVE  /\ outbox' \in Seq(OutboxRow) /\ DOMAIN outbox \subseteq DOMAIN outbox'
           /\ \A i \in DOMAIN outbox : outbox'[i] = outbox[i]
           /\ \A i \in DOMAIN outbox' : i \in DOMAIN outbox \/ outbox'[i].of = Notice
<1>1. PICK x : x = Unpublished(Notice)
  OBVIOUS
<1>2. x \in OutboxRow /\ x.of = Notice
  BY <1>1 DEF Unpublished, OutboxRow
<1>3. outbox \in Seq(OutboxRow) /\ outbox' = Append(outbox, x)
  BY <1>1 DEF TypeOK
<1> QED
  BY <1>2, <1>3, Appended

\* Notices come and go without a run's row changing.
LEMMA NoticesMove ==
    ASSUME IInv, UNCHANGED <<request, runs, stream, worker, tab, interruptions>>,
           notices' \in 0..MaxNotices, outbox' \in Seq(OutboxRow),
           DOMAIN outbox \subseteq DOMAIN outbox',
           \A i \in DOMAIN outbox : /\ outbox'[i].of = outbox[i].of
                                    /\ outbox[i].of # Notice => outbox'[i] = outbox[i],
           \A i \in DOMAIN outbox' : i \in DOMAIN outbox \/ outbox'[i].of = Notice
    PROVE  IInv'
<1>1. Grown
  BY DEF Grown, Open
<1>2. WorkersFit'
  BY <1>1, WorkersStay DEF IInv
<1>3. TypeOK'
  BY DEF IInv, TypeOK
<1>4. RequestFits' /\ TabsFit' /\ StreamFits'
  BY DEF IInv, RequestFits, RequestFollowsRun, TabsFit, StreamFits, Open
<1>5. OutboxFits'
  BY DEF IInv, OutboxFits, InStream
<1> QED
  BY <1>2, <1>3, <1>4, <1>5 DEF IInv

LEMMA OtherNoticeKeeps ==
    ASSUME IInv, OtherNotice PROVE IInv'
<1>1. /\ UNCHANGED <<request, runs, stream, worker, tab, interruptions>>
      /\ notices < MaxNotices /\ notices' = notices + 1
      /\ outbox' = Append(outbox, Unpublished(Notice))
  BY DEF OtherNotice, database
<1>2. TypeOK /\ notices \in 0..MaxNotices
  BY DEF IInv, TypeOK
<1>3. notices' \in 0..MaxNotices
  BY <1>1, <1>2, AnalysisAssumption
<1> QED
  BY <1>1, <1>2, <1>3, NoticeAdded, NoticesMove

LEMMA PublishNoticesKeeps ==
    ASSUME IInv, PublishNotices PROVE IInv'
<1>1. PICK rows : /\ outbox' = MarkedAll(rows)
                  /\ rows \subseteq DOMAIN outbox /\ \A i \in rows : outbox[i].of = Notice
  BY DEF PublishNotices, Oldest, Pending
<1>2. UNCHANGED <<request, runs, stream, worker, tab, notices, interruptions>>
  BY DEF PublishNotices, database, counters
<1>3. TypeOK /\ notices \in 0..MaxNotices /\ outbox \in Seq(OutboxRow)
  BY DEF IInv, TypeOK
<1>4. \A i \in DOMAIN outbox : outbox[i] \in OutboxRow
  BY <1>3, Typed
<1>5. DOMAIN outbox' = DOMAIN outbox
      /\ \A i \in DOMAIN outbox :
           outbox'[i] = [outbox[i] EXCEPT !.published = outbox[i].published \/ i \in rows]
  BY <1>1 DEF MarkedAll
<1>6. ASSUME NEW i \in DOMAIN outbox
      PROVE  /\ outbox'[i] \in OutboxRow /\ outbox'[i].of = outbox[i].of
             /\ outbox[i].of # Notice => outbox'[i] = outbox[i]
  <2>1. PICK b \in BOOLEAN : b <=> (outbox[i].published \/ i \in rows)
    OBVIOUS
  <2>2. b = (outbox[i].published \/ i \in rows)
    BY <1>4, <2>1 DEF OutboxRow
  <2>3. outbox'[i] = [outbox[i] EXCEPT !.published = b]
    BY <1>5, <2>2
  <2>4. outbox[i].of # Notice => b = outbox[i].published
    BY <1>1, <1>4, <2>2 DEF OutboxRow
  <2> QED
    BY <1>4, <2>3, <2>4 DEF OutboxRow
<1>7. outbox' \in Seq(OutboxRow)
  <2>1. DOMAIN outbox = 1..Len(outbox) /\ Len(outbox) \in Nat
    BY <1>3
  <2>2. outbox' = [i \in 1..Len(outbox) |-> outbox'[i]]
    BY <1>1, <2>1 DEF MarkedAll
  <2> QED
    BY <1>6, <2>1, <2>2
<1> QED
  BY <1>2, <1>3, <1>5, <1>6, <1>7, NoticesMove

\* XADD: the entry of a run whose row is pending.
LEMMA PublishKeeps ==
    ASSUME IInv, NEW w \in Worker, Publish(w) PROVE IInv'
<1>1. PICK i \in DOMAIN outbox :
         /\ First(i, worker[w].batch)
         /\ stream' = Append(stream, [run |-> outbox[i].of, state |-> "new", idle |-> FALSE])
  BY DEF Publish
<1>2. /\ UNCHANGED <<request, runs, outbox, tab, notices, interruptions>>
      /\ worker' = [worker EXCEPT ![w].at = "mark"]
  BY DEF Publish, database, counters
<1>3. TypeOK /\ worker[w] \in Loop /\ worker \in [Worker -> Loop] /\ LoopFits(worker[w])
  BY DEF IInv, TypeOK, WorkersFit
<1>4. PICK m : m = [run |-> outbox[i].of, state |-> "new", idle |-> FALSE]
  OBVIOUS
<1>5. outbox[i].of \in DOMAIN runs
  BY <1>1, <1>3 DEF IInv, OutboxFits, LoopFits, First
<1>6. m \in Message /\ m.run = outbox[i].of /\ m.state = "new"
  BY <1>3, <1>4, <1>5, Typed DEF Message
<1>7. stream' = Append(stream, m) /\ stream \in Seq(Message)
  BY <1>1, <1>3, <1>4 DEF TypeOK
<1>8. /\ stream' \in Seq(Message) /\ Len(stream) + 1 \in DOMAIN stream'
      /\ DOMAIN stream' = DOMAIN stream \cup {Len(stream) + 1}
      /\ \A k \in DOMAIN stream : stream'[k] = stream[k]
      /\ stream'[Len(stream) + 1] = m
  BY <1>6, <1>7, Appended
<1>9. Grown
  BY <1>2, <1>8 DEF Grown, Open
<1>10. PICK l : l = [worker[w] EXCEPT !.at = "mark"]
  OBVIOUS
<1>11. l \in Loop /\ l.at = "mark" /\ l.batch = worker[w].batch
  BY <1>3, <1>10 DEF Loop, At
<1>12. worker' = [worker EXCEPT ![w] = l]
  BY <1>2, <1>3, <1>10
<1>13. LoopFits(l)'
  <2>1. \A j \in l.batch : First(j, l.batch) => j = i
    <3>1. \A j \in l.batch : j \in Nat
      BY <1>11 DEF Loop
    <3> QED
      BY <1>1, <1>11, <3>1 DEF First
  <2>2. \E k \in DOMAIN stream' : stream'[k].run = outbox'[i].of
    BY <1>2, <1>6, <1>8
  <2>3. \A j \in l.batch : First(j, l.batch)
          => \E k \in DOMAIN stream' : stream'[k].run = outbox'[j].of
    BY <2>1, <2>2
  <2>4. l.batch \subseteq DOMAIN outbox' /\ \A j \in l.batch : outbox'[j].of # Notice
    BY <1>2, <1>3, <1>11 DEF LoopFits
  <2> QED
    BY <1>11, <2>3, <2>4 DEF LoopFits, First, InStream
<1>14. worker' \in [Worker -> Loop] /\ WorkersFit'
  BY <1>3, <1>9, <1>11, <1>12, <1>13, WorkersKept DEF IInv
<1>15. TypeOK'
  BY <1>2, <1>8, <1>14 DEF IInv, TypeOK
<1>16. RequestFits' /\ TabsFit'
  BY <1>2 DEF IInv, RequestFits, RequestFollowsRun, TabsFit, Open
<1>17. StreamFits'
  BY <1>2, <1>5, <1>6, <1>8 DEF IInv, StreamFits, Open
<1>18. OutboxFits'
  <2>1. \A r : InStream(r) => \E k \in DOMAIN stream' : stream'[k].run = r
    BY <1>8 DEF InStream
  <2> QED
    BY <1>2, <2>1 DEF IInv, OutboxFits, InStream
<1> QED
  BY <1>14, <1>15, <1>16, <1>17, <1>18 DEF IInv

\* The row is marked once its entry is in the stream.
LEMMA MarkPublishedKeeps ==
    ASSUME IInv, NEW w \in Worker, MarkPublished(w) PROVE IInv'
<1>1. PICK i \in DOMAIN outbox :
         /\ First(i, worker[w].batch)
         /\ outbox' = [outbox EXCEPT ![i].published = TRUE]
         /\ worker' = [worker EXCEPT ![w].batch = @ \ {i},
                      ![w].at = IF worker[w].batch = {i} THEN "poll" ELSE "publish"]
  BY DEF MarkPublished
<1>2. /\ UNCHANGED <<request, runs, stream, tab, notices, interruptions>>
      /\ worker[w].at = "mark"
  BY DEF MarkPublished, database, counters
<1>3. TypeOK /\ worker[w] \in Loop /\ worker \in [Worker -> Loop] /\ LoopFits(worker[w])
      /\ outbox \in Seq(OutboxRow) /\ outbox[i] \in OutboxRow
  BY Typed DEF IInv, TypeOK, WorkersFit
<1>4. PICK x : x = [outbox[i] EXCEPT !.published = TRUE]
  OBVIOUS
<1>5. x \in OutboxRow /\ x.of = outbox[i].of
  BY <1>3, <1>4 DEF OutboxRow
<1>6. outbox' = [outbox EXCEPT ![i] = x]
  BY <1>1, <1>4
<1>7. /\ outbox' \in Seq(OutboxRow) /\ DOMAIN outbox' = DOMAIN outbox
      /\ \A k \in DOMAIN outbox : outbox'[k] = IF k = i THEN x ELSE outbox[k]
  BY <1>3, <1>5, <1>6, Replaced
<1>8. InStream(outbox[i].of)
  BY <1>1, <1>2, <1>3 DEF LoopFits, First
<1>9. Grown
  BY <1>2, <1>5, <1>7 DEF Grown, Open
<1>10. PICK at \in At : at = IF worker[w].batch = {i} THEN "poll" ELSE "publish"
  BY DEF At
<1>11. PICK l : l = [worker[w] EXCEPT !.batch = @ \ {i}, !.at = at]
  OBVIOUS
<1>12. l \in Loop /\ l.at = at /\ l.batch = worker[w].batch \ {i}
  BY <1>3, <1>11 DEF Loop
<1>13. worker' = [worker EXCEPT ![w] = l]
  BY <1>1, <1>3, <1>10, <1>11
<1>14. LoopFits(l)
  BY <1>3, <1>10, <1>12 DEF LoopFits
<1>15. LoopFits(l)'
  BY <1>9, <1>14, LoopKept
<1>16. worker' \in [Worker -> Loop] /\ WorkersFit'
  BY <1>3, <1>9, <1>12, <1>13, <1>15, WorkersKept DEF IInv
<1>17. TypeOK'
  BY <1>2, <1>7, <1>16 DEF IInv, TypeOK
<1>18. RequestFits' /\ TabsFit' /\ StreamFits'
  BY <1>2 DEF IInv, RequestFits, RequestFollowsRun, TabsFit, StreamFits, Open
<1>19. OutboxFits'
  BY <1>2, <1>5, <1>7, <1>8 DEF IInv, OutboxFits, InStream
<1> QED
  BY <1>16, <1>17, <1>18, <1>19 DEF IInv

\* Steps of the consumer group.
LEMMA StreamMoves ==
    ASSUME IInv, UNCHANGED <<request, runs, outbox, tab, notices, interruptions>>,
           NEW i \in DOMAIN stream, NEW m \in Message, stream' = [stream EXCEPT ![i] = m],
           m.run = stream[i].run, m.state = "acked" => ~Open(m.run),
           worker' \in [Worker -> Loop], Grown => WorkersFit'
    PROVE  IInv'
<1>1. stream \in Seq(Message)
  BY DEF IInv, TypeOK
<1>2. /\ stream' \in Seq(Message) /\ DOMAIN stream' = DOMAIN stream
      /\ \A k \in DOMAIN stream : stream'[k] = IF k = i THEN m ELSE stream[k]
  BY <1>1, Replaced
<1>3. \A k \in DOMAIN stream : stream'[k].run = stream[k].run
  BY <1>2
<1>4. Grown
  BY <1>2, <1>3 DEF Grown, Open
<1>5. TypeOK'
  BY <1>2 DEF IInv, TypeOK
<1>6. RequestFits' /\ TabsFit'
  BY DEF IInv, RequestFits, RequestFollowsRun, TabsFit, Open
<1>7. OutboxFits' /\ StreamFits'
  BY <1>2, <1>3 DEF IInv, OutboxFits, StreamFits, InStream, Open
<1> QED
  BY <1>4, <1>5, <1>6, <1>7 DEF IInv

LEMMA BecomesIdleKeeps ==
    ASSUME IInv, NEW i \in DOMAIN stream, BecomesIdle(i) PROVE IInv'
<1>1. /\ UNCHANGED <<request, runs, outbox, worker, tab, notices, interruptions>>
      /\ stream[i].state = "pending" /\ stream' = [stream EXCEPT ![i].idle = TRUE]
  BY DEF BecomesIdle, database, counters
<1>2. stream[i] \in Message /\ worker \in [Worker -> Loop]
  BY Typed DEF IInv, TypeOK
<1>3. PICK m : m = [stream[i] EXCEPT !.idle = TRUE]
  OBVIOUS
<1>4. m \in Message /\ m.run = stream[i].run /\ m.state = "pending"
  BY <1>1, <1>2, <1>3 DEF Message
<1>5. stream' = [stream EXCEPT ![i] = m]
  BY <1>1, <1>3
<1>6. Grown => WorkersFit'
  BY <1>1, WorkersStay DEF IInv
<1> QED
  BY <1>1, <1>2, <1>4, <1>5, <1>6, StreamMoves

\* XAUTOCLAIM and XREADGROUP.
LEMMA TakeMessageKeeps ==
    ASSUME IInv, NEW w \in Worker, TakeMessage(w) PROVE IInv'
<1>1. /\ UNCHANGED <<request, runs, outbox, tab, notices, interruptions>>
      /\ TypeOK /\ worker[w] \in Loop /\ worker \in [Worker -> Loop]
      /\ notices \in 0..MaxNotices /\ interruptions \in 0..MaxInterruptions
      /\ LoopFits(worker[w])
  BY DEF IInv, TypeOK, WorkersFit, TakeMessage, database, counters
<1>2. CASE worker' = [worker EXCEPT ![w] = Start] /\ UNCHANGED stream
  BY <1>1, <1>2, StartFits, WorkerMoves
<1>3. ASSUME NEW i \in DOMAIN stream, Takes(w, i) PROVE IInv'
  <2>1. stream[i] \in Message /\ i \in Nat
    BY <1>1, Typed
  <2>2. PICK m : m = [stream[i] EXCEPT !.state = "pending", !.idle = FALSE]
    OBVIOUS
  <2>3. m \in Message /\ m.run = stream[i].run /\ m.state = "pending"
    BY <2>1, <2>2 DEF Message
  <2>4. stream' = [stream EXCEPT ![i] = m]
    BY <1>3, <2>2 DEF Takes
  <2>5. PICK l : l = [worker[w] EXCEPT !.at = "claim", !.message = i, !.run = stream[i].run]
    OBVIOUS
  <2>6. worker' = [worker EXCEPT ![w] = l]
    BY <1>1, <1>3, <2>5 DEF Takes
  <2>7. stream[i].run \in DOMAIN runs
    BY DEF IInv, StreamFits
  <2>8. stream[i].run \in 0..MaxRuns
    BY <1>1, <2>7, Typed
  <2>9. /\ l \in Loop /\ l.at = "claim" /\ l.batch = worker[w].batch /\ l.message = i
        /\ l.run = stream[i].run
    BY <1>1, <2>1, <2>5, <2>8 DEF Loop, At
  <2>10. LoopFits(l)
    BY <1>1, <2>7, <2>9 DEF LoopFits
  <2>11. ASSUME Grown PROVE worker' \in [Worker -> Loop] /\ WorkersFit'
    <3>1. LoopFits(l)'
      BY <2>10, <2>11, LoopKept
    <3> QED
      BY <1>1, <2>6, <2>9, <2>11, <3>1, WorkersKept DEF IInv
  <2>12. worker' \in [Worker -> Loop]
    BY <1>1, <2>6, <2>9
  <2> QED
    BY <1>1, <2>3, <2>4, <2>11, <2>12, StreamMoves
<1> QED
  BY <1>2, <1>3 DEF TakeMessage

\* XACK: the run has its verdict.
LEMMA AcknowledgeKeeps ==
    ASSUME IInv, NEW w \in Worker, Acknowledge(w) PROVE IInv'
<1>1. /\ UNCHANGED <<request, runs, outbox, tab, notices, interruptions>>
      /\ TypeOK /\ worker \in [Worker -> Loop] /\ LoopFits(worker[w])
      /\ worker[w].at = "ack" /\ worker' = [worker EXCEPT ![w] = Start]
  BY DEF IInv, TypeOK, WorkersFit, Acknowledge, database, counters
<1>2. PICK i \in DOMAIN stream : i = worker[w].message /\ ~Open(stream[i].run)
  BY <1>1 DEF LoopFits
<1>3. stream[i] \in Message
  BY <1>1, Typed
<1>4. PICK m : m = [stream[i] EXCEPT !.state = "acked", !.idle = FALSE]
  OBVIOUS
<1>5. m \in Message /\ m.run = stream[i].run /\ m.state = "acked"
  BY <1>3, <1>4 DEF Message
<1>6. stream' = [stream EXCEPT ![i] = m]
  BY <1>2, <1>4 DEF Acknowledge
<1>7. Start \in Loop /\ LoopFits(Start)
  BY <1>1, StartFits
<1>8. ASSUME Grown PROVE WorkersFit'
  <2>1. PICK l : l = Start
    OBVIOUS
  <2>2. LoopFits(l)'
    BY <1>7, <1>8, <2>1, LoopKept
  <2> QED
    BY <1>1, <1>7, <1>8, <2>1, <2>2, WorkersKept DEF IInv
<1>9. worker' \in [Worker -> Loop]
  BY <1>1, <1>7
<1> QED
  BY <1>1, <1>2, <1>5, <1>6, <1>8, <1>9, StreamMoves

-----------------------------------------------------------------------------
(* The request and its runs                                                *)

\* What VerdictIsFinal asks of a step.
VerdictsStand ==
    /\ \A r \in DOMAIN runs :
          ~Open(r) => runs'[r].status = runs[r].status /\ runs'[r].results = runs[r].results
    /\ request.status = "rejected" => request'.status = "rejected"

\* A row of the outbox or of a new run.
LEMMA NewRows ==
    ASSUME TypeOK, NEW n \in Nat, NEW of \in Run \cup {Notice}
    PROVE  /\ Queued(n).version = n /\ Queued(n).results = 0
           /\ Queued(n).status = "queued" /\ Queued(n) \in RunRow
           /\ Unpublished(of) \in OutboxRow /\ Unpublished(of).of = of
           /\ ~Unpublished(of).published
  BY Typed DEF Queued, Unpublished, RunRow, RunStatus, Failure, OutboxRow

LEMMA OpenRunIsNewest ==
    ASSUME IInv, NEW r \in DOMAIN runs, Open(r)
    PROVE  /\ r = Len(runs) /\ request.status = "analyzing" /\ runs[r].version = request.version
           /\ request.asset \in {"quarantined", "validating"} /\ runs[r].results = 0
  BY DEF IInv, RequestFits, RequestFollowsRun, Open, Terminal

\* A run is queued with its outbox row, when the earlier ones have verdicts.
LEMMA RunAdded ==
    ASSUME IInv, Len(runs) < MaxRuns, request.status \notin {"analyzing", "rejected"},
           request' = [status |-> "analyzing", version |-> request.version + 1,
                       asset |-> "quarantined"],
           runs' = Append(runs, Queued(request.version + 1)),
           outbox' \in Seq(OutboxRow), DOMAIN outbox \subseteq DOMAIN outbox',
           \A i \in DOMAIN outbox : outbox'[i] = outbox[i],
           \A i \in DOMAIN outbox' :
              \/ i \in DOMAIN outbox
              \/ outbox'[i].of \in {Notice, Len(runs) + 1} /\ ~outbox'[i].published,
           \E i \in DOMAIN outbox' : outbox'[i].of = Len(runs) + 1,
           UNCHANGED <<stream, worker, notices, interruptions>>,
           tab' \in [Tab -> {0, 1} \X Nat],
           \A t \in Tab : tab'[t] \in {tab[t], <<0, 0>>}
    PROVE  IInv' /\ VerdictsStand
<1>1. /\ TypeOK /\ request.version \in Nat /\ Len(runs) \in Nat /\ MaxRuns \in Nat
      /\ runs \in Seq(RunRow) /\ DOMAIN runs = 1..Len(runs)
      /\ tab \in [Tab -> {0, 1} \X Nat]
  BY Typed DEF IInv, TypeOK
<1>2. PICK x : x = Queued(request.version + 1)
  OBVIOUS
<1>3. /\ x \in RunRow /\ x.version = request.version + 1 /\ x.results = 0 /\ x.status = "queued"
  <2>1. request.version + 1 \in Nat /\ Notice \in Run \cup {Notice}
    BY <1>1
  <2> QED
    BY <1>1, <1>2, <2>1, NewRows
<1>4. /\ runs' \in Seq(RunRow) /\ Len(runs') = Len(runs) + 1
      /\ DOMAIN runs' = DOMAIN runs \cup {Len(runs) + 1}
      /\ \A k \in DOMAIN runs : runs'[k] = runs[k]
      /\ runs'[Len(runs) + 1] = x
  <2>1. runs' = Append(runs, x)
    BY <1>2
  <2> QED
    BY <1>1, <1>3, <2>1, Appended
<1>5. \A k \in DOMAIN runs : ~Open(k)
  BY OpenRunIsNewest
<1>6. Grown
  BY <1>4 DEF Grown, Open
<1>7. WorkersFit'
  BY <1>6, WorkersStay DEF IInv
<1>8. Len(runs') <= MaxRuns
  BY <1>1, <1>4
<1>9. /\ request'.status = "analyzing" /\ request'.version = request.version + 1
      /\ request'.asset = "quarantined"
      /\ request' \in [status : RequestStatus, version : Nat, asset : AssetStatus]
  BY <1>1 DEF RequestStatus, AssetStatus
<1>10. TypeOK'
  BY <1>4, <1>8, <1>9 DEF IInv, TypeOK
<1>11. \A k \in DOMAIN runs' : k \in DOMAIN runs \/ (k = Len(runs') /\ runs'[k] = x)
  BY <1>4
<1>12. \A k \in DOMAIN runs' : k \in DOMAIN runs \/ runs'[k].status \notin Terminal
  BY <1>3, <1>11 DEF Terminal
<1>13. \A k \in DOMAIN runs : k # Len(runs')
  BY <1>1, <1>4
<1>14. \A k \in DOMAIN runs : ~Open(k)'
  BY <1>4, <1>5 DEF Open
<1>15. RequestFollowsRun'
  <2>1. ASSUME NEW k \in DOMAIN runs', k \in DOMAIN runs
        PROVE  /\ runs'[k].status \in Terminal /\ k # Len(runs')
               /\ runs'[k].results =
                    (IF runs'[k].status \in {"succeeded", "awaiting_profile"} THEN 1 ELSE 0)
    BY <1>4, <1>5, <1>13, <2>1 DEF IInv, RequestFits, RequestFollowsRun, Open
  <2>2. ASSUME NEW k \in DOMAIN runs', k \notin DOMAIN runs
        PROVE  /\ k = Len(runs') /\ runs'[k].status \notin Terminal
               /\ runs'[k].version = request'.version /\ runs'[k].results = 0
               /\ runs'[k].status \notin {"succeeded", "awaiting_profile"}
    BY <1>3, <1>9, <1>11, <2>2 DEF Terminal
  <2> QED
    BY <1>9, <2>1, <2>2 DEF RequestFollowsRun, Open
<1>16. RequestFits'
  <2>1. Len(runs') # 0
    BY <1>1, <1>4
  <2> QED
    BY <1>9, <1>15, <2>1 DEF RequestFits
<1>17. TabsFit'
  <2>1. ASSUME NEW t \in Tab
        PROVE  tab'[t][2] <= request.version + 1 /\ tab'[t] # <<1, request.version + 1>>
    <3>1. tab[t][2] <= request.version /\ tab[t][2] \in Nat
      BY <1>1 DEF IInv, TabsFit
    <3>2. CASE tab'[t] = tab[t]
      BY <1>1, <3>1, <3>2
    <3>3. CASE tab'[t] = <<0, 0>>
      BY <1>1, <3>3
    <3> QED
      BY <3>2, <3>3
  <2> QED
    BY <1>9, <2>1 DEF TabsFit
<1>18. StreamFits'
  BY <1>4 DEF IInv, StreamFits, Open
<1>19. OutboxFits'
  <2>1. \A r : InStream(r)' <=> InStream(r)
    BY DEF InStream
  <2>2. ASSUME NEW i \in DOMAIN outbox', outbox'[i].of # Notice
        PROVE  outbox'[i].of \in DOMAIN runs' /\ (outbox'[i].published
                 => \E k \in DOMAIN stream' : stream'[k].run = outbox'[i].of)
    BY <1>4, <2>2 DEF IInv, OutboxFits, InStream
  <2>3. \A r \in DOMAIN runs' : \E i \in DOMAIN outbox' : outbox'[i].of = r
    BY <1>4 DEF IInv, OutboxFits
  <2> QED
    BY <2>2, <2>3 DEF OutboxFits, InStream
<1>20. VerdictsStand
  BY <1>4 DEF VerdictsStand
<1> QED
  BY <1>7, <1>10, <1>16, <1>17, <1>18, <1>19, <1>20 DEF IInv

LEMMA SubmitKeeps ==
    ASSUME IInv, Submit PROVE IInv' /\ VerdictsStand
<1>1. /\ request.status = "draft"
      /\ request' = [request EXCEPT !.status = "analyzing", !.version = @ + 1]
      /\ runs' = Append(runs, Queued(request.version + 1))
      /\ outbox' = outbox \o <<Unpublished(1), Unpublished(Notice)>>
      /\ UNCHANGED <<stream, worker, tab, notices, interruptions>>
  BY DEF Submit, counters
<1>2. /\ TypeOK /\ outbox \in Seq(OutboxRow)
      /\ request \in [status : RequestStatus, version : Nat, asset : AssetStatus]
      /\ tab \in [Tab -> {0, 1} \X Nat]
  BY DEF IInv, TypeOK
<1>3. Len(runs) = 0 /\ request.asset = "quarantined"
  BY <1>1 DEF IInv, RequestFits
<1>4. MaxRuns \in Nat \ {0} /\ 1 \in Run
  BY AnalysisAssumption DEF Run
<1>5. request' = [status |-> "analyzing", version |-> request.version + 1,
                  asset |-> "quarantined"]
  BY <1>1, <1>2, <1>3
<1>6. PICK a, b : a = Unpublished(1) /\ b = Unpublished(Notice)
  OBVIOUS
<1>7. a \in OutboxRow /\ a.of = 1 /\ ~a.published /\ b \in OutboxRow /\ b.of = Notice
      /\ ~b.published
  BY <1>2, <1>4, <1>6, NewRows, 0 \in Nat
<1>8. PICK n \in Nat : n = Len(outbox)
  BY <1>2
<1>9. outbox' \in Seq(OutboxRow)
  <2>1. <<a, b>> \in Seq(OutboxRow)
    BY <1>7
  <2> QED
    BY <1>1, <1>2, <1>6, <2>1
<1>10. /\ DOMAIN outbox = 1..n /\ Len(outbox') = n + 2
       /\ \A i \in 1..n : outbox'[i] = outbox[i]
       /\ outbox'[n + 1] = a /\ outbox'[n + 2] = b
  <2>1. <<a, b>> \in Seq(OutboxRow) /\ Len(<<a, b>>) = 2 /\ <<a, b>>[1] = a /\ <<a, b>>[2] = b
    BY <1>7
  <2>2. outbox' = outbox \o <<a, b>>
    BY <1>1, <1>6
  <2> QED
    BY <1>2, <1>8, <2>1, <2>2
<1>11. DOMAIN outbox' = 1..(n + 2)
  BY <1>9, <1>10
<1>12. \A i \in 1..(n + 2) : i \in 1..n \/ i = n + 1 \/ i = n + 2
  OBVIOUS
<1>13. n + 1 \in 1..(n + 2) /\ 1..n \subseteq 1..(n + 2)
  OBVIOUS
<1>14. \A i \in DOMAIN outbox' :
          \/ i \in DOMAIN outbox
          \/ outbox'[i].of \in {Notice, Len(runs) + 1} /\ ~outbox'[i].published
  BY <1>3, <1>7, <1>10, <1>11, <1>12
<1>15. \E i \in DOMAIN outbox' : outbox'[i].of = Len(runs) + 1
  BY <1>3, <1>7, <1>10, <1>11, <1>13
<1>16. /\ DOMAIN outbox \subseteq DOMAIN outbox'
       /\ \A i \in DOMAIN outbox : outbox'[i] = outbox[i]
  BY <1>10, <1>11, <1>13
<1>17. Len(runs) < MaxRuns
  BY <1>3, <1>4
<1> QED
  BY <1>1, <1>2, <1>5, <1>9, <1>14, <1>15, <1>16, <1>17, RunAdded

\* A tab that is current retries a request that has its verdict and was not
\* rejected.
LEMMA CommitRetryKeeps ==
    ASSUME IInv, NEW t \in Tab, CommitRetry(t) PROVE IInv' /\ VerdictsStand
<1>1. /\ TypeOK /\ outbox \in Seq(OutboxRow) /\ request.version \in Nat
      /\ tab \in [Tab -> {0, 1} \X Nat] /\ Len(runs) \in Nat /\ MaxRuns \in Nat
  BY Typed DEF IInv, TypeOK
<1>2. UNCHANGED <<stream, worker, notices, interruptions>> /\ tab[t][1] = 1
      /\ tab' = [tab EXCEPT ![t] = <<0, 0>>]
  BY DEF CommitRetry, NewRun, counters
<1>3. tab' \in [Tab -> {0, 1} \X Nat] /\ \A x \in Tab : tab'[x] \in {tab[x], <<0, 0>>}
  BY <1>1, <1>2
<1>4. CASE tab[t][2] = request.version
  <2>1. tab[t] = <<1, request.version>>
    BY <1>1, <1>2, <1>4
  <2>2. request.status \in {"analysis_ready", "analysis_failed"} /\ Len(runs) < MaxRuns
    BY <2>1 DEF IInv, TabsFit
  <2>3. NewRun(t)
    BY <1>4 DEF CommitRetry
  <2>4. PICK n : n = Len(runs) + 1
    OBVIOUS
  <2>5. n \in Run
    BY <1>1, <2>2, <2>4 DEF Run
  <2>6. PICK a : a = Unpublished(n)
    OBVIOUS
  <2>7. a \in OutboxRow /\ a.of = n /\ ~a.published
    BY <1>1, <2>5, <2>6, NewRows, 0 \in Nat
  <2>8. outbox' = Append(outbox, a)
    BY <2>3, <2>4, <2>6 DEF NewRun
  <2>9. /\ outbox' \in Seq(OutboxRow) /\ Len(outbox) + 1 \in DOMAIN outbox'
        /\ DOMAIN outbox' = DOMAIN outbox \cup {Len(outbox) + 1}
        /\ \A i \in DOMAIN outbox : outbox'[i] = outbox[i]
        /\ outbox'[Len(outbox) + 1] = a
    BY <1>1, <2>7, <2>8, Appended
  <2>10. \A i \in DOMAIN outbox' :
           \/ i \in DOMAIN outbox
           \/ outbox'[i].of \in {Notice, Len(runs) + 1} /\ ~outbox'[i].published
    BY <2>4, <2>7, <2>9
  <2>11. \E i \in DOMAIN outbox' : outbox'[i].of = Len(runs) + 1
    BY <2>4, <2>7, <2>9
  <2>12. /\ request' = [status |-> "analyzing", version |-> request.version + 1,
                        asset |-> "quarantined"]
         /\ runs' = Append(runs, Queued(request.version + 1))
    BY <2>3 DEF NewRun
  <2> QED
    BY <1>2, <1>3, <2>2, <2>9, <2>10, <2>11, <2>12, RunAdded
<1>5. CASE tab[t][2] # request.version
  <2>1. UNCHANGED <<request, runs, outbox>>
    BY <1>5 DEF CommitRetry, database
  <2>2. Grown
    BY <1>2, <2>1, NothingGrew
  <2>3. WorkersFit'
    BY <1>2, <2>2, WorkersStay DEF IInv
  <2>4. TypeOK'
    BY <1>2, <1>3, <2>1 DEF IInv, TypeOK
  <2>5. TabsFit'
    <3>1. ASSUME NEW x \in Tab
          PROVE  /\ tab'[x][2] <= request.version
                 /\ tab'[x] = <<1, request.version>>
                      => request.status \in {"analysis_ready", "analysis_failed"}
                         /\ Len(runs) < MaxRuns
      <4>1. CASE tab'[x] = tab[x]
        BY <4>1 DEF IInv, TabsFit
      <4>2. CASE tab'[x] = <<0, 0>>
        BY <1>1, <4>2
      <4> QED
        BY <1>3, <4>1, <4>2
    <3> QED
      BY <2>1, <3>1 DEF TabsFit
  <2>6. RequestFits' /\ OutboxFits' /\ StreamFits'
    BY <1>2, <2>1 DEF IInv, RequestFits, RequestFollowsRun, OutboxFits, StreamFits, InStream, Open
  <2>7. VerdictsStand
    BY <2>1 DEF VerdictsStand
  <2> QED
    BY <2>3, <2>4, <2>5, <2>6, <2>7 DEF IInv
<1> QED
  BY <1>4, <1>5

LEMMA BeginRetryKeeps ==
    ASSUME IInv, NEW t \in Tab, BeginRetry(t) PROVE IInv' /\ VerdictsStand
<1>1. /\ UNCHANGED <<request, runs, outbox, stream, worker, notices, interruptions>>
      /\ request.status \in {"analysis_ready", "analysis_failed"} /\ Len(runs) < MaxRuns
      /\ tab' = [tab EXCEPT ![t] = <<1, request.version>>]
  BY DEF BeginRetry, database, counters
<1>2. request.version \in Nat /\ tab \in [Tab -> {0, 1} \X Nat]
  BY DEF IInv, TypeOK
<1>3. tab' \in [Tab -> {0, 1} \X Nat]
      /\ \A x \in Tab : tab'[x] = IF x = t THEN <<1, request.version>> ELSE tab[x]
  BY <1>1, <1>2
<1>4. WorkersFit'
  BY <1>1, NothingGrew, WorkersStay DEF IInv
<1>5. TypeOK'
  BY <1>1, <1>3 DEF IInv, TypeOK
<1>6. TabsFit'
  BY <1>1, <1>2, <1>3 DEF IInv, TabsFit
<1>7. RequestFits' /\ OutboxFits' /\ StreamFits'
  BY <1>1 DEF IInv, RequestFits, RequestFollowsRun, OutboxFits, StreamFits, InStream, Open
<1>8. VerdictsStand
  BY <1>1 DEF VerdictsStand
<1> QED
  BY <1>4, <1>5, <1>6, <1>7, <1>8 DEF IInv

LEMMA RejectKeeps ==
    ASSUME IInv, Reject PROVE IInv' /\ VerdictsStand
<1>1. /\ request.status \in {"analysis_ready", "analysis_failed"}
      /\ request' = [request EXCEPT !.status = "rejected", !.version = @ + 1]
      /\ outbox' = Append(outbox, Unpublished(Notice))
      /\ UNCHANGED <<runs, stream, worker, tab, notices, interruptions>>
  BY DEF Reject, counters
<1>2. /\ TypeOK /\ request \in [status : RequestStatus, version : Nat, asset : AssetStatus]
      /\ tab \in [Tab -> {0, 1} \X Nat]
  BY DEF IInv, TypeOK
<1>3. /\ outbox' \in Seq(OutboxRow) /\ DOMAIN outbox \subseteq DOMAIN outbox'
      /\ \A i \in DOMAIN outbox : outbox'[i] = outbox[i]
      /\ \A i \in DOMAIN outbox' : i \in DOMAIN outbox \/ outbox'[i].of = Notice
  BY <1>1, <1>2, NoticeAdded
<1>4. /\ request' \in [status : RequestStatus, version : Nat, asset : AssetStatus]
      /\ request'.status = "rejected" /\ request'.version = request.version + 1
      /\ request'.asset = request.asset
  <2>1. PICK v \in Nat : v = request.version + 1
    BY <1>2
  <2>2. PICK s \in RequestStatus : s = "rejected"
    BY DEF RequestStatus
  <2>3. request' = [request EXCEPT !.status = s, !.version = v]
    BY <1>1, <1>2, <2>1, <2>2
  <2> QED
    BY <1>2, <2>1, <2>2, <2>3
<1>5. \A k \in DOMAIN runs : ~Open(k) /\ ~Open(k)'
  BY <1>1, OpenRunIsNewest DEF Open
<1>6. Grown
  BY <1>1, <1>3, <1>5 DEF Grown
<1>7. WorkersFit'
  BY <1>1, <1>6, WorkersStay DEF IInv
<1>8. TypeOK'
  BY <1>1, <1>3, <1>4 DEF IInv, TypeOK
<1>9. RequestFits'
  BY <1>1, <1>4, <1>5 DEF IInv, RequestFits, RequestFollowsRun
<1>10. TabsFit'
  <2>1. ASSUME NEW t \in Tab
        PROVE  tab[t][2] <= request.version + 1 /\ tab[t] # <<1, request.version + 1>>
    <3>1. tab[t][2] <= request.version /\ tab[t][2] \in Nat /\ request.version \in Nat
      BY <1>2 DEF IInv, TabsFit
    <3> QED
      BY <3>1
  <2> QED
    BY <1>1, <1>4, <2>1 DEF TabsFit
<1>11. OutboxFits' /\ StreamFits'
  BY <1>1, <1>3, <1>5 DEF IInv, OutboxFits, StreamFits, InStream
<1>12. VerdictsStand
  BY <1>1, <1>4 DEF VerdictsStand
<1> QED
  BY <1>7, <1>8, <1>9, <1>10, <1>11, <1>12 DEF IInv

-----------------------------------------------------------------------------
(* A run moves                                                             *)

\* One run changes, and nothing else but the request, new notices and at
\* most one worker.
LEMMA RunMoves ==
    ASSUME IInv, NEW r \in DOMAIN runs, NEW x \in RunRow, runs' = [runs EXCEPT ![r] = x],
           ~Open(r) => x.status = runs[r].status /\ x.results = runs[r].results,
           request' \in [status : RequestStatus, version : Nat, asset : AssetStatus],
           request.status = "rejected" => request'.status = "rejected",
           \/ request'.version = request.version /\ request'.status = request.status
           \/ request'.version = request.version + 1,
           outbox' \in Seq(OutboxRow), DOMAIN outbox \subseteq DOMAIN outbox',
           \A i \in DOMAIN outbox : outbox'[i] = outbox[i],
           \A i \in DOMAIN outbox' : i \in DOMAIN outbox \/ outbox'[i].of = Notice,
           UNCHANGED <<stream, tab, notices, interruptions>>,
           RequestFits', worker' \in [Worker -> Loop], Grown => WorkersFit'
    PROVE  IInv' /\ VerdictsStand
<1>1. /\ TypeOK /\ request.version \in Nat /\ Len(runs) \in Nat /\ runs \in Seq(RunRow)
      /\ Len(runs) <= MaxRuns /\ tab \in [Tab -> {0, 1} \X Nat]
  BY Typed DEF IInv, TypeOK
<1>2. /\ runs' \in Seq(RunRow) /\ Len(runs') = Len(runs) /\ DOMAIN runs' = DOMAIN runs
      /\ \A k \in DOMAIN runs : runs'[k] = IF k = r THEN x ELSE runs[k]
  BY <1>1, Replaced
<1>3. \A k \in DOMAIN runs :
         ~Open(k) => runs'[k].status = runs[k].status /\ runs'[k].results = runs[k].results
  BY <1>2
<1>4. Grown
  BY <1>2, <1>3 DEF Grown, Open
<1>5. WorkersFit'
  BY <1>4
<1>6. TypeOK'
  BY <1>1, <1>2 DEF IInv, TypeOK
<1>7. TabsFit'
  <2>1. ASSUME NEW t \in Tab
        PROVE  /\ tab[t][2] <= request'.version
               /\ tab[t] = <<1, request'.version>>
                    => request'.status \in {"analysis_ready", "analysis_failed"}
                       /\ Len(runs) < MaxRuns
    <3>1. tab[t][2] <= request.version /\ tab[t][2] \in Nat
      BY <1>1 DEF IInv, TabsFit
    <3>2. CASE request'.version = request.version /\ request'.status = request.status
      BY <3>2 DEF IInv, TabsFit
    <3>3. CASE request'.version = request.version + 1
      BY <1>1, <3>1, <3>3
    <3> QED
      BY <3>2, <3>3
  <2> QED
    BY <1>2, <2>1 DEF TabsFit
<1>8. StreamFits'
  BY <1>2, <1>4 DEF IInv, StreamFits, Grown
<1>9. OutboxFits'
  BY <1>2 DEF IInv, OutboxFits, InStream
<1>10. VerdictsStand
  BY <1>3 DEF VerdictsStand
<1> QED
  BY <1>5, <1>6, <1>7, <1>8, <1>9, <1>10 DEF IInv

\* The run keeps its place: it is claimed, or its lease expires.
LEMMA StillFits ==
    ASSUME IInv, NEW r \in DOMAIN runs, NEW x \in RunRow, runs' = [runs EXCEPT ![r] = x],
           x.version = runs[r].version, x.results = runs[r].results,
           x.status = runs[r].status \/ (Open(r) /\ x.status = "running"),
           request'.status = request.status, request'.version = request.version,
           request'.asset = request.asset \/ (Open(r) /\ request'.asset = "validating")
    PROVE  RequestFits'
<1>1. runs \in Seq(RunRow) /\ Len(runs) \in Nat /\ DOMAIN runs = 1..Len(runs)
  BY Typed DEF IInv
<1>2. /\ Len(runs') = Len(runs) /\ DOMAIN runs' = DOMAIN runs
      /\ \A k \in DOMAIN runs : runs'[k] = IF k = r THEN x ELSE runs[k]
  BY <1>1, Replaced
<1>3. \A k \in DOMAIN runs : runs'[k].version = runs[k].version
                             /\ runs'[k].results = runs[k].results
  BY <1>2
<1>4. \A k \in DOMAIN runs :
         \/ runs'[k].status = runs[k].status
         \/ runs[k].status \notin Terminal /\ runs'[k].status = "running"
  BY <1>2 DEF Open
<1>5. \A k \in DOMAIN runs :
         /\ runs[k].status \in Terminal => runs'[k].status = runs[k].status
         /\ runs[k].status \notin Terminal => runs'[k].status \notin Terminal
  BY <1>4 DEF Terminal
<1>6. RequestFollowsRun'
  <2>1. ASSUME NEW k \in DOMAIN runs, runs[k].status \in Terminal
        PROVE  /\ runs'[k].status \in Terminal
               /\ runs'[k].results =
                    (IF runs'[k].status \in {"succeeded", "awaiting_profile"} THEN 1 ELSE 0)
               /\ k = Len(runs) =>
                    \/ request.status = "rejected"
                    \/ request.status = (IF runs'[k].status = "failed" THEN "analysis_failed"
                                         ELSE "analysis_ready")
    BY <1>3, <1>5, <2>1 DEF IInv, RequestFits, RequestFollowsRun, Open
  <2>2. ASSUME NEW k \in DOMAIN runs, runs[k].status \notin Terminal
        PROVE  /\ runs'[k].status \notin Terminal /\ runs'[k].results = 0
               /\ runs'[k].status \notin {"succeeded", "awaiting_profile"}
               /\ k = Len(runs) /\ request.status = "analyzing"
               /\ runs'[k].version = request.version
    <3>1. Open(k)
      BY <2>2 DEF Open
    <3> QED
      BY <1>3, <1>5, <2>2, <3>1, OpenRunIsNewest DEF Terminal
  <2> QED
    BY <1>2, <2>1, <2>2 DEF RequestFollowsRun, Open
<1>7. Len(runs') # 0 /\ request'.status # "draft"
  <2>1. Len(runs) # 0
    BY <1>1
  <2> QED
    BY <1>2, <2>1 DEF IInv, RequestFits
<1>8. ASSUME NEW k \in DOMAIN runs, runs'[k].status \notin Terminal
      PROVE  request'.asset \in {"quarantined", "validating"}
  <2>1. Open(k)
    BY <1>5, <1>8 DEF Open
  <2> QED
    BY <2>1, OpenRunIsNewest
<1> QED
  BY <1>2, <1>6, <1>7, <1>8 DEF RequestFits, Open

\* The open run gets its verdict, and the request shows it.
LEMMA EndFits ==
    ASSUME IInv, NEW r \in DOMAIN runs, Open(r), NEW x \in RunRow,
           runs' = [runs EXCEPT ![r] = x], x.status \in Terminal,
           x.results = (IF x.status \in {"succeeded", "awaiting_profile"} THEN 1 ELSE 0),
           request'.status = (IF x.status = "failed" THEN "analysis_failed" ELSE "analysis_ready")
    PROVE  RequestFits'
<1>1. runs \in Seq(RunRow) /\ Len(runs) \in Nat /\ DOMAIN runs = 1..Len(runs)
  BY Typed DEF IInv
<1>2. /\ Len(runs') = Len(runs) /\ DOMAIN runs' = DOMAIN runs
      /\ \A k \in DOMAIN runs : runs'[k] = IF k = r THEN x ELSE runs[k]
  BY <1>1, Replaced
<1>3. r = Len(runs) /\ \A k \in DOMAIN runs : k # r => ~Open(k)
  BY OpenRunIsNewest
<1>4. ASSUME NEW k \in DOMAIN runs
      PROVE  /\ runs'[k].status \in Terminal
             /\ runs'[k].results =
                  (IF runs'[k].status \in {"succeeded", "awaiting_profile"} THEN 1 ELSE 0)
             /\ k = Len(runs) => runs'[k] = x
  <2>1. CASE k = r
    BY <1>2, <2>1
  <2>2. CASE k # r
    BY <1>2, <1>3, <2>2 DEF IInv, RequestFits, RequestFollowsRun, Open
  <2> QED
    BY <2>1, <2>2
<1>5. RequestFollowsRun'
  BY <1>2, <1>4 DEF RequestFollowsRun, Open
<1>6. Len(runs') # 0 /\ request'.status # "draft"
  BY <1>1, <1>2
<1> QED
  BY <1>2, <1>4, <1>5, <1>6 DEF RequestFits, Open

\* The worker that gave the verdict goes on to acknowledge the message.
LEMMA AcknowledgesNext ==
    ASSUME IInv, NEW w \in Worker, worker[w].at \in {"claim", "work"},
           Disposes(w, "acknowledge"), runs'[worker[w].run].status \in Terminal
    PROVE  worker' \in [Worker -> Loop] /\ (Grown => WorkersFit')
<1>1. TypeOK /\ worker[w] \in Loop /\ worker \in [Worker -> Loop] /\ LoopFits(worker[w])
  BY DEF IInv, TypeOK, WorkersFit
<1>2. PICK at \in At : at = "ack"
  BY DEF At
<1>3. PICK l : l = [worker[w] EXCEPT !.at = at]
  OBVIOUS
<1>4. worker' = [worker EXCEPT ![w] = l]
  BY <1>1, <1>2, <1>3 DEF Disposes
<1>5. /\ l \in Loop /\ l.at = "ack" /\ l.batch = worker[w].batch
      /\ l.message = worker[w].message /\ l.run = worker[w].run
  BY <1>1, <1>2, <1>3 DEF Loop
<1>6. worker' \in [Worker -> Loop]
  BY <1>1, <1>4, <1>5
<1>7. ASSUME Grown PROVE WorkersFit'
  <2>1. PICK k : k = worker[w]
    OBVIOUS
  <2>2. LoopFits(k)'
    BY <1>1, <1>7, <2>1, LoopKept
  <2>3. PICK r : r = worker[w].run /\ runs'[r].status \in Terminal
    OBVIOUS
  <2>4. LoopFits(l)'
    BY <1>5, <2>1, <2>2, <2>3, worker[w].at \in {"claim", "work"}
    DEF LoopFits, Open
  <2> QED
    BY <1>1, <1>4, <1>5, <1>7, <2>4, WorkersKept DEF IInv
<1> QED
  BY <1>6, <1>7

LEMMA LeaseExpiresKeeps ==
    ASSUME IInv, NEW r \in DOMAIN runs, LeaseExpires(r) PROVE IInv' /\ VerdictsStand
<1>1. /\ UNCHANGED <<request, outbox, stream, worker, tab, notices, interruptions>>
      /\ runs' = [runs EXCEPT ![r].lease = "expired"]
  BY DEF LeaseExpires, counters
<1>2. /\ TypeOK /\ runs[r] \in RunRow /\ worker \in [Worker -> Loop]
      /\ outbox \in Seq(OutboxRow)
      /\ request \in [status : RequestStatus, version : Nat, asset : AssetStatus]
  BY Typed DEF IInv, TypeOK
<1>3. PICK x : x = [runs[r] EXCEPT !.lease = "expired"]
  OBVIOUS
<1>4. /\ x \in RunRow /\ x.status = runs[r].status /\ x.version = runs[r].version
      /\ x.results = runs[r].results
  BY <1>2, <1>3 DEF RunRow
<1>5. runs' = [runs EXCEPT ![r] = x]
  BY <1>1, <1>3
<1>6. RequestFits'
  BY <1>1, <1>4, <1>5, StillFits
<1>7. Grown => WorkersFit'
  BY <1>1, WorkersStay DEF IInv
<1> QED
  BY <1>1, <1>2, <1>4, <1>5, <1>6, <1>7, RunMoves

-----------------------------------------------------------------------------
(* Claims and verdicts                                                     *)

\* What Failed and Complete have in common: the run with the lease ends.
LEMMA VerdictKeeps ==
    ASSUME IInv, NEW w \in Worker, worker[w].at \in {"claim", "work"},
           NEW r \in DOMAIN runs, r = worker[w].run, Open(r), NEW x \in RunRow,
           runs' = [runs EXCEPT ![r] = x], x.status \in Terminal,
           x.results = (IF x.status \in {"succeeded", "awaiting_profile"} THEN 1 ELSE 0),
           request' \in [status : RequestStatus, version : Nat, asset : AssetStatus],
           request'.status = (IF x.status = "failed" THEN "analysis_failed" ELSE "analysis_ready"),
           request'.version = request.version + 1,
           outbox' = Append(outbox, Unpublished(Notice)),
           Disposes(w, "acknowledge"), UNCHANGED <<stream, tab, notices, interruptions>>
    PROVE  IInv' /\ VerdictsStand
<1>1. TypeOK /\ runs \in Seq(RunRow)
  BY DEF IInv, TypeOK
<1>2. /\ outbox' \in Seq(OutboxRow) /\ DOMAIN outbox \subseteq DOMAIN outbox'
      /\ \A i \in DOMAIN outbox : outbox'[i] = outbox[i]
      /\ \A i \in DOMAIN outbox' : i \in DOMAIN outbox \/ outbox'[i].of = Notice
  BY <1>1, NoticeAdded
<1>3. runs'[r] = x
  BY <1>1, Replaced
<1>4. RequestFits'
  BY EndFits
<1>5. worker' \in [Worker -> Loop] /\ (Grown => WorkersFit')
  BY <1>3, AcknowledgesNext
<1>6. request.status # "rejected"
  BY OpenRunIsNewest
<1> QED
  BY <1>2, <1>4, <1>5, <1>6, RunMoves

\* _fail_locked_run: an open run fails and its request shows it.
LEMMA FailedKeeps ==
    ASSUME IInv, NEW w \in Worker, worker[w].at \in {"claim", "work"},
           Open(worker[w].run), NEW code \in Failure, Failed(worker[w].run, code),
           Disposes(w, "acknowledge"), UNCHANGED <<stream, tab, notices, interruptions>>
    PROVE  IInv' /\ VerdictsStand
<1>1. /\ TypeOK /\ worker[w] \in Loop /\ LoopFits(worker[w])
      /\ request \in [status : RequestStatus, version : Nat, asset : AssetStatus]
  BY DEF IInv, TypeOK, WorkersFit
<1>2. PICK r \in DOMAIN runs : r = worker[w].run
  BY <1>1 DEF LoopFits
<1>3. /\ runs[r] \in RunRow /\ 0 \in 0..MaxAttempts /\ runs[r].results = 0
  BY <1>1, <1>2, Typed, OpenRunIsNewest
<1>4. PICK x : x = [runs[r] EXCEPT !.status = "failed", !.failure = code, !.token = 0,
                                  !.lease = "none"]
  OBVIOUS
<1>5. x \in RunRow /\ x.status = "failed" /\ x.results = 0
  BY <1>3, <1>4 DEF RunRow, RunStatus
<1>6. runs' = [runs EXCEPT ![r] = x]
  BY <1>2, <1>4 DEF Failed
<1>7. PICK a \in AssetStatus : a = IF request.asset = "validating" THEN "rejected"
                                 ELSE request.asset
  BY <1>1 DEF AssetStatus
<1>8. PICK v \in Nat : v = request.version + 1
  BY <1>1
<1>9. PICK s \in RequestStatus : s = "analysis_failed"
  BY DEF RequestStatus
<1>10. request' = [request EXCEPT !.status = s, !.version = v, !.asset = a]
  BY <1>1, <1>7, <1>8, <1>9 DEF Failed
<1>11. /\ request' \in [status : RequestStatus, version : Nat, asset : AssetStatus]
       /\ request'.status = "analysis_failed" /\ request'.version = request.version + 1
  BY <1>1, <1>8, <1>9, <1>10
<1>12. outbox' = Append(outbox, Unpublished(Notice))
  BY DEF Failed
<1>13. x.status \in Terminal
       /\ x.results = (IF x.status \in {"succeeded", "awaiting_profile"} THEN 1 ELSE 0)
  BY <1>5 DEF Terminal
<1> QED
  BY <1>2, <1>5, <1>6, <1>11, <1>12, <1>13, VerdictKeeps

LEMMA CompleteKeeps ==
    ASSUME IInv, NEW w \in Worker, Complete(w) PROVE IInv' /\ VerdictsStand
<1>1. /\ TypeOK /\ worker[w] \in Loop /\ LoopFits(worker[w])
      /\ request \in [status : RequestStatus, version : Nat, asset : AssetStatus]
      /\ worker[w].at = "work"
  BY DEF IInv, TypeOK, WorkersFit, Complete
<1>2. PICK r \in DOMAIN runs : r = worker[w].run
  BY <1>1 DEF LoopFits
<1>3. Open(r)
  BY <1>2 DEF Complete, HoldsLease, Open, Terminal
<1>4. runs[r] \in RunRow /\ 0 \in 0..MaxAttempts /\ runs[r].results = 0
  BY <1>1, <1>3, Typed, OpenRunIsNewest
<1>5. PICK status \in {"succeeded", "awaiting_profile"} :
         runs' = [runs EXCEPT ![r].status = status, ![r].results = @ + 1, ![r].token = 0,
                              ![r].lease = "none"]
  BY <1>2 DEF Complete
<1>6. PICK x : x = [runs[r] EXCEPT !.status = status, !.results = 1, !.token = 0,
                                  !.lease = "none"]
  OBVIOUS
<1>7. x \in RunRow /\ x.status = status /\ x.results = 1
  BY <1>4, <1>6 DEF RunRow, RunStatus
<1>8. runs' = [runs EXCEPT ![r] = x]
  <2>1. runs[r].results + 1 = 1
    BY <1>4
  <2> QED
    BY <1>5, <1>6, <2>1
<1>9. PICK v \in Nat : v = request.version + 1
  BY <1>1
<1>10. PICK s \in RequestStatus, a \in AssetStatus : s = "analysis_ready" /\ a = "validated"
  BY DEF RequestStatus, AssetStatus
<1>11. request' = [request EXCEPT !.status = s, !.version = v, !.asset = a]
  BY <1>1, <1>9, <1>10 DEF Complete
<1>12. /\ request' \in [status : RequestStatus, version : Nat, asset : AssetStatus]
       /\ request'.status = "analysis_ready" /\ request'.version = request.version + 1
  BY <1>1, <1>9, <1>10, <1>11
<1>13. /\ outbox' = Append(outbox, Unpublished(Notice)) /\ Disposes(w, "acknowledge")
       /\ UNCHANGED <<stream, tab, notices, interruptions>>
  BY DEF Complete, counters
<1>14. /\ x.status \in Terminal /\ x.status # "failed"
       /\ x.results = (IF x.status \in {"succeeded", "awaiting_profile"} THEN 1 ELSE 0)
  BY <1>7 DEF Terminal
<1> QED
  BY <1>1, <1>2, <1>3, <1>7, <1>8, <1>12, <1>13, <1>14, VerdictKeeps

LEMMA FailKeeps ==
    ASSUME IInv, NEW w \in Worker, Fail(w) PROVE IInv' /\ VerdictsStand
<1>1. /\ worker[w].at = "work" /\ Disposes(w, "acknowledge")
      /\ UNCHANGED <<stream, tab, notices, interruptions>>
  BY DEF Fail, counters
<1>2. Open(worker[w].run)
  BY DEF Fail, HoldsLease, Open, Terminal
<1>3. PICK code \in Failure : Failed(worker[w].run, code)
  BY DEF Fail, Failure
<1> QED
  BY <1>1, <1>2, <1>3, FailedKeeps

\* A new attempt takes the lease, or the last one is over and the run fails.
LEMMA ClaimKeeps ==
    ASSUME IInv, NEW w \in Worker, Claim(w) PROVE IInv' /\ VerdictsStand
<1>1. /\ TypeOK /\ worker[w] \in Loop /\ worker \in [Worker -> Loop] /\ LoopFits(worker[w])
      /\ request \in [status : RequestStatus, version : Nat, asset : AssetStatus]
      /\ outbox \in Seq(OutboxRow)
  BY DEF IInv, TypeOK, WorkersFit
<1>2. worker[w].at = "claim" /\ UNCHANGED <<stream, tab, notices, interruptions>>
  BY DEF Claim, counters
<1>3. PICK r \in DOMAIN runs : r = worker[w].run
  BY <1>1, <1>2 DEF LoopFits
<1>4. Open(r)
  BY <1>3 DEF Claim, Open
<1>5. CASE Failed(r, "attempt_limit") /\ Disposes(w, "acknowledge")
  <2>1. "attempt_limit" \in Failure
    BY DEF Failure
  <2> QED
    BY <1>2, <1>3, <1>4, <1>5, <2>1, FailedKeeps
<1>6. CASE /\ ~Exhausted(runs[r])
           /\ runs' = [runs EXCEPT ![r].status = "running", ![r].lease = "live",
                                   ![r].token = runs[r].attempts + 1, ![r].attempts = @ + 1]
           /\ request' = [request EXCEPT !.asset = "validating"]
           /\ worker' = [worker EXCEPT ![w].at = "work", ![w].token = runs[r].attempts + 1]
           /\ UNCHANGED outbox
  <2>1. runs[r] \in RunRow /\ MaxAttempts \in Nat
    BY <1>1, Typed
  <2>2. PICK n \in 0..MaxAttempts : n = runs[r].attempts + 1
    <3>1. runs[r].attempts \in 0..MaxAttempts /\ runs[r].attempts # MaxAttempts
      BY <1>6, <2>1 DEF RunRow, Exhausted
    <3> QED
      BY <2>1, <3>1
  <2>3. PICK x : x = [runs[r] EXCEPT !.status = "running", !.lease = "live", !.token = n,
                                    !.attempts = n]
    OBVIOUS
  <2>4. /\ x \in RunRow /\ x.status = "running" /\ x.version = runs[r].version
        /\ x.results = runs[r].results
    BY <2>1, <2>2, <2>3 DEF RunRow, RunStatus
  <2>5. runs' = [runs EXCEPT ![r] = x]
    BY <1>6, <2>2, <2>3
  <2>6. /\ request' \in [status : RequestStatus, version : Nat, asset : AssetStatus]
        /\ request'.status = request.status /\ request'.version = request.version
        /\ request'.asset = "validating"
    BY <1>1, <1>6 DEF AssetStatus
  <2>7. RequestFits'
    BY <1>4, <2>4, <2>5, <2>6, StillFits
  <2>8. PICK at \in At : at = "work"
    BY DEF At
  <2>9. PICK l : l = [worker[w] EXCEPT !.at = at, !.token = n]
    OBVIOUS
  <2>10. /\ l \in Loop /\ l.at = "work" /\ l.batch = worker[w].batch
         /\ l.message = worker[w].message /\ l.run = worker[w].run
    BY <1>1, <2>2, <2>8, <2>9 DEF Loop
  <2>11. worker' = [worker EXCEPT ![w] = l]
    BY <1>1, <1>6, <2>2, <2>8, <2>9
  <2>12. worker' \in [Worker -> Loop]
    BY <1>1, <2>10, <2>11
  <2>13. ASSUME Grown PROVE WorkersFit'
    <3>1. LoopFits(l)
      BY <1>1, <1>2, <2>10 DEF LoopFits
    <3>2. LoopFits(l)'
      BY <2>13, <3>1, LoopKept
    <3> QED
      BY <1>1, <2>10, <2>11, <2>13, <3>2, WorkersKept DEF IInv
  <2>14. /\ outbox' \in Seq(OutboxRow) /\ DOMAIN outbox \subseteq DOMAIN outbox'
         /\ \A i \in DOMAIN outbox : outbox'[i] = outbox[i]
         /\ \A i \in DOMAIN outbox' : i \in DOMAIN outbox \/ outbox'[i].of = Notice
    BY <1>1, <1>6
  <2>15. request.status = "rejected" => request'.status = "rejected"
    BY <2>6
  <2> QED
    BY <1>2, <1>4, <2>4, <2>5, <2>6, <2>7, <2>12, <2>13, <2>14, <2>15, RunMoves
<1> QED
  BY <1>3, <1>5, <1>6 DEF Claim

-----------------------------------------------------------------------------
(* Every step                                                              *)

LEMMA InitFits == Init => IInv
<1> SUFFICES ASSUME Init PROVE IInv
  OBVIOUS
<1>1. /\ request = [status |-> "draft", version |-> 1, asset |-> "quarantined"]
      /\ runs = <<>> /\ outbox = <<>> /\ stream = <<>> /\ notices = 0 /\ interruptions = 0
      /\ worker = [w \in Worker |-> Start] /\ tab = [t \in Tab |-> <<0, 0>>]
  BY DEF Init
<1>2. DOMAIN runs = {} /\ DOMAIN outbox = {} /\ DOMAIN stream = {} /\ Len(runs) = 0
  BY <1>1
<1>3. TypeOK
  <2>1. request \in [status : RequestStatus, version : Nat, asset : AssetStatus]
    BY <1>1 DEF RequestStatus, AssetStatus
  <2>2. runs \in Seq(RunRow) /\ outbox \in Seq(OutboxRow) /\ stream \in Seq(Message)
    BY <1>1
  <2>3. Start \in Loop
    BY AnalysisAssumption DEF Start, Loop, At
  <2>4. tab \in [Tab -> {0, 1} \X Nat] /\ worker \in [Worker -> Loop]
    BY <1>1, <2>3
  <2>5. /\ Len(runs) <= MaxRuns /\ notices \in 0..MaxNotices
        /\ interruptions \in 0..MaxInterruptions
    BY <1>1, <1>2, AnalysisAssumption
  <2> QED
    BY <2>1, <2>2, <2>4, <2>5 DEF TypeOK
<1>4. RequestFits /\ OutboxFits /\ StreamFits
  BY <1>1, <1>2 DEF RequestFits, RequestFollowsRun, OutboxFits, StreamFits
<1>5. TabsFit
  BY <1>1 DEF TabsFit
<1>6. WorkersFit
  <2>1. LoopFits(Start)
    BY <1>3, StartFits
  <2>2. ASSUME NEW w \in Worker PROVE LoopFits(worker[w])
    BY <1>1, <2>1
  <2> QED
    BY <2>2 DEF WorkersFit
<1> QED
  BY <1>3, <1>4, <1>5, <1>6 DEF IInv

\* The steps that leave the request and its runs alone.
LEMMA DatabaseStands ==
    ASSUME UNCHANGED <<request, runs>> PROVE VerdictsStand
  BY DEF VerdictsStand

LEMMA WorkerKeeps ==
    ASSUME IInv, NEW w \in Worker, WorkerStep(w) \/ Interrupt(w)
    PROVE  IInv' /\ VerdictsStand
<1>1. CASE ReadBatch(w)
  <2>1. UNCHANGED <<request, runs>>
    BY <1>1 DEF ReadBatch, Reads, database
  <2> QED
    BY <1>1, <2>1, ReadBatchKeeps, DatabaseStands
<1>2. CASE Publish(w)
  <2>1. UNCHANGED <<request, runs>>
    BY <1>2 DEF Publish, database
  <2> QED
    BY <1>2, <2>1, PublishKeeps, DatabaseStands
<1>3. CASE MarkPublished(w)
  <2>1. UNCHANGED <<request, runs>>
    BY <1>3 DEF MarkPublished, database
  <2> QED
    BY <1>3, <2>1, MarkPublishedKeeps, DatabaseStands
<1>4. CASE TakeMessage(w)
  <2>1. UNCHANGED <<request, runs>>
    BY <1>4 DEF TakeMessage, database
  <2> QED
    BY <1>4, <2>1, TakeMessageKeeps, DatabaseStands
<1>5. CASE ClaimRefused(w)
  <2>1. UNCHANGED <<request, runs>>
    BY <1>5 DEF ClaimRefused, database
  <2> QED
    BY <1>5, <2>1, ClaimRefusedKeeps, DatabaseStands
<1>6. CASE Acknowledge(w)
  <2>1. UNCHANGED <<request, runs>>
    BY <1>6 DEF Acknowledge, database
  <2> QED
    BY <1>6, <2>1, AcknowledgeKeeps, DatabaseStands
<1>7. CASE GiveUp(w) \/ Interrupt(w)
  <2>1. UNCHANGED <<request, runs>>
    BY <1>7 DEF GiveUp, Interrupt, database
  <2> QED
    BY <1>7, <2>1, RestartKeeps, DatabaseStands
<1> QED
  BY <1>1, <1>2, <1>3, <1>4, <1>5, <1>6, <1>7, ClaimKeeps, CompleteKeeps, FailKeeps
  DEF WorkerStep

LEMMA NextKeeps == IInv /\ [Next]_vars => IInv' /\ (VerdictsStand \/ UNCHANGED vars)
<1> SUFFICES ASSUME IInv, [Next]_vars PROVE IInv' /\ (VerdictsStand \/ UNCHANGED vars)
  OBVIOUS
<1>1. CASE UNCHANGED vars
  <2>1. UNCHANGED <<request, runs, outbox, stream, worker, tab, notices, interruptions>>
    BY <1>1 DEF vars
  <2>2. WorkersFit'
    BY <2>1, NothingGrew, WorkersStay DEF IInv
  <2>3. TypeOK'
    BY <2>1 DEF IInv, TypeOK
  <2>4. RequestFits' /\ TabsFit' /\ OutboxFits' /\ StreamFits'
    BY <2>1
    DEF IInv, RequestFits, RequestFollowsRun, TabsFit, OutboxFits, StreamFits, InStream, Open
  <2> QED
    BY <1>1, <2>2, <2>3, <2>4 DEF IInv
<1>2. CASE Submit
  BY <1>2, SubmitKeeps
<1>3. ASSUME NEW t \in Tab, BeginRetry(t) \/ CommitRetry(t) PROVE IInv' /\ VerdictsStand
  BY <1>3, BeginRetryKeeps, CommitRetryKeeps
<1>4. CASE Reject
  BY <1>4, RejectKeeps
<1>5. CASE OtherNotice
  <2>1. UNCHANGED <<request, runs>>
    BY <1>5 DEF OtherNotice, database
  <2> QED
    BY <1>5, <2>1, OtherNoticeKeeps, DatabaseStands
<1>6. CASE PublishNotices
  <2>1. UNCHANGED <<request, runs>>
    BY <1>6 DEF PublishNotices, database
  <2> QED
    BY <1>6, <2>1, PublishNoticesKeeps, DatabaseStands
<1>7. ASSUME NEW w \in Worker, WorkerStep(w) \/ Interrupt(w) PROVE IInv' /\ VerdictsStand
  BY <1>7, WorkerKeeps
<1>8. ASSUME NEW r \in DOMAIN runs, LeaseExpires(r) PROVE IInv' /\ VerdictsStand
  BY <1>8, LeaseExpiresKeeps
<1>9. ASSUME NEW i \in DOMAIN stream, BecomesIdle(i) PROVE IInv' /\ VerdictsStand
  <2>1. UNCHANGED <<request, runs>>
    BY <1>9 DEF BecomesIdle, database
  <2> QED
    BY <1>9, <2>1, BecomesIdleKeeps, DatabaseStands
<1> QED
  BY <1>1, <1>2, <1>3, <1>4, <1>5, <1>6, <1>7, <1>8, <1>9 DEF Next

LEMMA Invariant == Spec => []IInv
<1>1. IInv /\ [Next]_vars => IInv'
  BY NextKeeps
<1> QED
  BY <1>1, InitFits, PTL DEF Spec

-----------------------------------------------------------------------------
(* The theorems                                                            *)

\* Every row, loop and counter keeps its type: in particular a run is never
\* attempted more than analysis_max_attempts times, whatever crashes and
\* whichever leases expire (claim_analysis_run).
THEOREM TypeCorrect == Spec => []TypeOK
<1>1. IInv => TypeOK
  BY DEF IInv
<1> QED
  BY <1>1, Invariant, PTL

\* A run without a verdict has an unpublished outbox row or an entry of the
\* stream that nobody has acknowledged, for any number of workers, any batch
\* limit and any crashes (dispatch_analysis_outbox,
\* process).
THEOREM RunsAreNotMislaid == Spec => []NothingMislaid
<1>1. ASSUME IInv PROVE NothingMislaid
  <2>1. ASSUME NEW r \in DOMAIN runs, Open(r)
        PROVE  \/ \E i \in Pending : outbox[i].of = r
               \/ \E k \in DOMAIN stream : stream[k].run = r /\ stream[k].state # "acked"
    <3>1. PICK i \in DOMAIN outbox : outbox[i].of = r
      BY <1>1 DEF IInv, OutboxFits
    <3>2. r # Notice
      BY <1>1, Typed DEF IInv
    <3>3. CASE outbox[i].published
      <4>1. PICK k \in DOMAIN stream : stream[k].run = r
        BY <1>1, <3>1, <3>2, <3>3 DEF IInv, OutboxFits, InStream
      <4>2. stream[k].state # "acked"
        BY <1>1, <2>1, <4>1 DEF IInv, StreamFits
      <4> QED
        BY <4>1, <4>2
    <3>4. CASE ~outbox[i].published
      BY <3>1, <3>4 DEF Pending
    <3> QED
      BY <3>3, <3>4
  <2> QED
    BY <2>1 DEF NothingMislaid
<1>2. IInv => NothingMislaid
  BY <1>1
<1> QED
  BY <1>2, Invariant, PTL

\* The request shows the verdict of its newest run, the only one that may be
\* open, and a result is stored once and only for a verdict that has one
\* (complete_validation_awaiting_profile, _fail_locked_run, retry_slicing).
THEOREM RequestShowsItsRun == Spec => []RequestFollowsRun
<1>1. IInv => RequestFollowsRun
  BY DEF IInv, RequestFits
<1> QED
  BY <1>1, Invariant, PTL

\* No step changes a verdict or a rejection: a late attempt has lost its lease
\* (complete_validation_awaiting_profile, fail_analysis_run) and a late retry
\* its version (retry_slicing).
THEOREM VerdictsAreFinal == Spec => VerdictIsFinal
<1> DEFINE Same == \A r \in DOMAIN runs :
          ~Open(r) => runs'[r].status = runs[r].status /\ runs'[r].results = runs[r].results
<1> DEFINE Rejected == request.status = "rejected" => request'.status = "rejected"
<1>1. IInv /\ [Next]_vars => [Same]_vars /\ [Rejected]_vars
  BY NextKeeps DEF VerdictsStand
<1> HIDE DEF Same, Rejected
<1>2. Spec => [][Same]_vars /\ [][Rejected]_vars
  BY <1>1, Invariant, PTL DEF Spec
<1> QED
  BY <1>2, PTL DEF VerdictIsFinal, Same, Rejected
==============================================================================
