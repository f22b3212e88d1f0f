------------------------ MODULE PrintStation_proofs ------------------------
(***************************************************************************)
(* What holds of the local print station for every number of jobs,         *)
(* restarts and readers, and whatever window of the journal is listed.     *)
(***************************************************************************)
EXTENDS PrintStation, TLAPS

-----------------------------------------------------------------------------
(* The inductive invariant                                                 *)

\* Where a coroutine is before it has written its intent.
Early == {"upload", "process", "check", "decide"}

\* The phase and the intent of a row, the place of its coroutine and the start
\* requests sent for it.  The intent is written between the last check and the
\* request, so a job without an intent was never sent.
RowFits(phase, intent, t, n) ==
    /\ t \in Early => intent = "none" /\ phase \in Preparing \cup {"starting"}
    /\ t \in {"send", "wait", "sent", "uncertain"} => intent # "none" /\ phase = "starting"
    /\ t = "send" => n = 0
    /\ intent = "none" => n = 0
    /\ phase \in {"none", "sliced"} \cup Preparing => intent = "none"
    /\ phase \in Following => intent # "none"
    /\ n \in {0, 1}

Fits(j) == RowFits(row[j].phase, row[j].start_intent, task[j], starts[j])

\* A resolve request in progress is about a row that was followed.
InspectedWasFollowed ==
    \A j \in Job : inspected[j] => row[j].phase \in Following \cup Final

StationInv ==
    /\ TypeOK
    /\ \A j \in Job : Fits(j)
    /\ InspectedWasFollowed
    /\ OneActive

-----------------------------------------------------------------------------
(* Steps that move one job                                                 *)

OthersStay(j) ==
    \A k \in Job \ {j} : /\ row'[k] = row[k]
                         /\ task'[k] = task[k]
                         /\ starts'[k] = starts[k]
                         /\ inspected'[k] <=> inspected[k]

LEMMA PhaseSets ==
    /\ ACTIVE \cap Final = {} /\ ACTIVE \cap {"none", "sliced"} = {}
    /\ Phase = {"none", "sliced"} \cup ACTIVE \cup Final
    /\ ACTIVE = Preparing \cup {"starting"} \cup Following
    /\ Final \cap {"none", "sliced"} = {} /\ Following \cap Preparing = {}
    /\ "starting" \notin Following \cup Preparing
  BY DEF ACTIVE, Final, Phase, Preparing, Following

LEMMA OneJobMoves ==
    ASSUME StationInv, TypeOK', NEW j \in Job, OthersStay(j),
           RowFits(row'[j].phase, row'[j].start_intent, task'[j], starts'[j]),
           inspected'[j] => row'[j].phase \in Following \cup Final,
           row'[j].phase \in ACTIVE => \/ row[j].phase \in ACTIVE
                                       \/ \A k \in Job : row[k].phase \notin ACTIVE
    PROVE  StationInv'
<1>1. \A k \in Job : Fits(k)'
  BY DEF StationInv, OthersStay, Fits
<1>2. InspectedWasFollowed'
  BY DEF StationInv, OthersStay, InspectedWasFollowed
<1>3. OneActive'
  BY DEF StationInv, OthersStay, OneActive, Active
<1> QED
  BY <1>1, <1>2, <1>3 DEF StationInv

\* What is known of a job before a step.
LEMMA JobBefore ==
    ASSUME StationInv, NEW j \in Job
    PROVE  /\ row[j] \in Row /\ task[j] \in Task /\ starts[j] \in 0..2
           /\ Fits(j)
           /\ inspected[j] => row[j].phase \in Following \cup Final
           /\ task[j] # "none" => row[j].phase \in Preparing \cup {"starting"}
  BY DEF StationInv, TypeOK, InspectedWasFollowed, Fits, RowFits, Early, Task

\* A written phase.
LEMMA UpdateRow ==
    ASSUME StationInv, NEW j \in Job, NEW phase \in Phase, Update(j, phase)
    PROVE  /\ row' \in [Job -> Row]
           /\ row'[j].phase = phase
           /\ row'[j].start_intent = row[j].start_intent
           /\ \A k \in Job \ {j} : row'[k] = row[k]
  BY DEF StationInv, TypeOK, Update, Row

LEMMA SubmitKeeps ==
    ASSUME StationInv, NEW j \in Job, NEW now \in BOOLEAN, Submit(j, now)
    PROVE  StationInv'
<1> DEFINE r == [NoRow EXCEPT !.phase = "uploading", !.print_now = now]
<1>1. r \in Row /\ r.phase = "uploading" /\ r.start_intent = "none"
  BY DEF NoRow, Row, Phase, ACTIVE, Preparing, Intent
<1>2. /\ row' = [row EXCEPT ![j] = r]
      /\ task' = [task EXCEPT ![j] = "upload"]
      /\ UNCHANGED <<observed, view, inspected, machine, wire, starts, restarts>>
      /\ row[j].phase = "none"
      /\ \A k \in Job : row[k].phase \notin ACTIVE
  BY DEF Submit, readers, physical, Active
<1> HIDE DEF r
<1>3. TypeOK'
  BY <1>1, <1>2 DEF StationInv, TypeOK, Task
<1>4. row'[j] = r /\ task'[j] = "upload" /\ starts'[j] = starts[j] /\ OthersStay(j)
  BY <1>2 DEF StationInv, TypeOK, OthersStay
<1>5. starts[j] = 0 /\ ~inspected[j]
  BY <1>2, JobBefore DEF Fits, RowFits, Following, Final
<1>6. RowFits(row'[j].phase, row'[j].start_intent, task'[j], starts'[j])
  BY <1>1, <1>4, <1>5 DEF RowFits, Early, Preparing, Following
<1> QED
  BY <1>2, <1>3, <1>4, <1>5, <1>6, OneJobMoves

\* A step that writes a phase and moves the coroutine.
LEMMA PhaseWritten ==
    ASSUME StationInv, NEW j \in Job, NEW phase \in Phase, NEW t \in Task,
           Update(j, phase), task' = [task EXCEPT ![j] = t],
           UNCHANGED <<view, inspected, machine, wire, starts, restarts, observed>>,
           RowFits(phase, row[j].start_intent, t, starts[j]),
           inspected[j] => phase \in Following \cup Final,
           phase \in ACTIVE => row[j].phase \in ACTIVE
    PROVE  StationInv'
<1>1. row' \in [Job -> Row] /\ row'[j].phase = phase
      /\ row'[j].start_intent = row[j].start_intent
  BY UpdateRow
<1>2. task'[j] = t /\ TypeOK'
  BY <1>1 DEF StationInv, TypeOK
<1>3. OthersStay(j)
  BY UpdateRow DEF OthersStay, StationInv, TypeOK
<1> QED
  BY <1>1, <1>2, <1>3, OneJobMoves

\* A step that only moves the coroutine.
LEMMA TaskMoved ==
    ASSUME StationInv, NEW j \in Job, NEW t \in Task,
           task' = [task EXCEPT ![j] = t],
           UNCHANGED <<row, view, inspected, starts, restarts, observed>>,
           machine' \in Reading, wire' \in Job \cup {NoJob},
           RowFits(row[j].phase, row[j].start_intent, t, starts[j])
    PROVE  StationInv'
<1>1. task'[j] = t /\ TypeOK'
  BY DEF StationInv, TypeOK
<1>2. OthersStay(j)
  BY DEF OthersStay, StationInv, TypeOK
<1> QED
  BY <1>1, <1>2, JobBefore, OneJobMoves

\* Nothing of a job moves.
LEMMA JobsStay ==
    ASSUME StationInv, UNCHANGED <<row, task, starts, inspected>>, TypeOK'
    PROVE  StationInv'
<1>1. (\A j \in Job : Fits(j)') /\ InspectedWasFollowed' /\ OneActive'
  BY DEF StationInv, Fits, InspectedWasFollowed, OneActive, Active
<1> QED
  BY <1>1 DEF StationInv

LEMMA PhaseNames ==
    /\ \A phase \in {"failed", "needs_attention", "sliced", "validating", "slicing",
                     "starting", "awaiting_start", "resolved"} : phase \in Phase
    /\ "failed" \in Final /\ "resolved" \in Final
    /\ {"needs_attention", "awaiting_start"} \subseteq Following
    /\ {"validating", "slicing", "uploading"} \subseteq Preparing
    /\ \A t \in {"none", "process", "check", "decide", "send", "wait", "sent", "uncertain"} :
          t \in Task
  BY DEF Phase, ACTIVE, Final, Preparing, Following, Task

\* Giving up: a job without an intent fails, one with an intent is inspected.
LEMMA FailureFits ==
    ASSUME StationInv, NEW j \in Job, row[j].phase \in ACTIVE
    PROVE  /\ AfterFailure(j) \in Phase
           /\ RowFits(AfterFailure(j), row[j].start_intent, "none", starts[j])
           /\ AfterFailure(j) \in Following \cup Final
           /\ row[j].start_intent = "none" => AfterFailure(j) = "failed"
           /\ row[j].start_intent # "none" => AfterFailure(j) = "needs_attention"
  BY JobBefore, PhaseNames, PhaseSets DEF AfterFailure, Fits, RowFits, Early

LEMMA EndUploadKeeps ==
    ASSUME StationInv, NEW j \in Job, EndUpload(j)
    PROVE  StationInv'
<1>1. /\ Fits(j) /\ task[j] = "upload"
      /\ row[j].phase \in ACTIVE /\ row[j].start_intent = "none" /\ ~inspected[j]
  BY JobBefore, PhaseSets DEF EndUpload, Fits, RowFits, Early
<1>2. UNCHANGED <<observed, view, inspected, machine, wire, starts, restarts>>
  BY DEF EndUpload, readers, physical
<1>3. CASE Update(j, "failed") /\ task' = [task EXCEPT ![j] = "none"]
  <2>1. RowFits("failed", row[j].start_intent, "none", starts[j])
    BY <1>1, PhaseNames, PhaseSets DEF Fits, RowFits, Early
  <2> QED
    BY <1>1, <1>2, <1>3, <2>1, PhaseNames, PhaseWritten
<1>4. CASE task' = [task EXCEPT ![j] = "process"] /\ UNCHANGED row
  <2>1. RowFits(row[j].phase, row[j].start_intent, "process", starts[j])
    BY <1>1 DEF Fits, RowFits, Early
  <2> QED
    BY <1>2, <1>4, <2>1, PhaseNames, TaskMoved DEF StationInv, TypeOK
<1> QED
  BY <1>3, <1>4 DEF EndUpload

LEMMA ProcessKeeps ==
    ASSUME StationInv, NEW j \in Job, Process(j)
    PROVE  StationInv'
<1>1. /\ Fits(j) /\ task[j] = "process" /\ task \in [Job -> Task]
      /\ row[j].phase \in ACTIVE /\ row[j].start_intent = "none" /\ ~inspected[j]
  BY JobBefore, PhaseSets DEF Process, Fits, RowFits, Early, StationInv, TypeOK
<1>2. UNCHANGED <<observed, view, inspected, machine, wire, starts, restarts>>
  BY DEF Process, readers, physical
<1>3. ASSUME NEW phase \in {"validating", "slicing"}, Update(j, phase), UNCHANGED task
      PROVE  StationInv'
  <2>1. task' = [task EXCEPT ![j] = "process"]
    BY <1>1, <1>3
  <2>2. RowFits(phase, row[j].start_intent, "process", starts[j])
    BY <1>1, <1>3, PhaseNames, PhaseSets DEF Fits, RowFits, Early
  <2> QED
    BY <1>1, <1>2, <1>3, <2>1, <2>2, PhaseNames, PhaseWritten
<1>4. ASSUME NEW phase \in {"sliced", "failed"}, Update(j, phase),
             task' = [task EXCEPT ![j] = "none"]
      PROVE  StationInv'
  <2>1. RowFits(phase, row[j].start_intent, "none", starts[j]) /\ phase \notin ACTIVE
    BY <1>1, <1>4, PhaseNames, PhaseSets DEF Fits, RowFits, Early
  <2> QED
    BY <1>1, <1>2, <1>4, <2>1, PhaseNames, PhaseWritten
<1>5. CASE task' = [task EXCEPT ![j] = "check"] /\ UNCHANGED row
  <2>1. RowFits(row[j].phase, row[j].start_intent, "check", starts[j])
    BY <1>1 DEF Fits, RowFits, Early
  <2> QED
    BY <1>2, <1>5, <2>1, PhaseNames, TaskMoved DEF StationInv, TypeOK
<1> QED
  BY <1>3, <1>4, <1>5 DEF Process

LEMMA ClaimStartKeeps ==
    ASSUME StationInv, NEW j \in Job, ClaimStart(j)
    PROVE  StationInv'
<1>1. /\ row[j].phase = "sliced" /\ row[j].start_intent = "none" /\ row[j] \in Row
      /\ \A k \in Job : row[k].phase \notin ACTIVE
      /\ row' = [row EXCEPT ![j].phase = "starting", ![j].authorized = TRUE]
      /\ task' = [task EXCEPT ![j] = "check"]
      /\ UNCHANGED <<observed, view, inspected, machine, wire, starts, restarts>>
  BY JobBefore DEF ClaimStart, readers, physical, Active
<1>2. starts[j] = 0 /\ ~inspected[j]
  BY <1>1, JobBefore, PhaseSets DEF Fits, RowFits
<1> DEFINE r == [row[j] EXCEPT !.phase = "starting", !.authorized = TRUE]
<1>3. r \in Row /\ r.phase = "starting" /\ r.start_intent = "none"
  BY <1>1, PhaseNames DEF Row
<1>4. row' = [row EXCEPT ![j] = r]
  BY <1>1 DEF StationInv, TypeOK
<1> HIDE DEF r
<1>5. TypeOK'
  BY <1>1, <1>3, <1>4, PhaseNames DEF StationInv, TypeOK
<1>6. OthersStay(j) /\ row'[j] = r /\ task'[j] = "check"
  BY <1>1, <1>4 DEF OthersStay, StationInv, TypeOK
<1>7. RowFits(row'[j].phase, row'[j].start_intent, task'[j], starts'[j])
  BY <1>1, <1>2, <1>3, <1>6, PhaseSets DEF RowFits, Early
<1> QED
  BY <1>1, <1>2, <1>5, <1>6, <1>7, OneJobMoves

LEMMA CheckFailsKeeps ==
    ASSUME StationInv, NEW j \in Job, CheckFails(j)
    PROVE  StationInv'
<1>1. row[j].phase \in ACTIVE /\ task[j] \in {"check", "decide"} /\ ~inspected[j]
  BY JobBefore, PhaseSets DEF CheckFails
<1> QED
  BY <1>1, FailureFits, PhaseNames, PhaseWritten DEF CheckFails, readers, physical

LEMMA DispatchReadKeeps ==
    ASSUME StationInv, NEW j \in Job, DispatchRead(j)
    PROVE  StationInv'
<1>1. Fits(j) /\ task[j] = "check"
  BY JobBefore DEF DispatchRead
<1>2. RowFits(row[j].phase, row[j].start_intent, "decide", starts[j])
  BY <1>1 DEF Fits, RowFits, Early
<1> QED
  BY <1>2, PhaseNames, TaskMoved DEF DispatchRead, readers, physical, StationInv, TypeOK

LEMMA WriteIntentKeeps ==
    ASSUME StationInv, NEW j \in Job, WriteIntent(j)
    PROVE  StationInv'
<1>1. /\ task[j] = "decide" /\ row[j] \in Row
      /\ row' = [row EXCEPT ![j].phase = "starting", ![j].start_intent = "new"]
      /\ task' = [task EXCEPT ![j] = "send"]
      /\ UNCHANGED <<observed, view, inspected, machine, wire, starts, restarts>>
  BY JobBefore DEF WriteIntent, readers, physical
<1>2. starts[j] = 0 /\ ~inspected[j] /\ row[j].phase \in ACTIVE
  BY <1>1, JobBefore, PhaseSets DEF Fits, RowFits, Early
<1> DEFINE r == [row[j] EXCEPT !.phase = "starting", !.start_intent = "new"]
<1>3. r \in Row /\ r.phase = "starting" /\ r.start_intent = "new"
  BY <1>1, PhaseNames DEF Row, Intent
<1>4. row' = [row EXCEPT ![j] = r]
  BY <1>1 DEF StationInv, TypeOK
<1> HIDE DEF r
<1>5. TypeOK'
  BY <1>1, <1>3, <1>4, PhaseNames DEF StationInv, TypeOK
<1>6. OthersStay(j) /\ row'[j] = r /\ task'[j] = "send"
  BY <1>1, <1>4 DEF OthersStay, StationInv, TypeOK
<1>7. RowFits(row'[j].phase, row'[j].start_intent, task'[j], starts'[j])
  BY <1>1, <1>2, <1>3, <1>6, PhaseSets DEF RowFits, Early
<1> QED
  BY <1>1, <1>2, <1>5, <1>6, <1>7, OneJobMoves

\* The one start request: nothing was sent for this job before.
LEMMA SendStartKeeps ==
    ASSUME StationInv, NEW j \in Job, SendStart(j)
    PROVE  StationInv'
<1>1. /\ task[j] = "send" /\ wire' = j
      /\ starts' = [starts EXCEPT ![j] = starts[j] + 1]
      /\ task' = [task EXCEPT ![j] = "wait"]
      /\ UNCHANGED <<row, observed, view, inspected, machine, restarts>>
  BY DEF SendStart, readers
<1>2. /\ Fits(j) /\ starts[j] = 0 /\ row[j].phase = "starting"
      /\ row[j].start_intent # "none" /\ ~inspected[j]
  BY <1>1, JobBefore, PhaseSets DEF Fits, RowFits
<1>3. starts' = [starts EXCEPT ![j] = 1]
  BY <1>1, <1>2
<1>4. TypeOK'
  BY <1>1, <1>3, PhaseNames DEF StationInv, TypeOK
<1>5. OthersStay(j) /\ starts'[j] = 1 /\ task'[j] = "wait"
  BY <1>1, <1>3 DEF OthersStay, StationInv, TypeOK
<1>6. RowFits(row'[j].phase, row'[j].start_intent, task'[j], starts'[j])
  BY <1>1, <1>2, <1>5, PhaseSets DEF RowFits, Early
<1> QED
  BY <1>1, <1>2, <1>4, <1>5, <1>6, OneJobMoves

LEMMA StartUncertainKeeps ==
    ASSUME StationInv, NEW j \in Job, StartUncertain(j)
    PROVE  StationInv'
<1>1. Fits(j) /\ task[j] \in {"send", "wait"}
  BY JobBefore DEF StartUncertain
<1>2. RowFits(row[j].phase, row[j].start_intent, "uncertain", starts[j])
  BY <1>1 DEF Fits, RowFits, Early
<1> QED
  BY <1>2, PhaseNames, TaskMoved DEF StartUncertain, readers, physical, StationInv, TypeOK

LEMMA FinishStartKeeps ==
    ASSUME StationInv, NEW j \in Job, FinishStart(j)
    PROVE  StationInv'
<1>1. /\ Fits(j) /\ task[j] \in {"sent", "uncertain"}
      /\ row[j].phase \in ACTIVE /\ row[j].start_intent # "none" /\ ~inspected[j]
  BY JobBefore, PhaseSets DEF FinishStart, Fits, RowFits
<1>2. PICK phase \in {"awaiting_start", "needs_attention"} : Update(j, phase)
  BY <1>1 DEF FinishStart, AfterFailure
<1>3. RowFits(phase, row[j].start_intent, "none", starts[j]) /\ phase \in Following
  BY <1>1, <1>2, PhaseNames, PhaseSets DEF Fits, RowFits, Early
<1> QED
  BY <1>1, <1>2, <1>3, PhaseNames, PhaseWritten DEF FinishStart, readers, physical

\* An answer only moves a coroutine that waits for it.
LEMMA AnswerKeeps ==
    ASSUME StationInv, NEW j \in Job, Accept(j) \/ Drop(j)
    PROVE  StationInv'
<1>1. /\ wire' = NoJob /\ UNCHANGED <<row, observed, view, inspected, starts, restarts>>
      /\ machine' \in Reading
  BY DEF Accept, Drop, readers, Reading, StationInv, TypeOK
<1>2. PICK t \in {task[j], "sent", "uncertain"} :
         /\ task' = [task EXCEPT ![j] = t]
         /\ t = task[j] \/ task[j] = "wait"
  BY DEF Accept, Drop, StationInv, TypeOK
<1>3. Fits(j) /\ task[j] \in Task
  BY JobBefore
<1>4. RowFits(row[j].phase, row[j].start_intent, t, starts[j]) /\ t \in Task
  BY <1>2, <1>3, PhaseNames DEF Fits, RowFits, Early
<1> QED
  BY <1>1, <1>2, <1>4, TaskMoved

\* Followed jobs move on or are closed; the coroutines know nothing of it.
LEMMA FollowedMove ==
    ASSUME StationInv, TypeOK', UNCHANGED <<task, starts, inspected>>,
           \A j \in Job : /\ row'[j].start_intent = row[j].start_intent
                          /\ \/ row'[j].phase = row[j].phase
                             \/ /\ row[j].phase \in Following
                                /\ row'[j].phase \in Following \cup Final
    PROVE  StationInv'
<1>1. ASSUME NEW j \in Job PROVE Fits(j)'
  BY JobBefore, PhaseSets DEF Fits, RowFits, Early
<1>2. InspectedWasFollowed'
  BY DEF StationInv, InspectedWasFollowed
<1>3. \A j \in Job : row'[j].phase \in ACTIVE => row[j].phase \in ACTIVE
  BY PhaseSets
<1>4. OneActive'
  BY <1>3 DEF StationInv, OneActive, Active
<1> QED
  BY <1>1, <1>2, <1>4 DEF StationInv

LEMMA VerdictFollows ==
    ASSUME NEW j \in Job, NEW v, NEW long, row[j].phase \in Following
    PROVE  Verdict(j, v, long) \in Following \cup Final
  BY DEF Verdict, Following, Final

LEMMA ReconcileKeeps ==
    ASSUME StationInv, NEW r \in Reader, NEW long \in BOOLEAN, Reconcile(r, long)
    PROVE  StationInv'
<1>1. /\ row' = [j \in Job |->
                   IF Followed(j) THEN [row[j] EXCEPT !.phase = Verdict(j, view[r], long)]
                   ELSE row[j]]
      /\ observed' = [j \in Job |-> IF Followed(j) THEN Observations(j, view[r], long)
                                    ELSE observed[j]]
      /\ view' = [view EXCEPT ![r] = NoReading]
      /\ UNCHANGED <<task, inspected, machine, wire, starts, restarts>>
  BY DEF Reconcile, physical
<1>2. ASSUME NEW j \in Job
      PROVE  /\ row'[j] \in Row
             /\ row'[j].start_intent = row[j].start_intent
             /\ \/ row'[j].phase = row[j].phase
                \/ row[j].phase \in Following /\ row'[j].phase \in Following \cup Final
  <2>1. row[j] \in Row
    BY JobBefore
  <2>2. CASE Followed(j)
    <3> DEFINE p == Verdict(j, view[r], long)
    <3>1. row[j].phase \in Following /\ p \in Following \cup Final
      BY <2>2, VerdictFollows DEF Followed
    <3>2. p \in Phase
      BY <3>1, PhaseSets
    <3>3. row'[j] = [row[j] EXCEPT !.phase = p]
      BY <1>1, <2>2
    <3> HIDE DEF p
    <3> QED
      BY <2>1, <3>1, <3>2, <3>3 DEF Row
  <2>3. CASE ~Followed(j)
    BY <1>1, <2>1, <2>3
  <2> QED
    BY <2>2, <2>3
<1>3. \A j \in Job : observed'[j] \in 0..2
  <2>1. \A j \in Job : observed[j] \in 0..2
    BY DEF StationInv, TypeOK
  <2>2. \A j \in Job : Observations(j, view[r], long) \in 0..2
    BY <2>1 DEF Observations
  <2> QED
    BY <1>1, <2>1, <2>2
<1>4. TypeOK'
  BY <1>1, <1>2, <1>3 DEF StationInv, TypeOK
<1> QED
  BY <1>1, <1>2, <1>4, FollowedMove

LEMMA UnreachableKeeps ==
    ASSUME StationInv, NEW r \in Reader, Unreachable(r)
    PROVE  StationInv'
<1>1. /\ row' \in [Job -> {row'[j] : j \in Job}]
      /\ observed' = [j \in Job |-> 0]
      /\ view' = [view EXCEPT ![r] = NoReading]
      /\ UNCHANGED <<task, inspected, machine, wire, starts, restarts>>
  BY DEF Unreachable, physical
<1>2. ASSUME NEW j \in Job
      PROVE  /\ row'[j] \in Row
             /\ row'[j].start_intent = row[j].start_intent
             /\ \/ row'[j].phase = row[j].phase
                \/ row[j].phase \in Following /\ row'[j].phase \in Following \cup Final
  <2>1. row[j] \in Row
    BY JobBefore
  <2>2. \/ row'[j] = row[j]
        \/ /\ row[j].phase \in {"awaiting_start", "printing"}
           /\ row'[j] = [row[j] EXCEPT !.phase = "needs_attention"]
    BY DEF Unreachable
  <2>3. "printing" \in Following
    BY DEF Following
  <2> QED
    BY <2>1, <2>2, <2>3, PhaseNames DEF Row
<1>3. row' \in [Job -> Row]
  BY <1>1, <1>2
<1>4. TypeOK'
  BY <1>1, <1>3 DEF StationInv, TypeOK
<1> QED
  BY <1>1, <1>2, <1>4, FollowedMove

LEMMA AgeIntentKeeps ==
    ASSUME StationInv, NEW j \in Job, AgeIntent(j)
    PROVE  StationInv'
<1>1. /\ row[j].start_intent = "new" /\ row[j] \in Row
      /\ row' = [row EXCEPT ![j].start_intent = "old"]
      /\ UNCHANGED <<task, observed, view, inspected, machine, wire, starts, restarts>>
  BY JobBefore DEF AgeIntent, readers, physical
<1> DEFINE r == [row[j] EXCEPT !.start_intent = "old"]
<1>2. r \in Row /\ r.phase = row[j].phase /\ r.start_intent = "old"
  BY <1>1 DEF Row, Intent
<1>3. row' = [row EXCEPT ![j] = r]
  BY <1>1 DEF StationInv, TypeOK
<1> HIDE DEF r
<1>4. TypeOK'
  BY <1>1, <1>2, <1>3 DEF StationInv, TypeOK
<1>5. OthersStay(j) /\ row'[j] = r /\ task'[j] = task[j] /\ starts'[j] = starts[j]
  BY <1>1, <1>3 DEF OthersStay, StationInv, TypeOK
<1>6. RowFits(row'[j].phase, row'[j].start_intent, task'[j], starts'[j])
  BY <1>1, <1>2, <1>5, JobBefore DEF Fits, RowFits, Early
<1> QED
  BY <1>1, <1>2, <1>4, <1>5, <1>6, JobBefore, OneJobMoves

LEMMA ResolveReadKeeps ==
    ASSUME StationInv, NEW j \in Job, ResolveRead(j)
    PROVE  StationInv'
<1>1. TypeOK'
  BY DEF ResolveRead, physical, StationInv, TypeOK
<1>2. OthersStay(j) /\ row[j].phase \in Following
  BY PhaseNames DEF ResolveRead, physical, OthersStay, StationInv, TypeOK
<1> QED
  BY <1>1, <1>2, JobBefore, OneJobMoves DEF ResolveRead, physical, Fits

\* The write does not look at the row again.  A coroutine cannot own it.
LEMMA ResolveWriteKeeps ==
    ASSUME StationInv, NEW j \in Job, ResolveWrite(j)
    PROVE  StationInv'
<1>1. /\ Update(j, "resolved") /\ inspected[j]
      /\ UNCHANGED <<task, view, machine, wire, starts, restarts>>
      /\ inspected' = [inspected EXCEPT ![j] = FALSE]
      /\ observed' = [observed EXCEPT ![j] = 0]
  BY DEF ResolveWrite, physical
<1>2. /\ row' \in [Job -> Row] /\ row'[j].phase = "resolved"
      /\ row'[j].start_intent = row[j].start_intent
      /\ \A k \in Job \ {j} : row'[k] = row[k]
  BY <1>1, UpdateRow, PhaseNames
<1>3. TypeOK'
  <2>1. observed' \in [Job -> 0..2] /\ inspected' \in [Job -> BOOLEAN]
    BY <1>1 DEF StationInv, TypeOK
  <2> QED
    BY <1>1, <1>2, <2>1 DEF StationInv, TypeOK
<1>4. OthersStay(j) /\ ~inspected'[j]
  BY <1>1, <1>2 DEF OthersStay, StationInv, TypeOK
<1>5. RowFits(row'[j].phase, row'[j].start_intent, task'[j], starts'[j])
  BY <1>1, <1>2, JobBefore, PhaseSets, PhaseNames DEF Fits, RowFits, Early
<1> QED
  BY <1>2, <1>3, <1>4, <1>5, PhaseSets, PhaseNames, OneJobMoves

LEMMA RestartKeeps ==
    ASSUME StationInv, NEW graceful \in BOOLEAN, Restart(graceful)
    PROVE  StationInv'
<1>1. /\ row' = [j \in Job |-> IF j \in Recovered(graceful)
                               THEN [row[j] EXCEPT !.phase = AfterFailure(j)]
                               ELSE row[j]]
      /\ task' = [j \in Job |-> "none"]
      /\ observed' = [j \in Job |-> 0]
      /\ view' = [r \in Reader |-> NoReading]
      /\ inspected' = [j \in Job |-> FALSE]
      /\ restarts' = restarts + 1 /\ restarts < MaxRestarts
      /\ UNCHANGED <<machine, wire, starts>>
  BY DEF Restart, physical
<1>2. ASSUME NEW j \in Job
      PROVE  /\ row'[j] \in Row
             /\ RowFits(row'[j].phase, row[j].start_intent, "none", starts[j])
             /\ row'[j].start_intent = row[j].start_intent
             /\ row'[j].phase \in ACTIVE => row[j].phase \in ACTIVE
  <2>1. row[j] \in Row /\ Fits(j)
    BY JobBefore
  <2>2. CASE j \in Recovered(graceful)
    <3>1. row[j].phase \in ACTIVE
      BY <2>2 DEF Recovered, Active
    <3>2. row'[j] = [row[j] EXCEPT !.phase = AfterFailure(j)]
      BY <1>1, <2>2
    <3>3. AfterFailure(j) \in Phase
      BY <3>1, FailureFits
    <3>4. row'[j] \in Row /\ row'[j].phase = AfterFailure(j)
          /\ row'[j].start_intent = row[j].start_intent
      BY <2>1, <3>2, <3>3 DEF Row
    <3> QED
      BY <3>1, <3>4, FailureFits
  <2>3. CASE j \notin Recovered(graceful)
    <3>1. row'[j] = row[j]
      BY <1>1, <2>3
    <3>2. RowFits(row[j].phase, row[j].start_intent, "none", starts[j])
      BY <2>1 DEF Fits, RowFits, Early
    <3> QED
      BY <2>1, <3>1, <3>2
  <2> QED
    BY <2>2, <2>3
<1>3. row' \in [Job -> Row]
  BY <1>1, <1>2
<1>4. TypeOK'
  <2>1. /\ task' \in [Job -> Task] /\ observed' \in [Job -> 0..2]
        /\ inspected' \in [Job -> BOOLEAN]
        /\ view' \in [Reader -> Reading \cup {NoReading}]
    BY <1>1, PhaseNames
  <2>2. restarts' \in 0..MaxRestarts
    BY <1>1, StationAssumption DEF StationInv, TypeOK
  <2> QED
    BY <1>1, <1>3, <2>1, <2>2 DEF StationInv, TypeOK
<1>5. ASSUME NEW j \in Job PROVE Fits(j)'
  BY <1>1, <1>2 DEF Fits
<1>6. InspectedWasFollowed'
  BY <1>1 DEF InspectedWasFollowed
<1>7. OneActive'
  BY <1>2 DEF StationInv, OneActive, Active
<1> QED
  BY <1>4, <1>5, <1>6, <1>7 DEF StationInv

\* The printer moves, or a reader takes a status.
LEMMA OutsideKeeps ==
    ASSUME StationInv,
           \/ \E m \in Reading : MachineStep(m.state, m.file)
           \/ \E r \in Reader : Read(r)
           \/ UNCHANGED vars
    PROVE  StationInv'
<1>1. CASE \E m \in Reading : MachineStep(m.state, m.file)
  <2>1. PICK m \in Reading : MachineStep(m.state, m.file)
    BY <1>1
  <2>2. m = [state |-> m.state, file |-> m.file]
    BY DEF Reading
  <2>3. machine' \in Reading
        /\ UNCHANGED <<row, task, observed, view, inspected, wire, starts, restarts>>
    BY <2>1, <2>2 DEF MachineStep, readers
  <2> QED
    BY <2>3, JobsStay DEF StationInv, TypeOK
<1>2. CASE \E r \in Reader : Read(r)
  BY <1>2, JobsStay DEF Read, physical, StationInv, TypeOK
<1>3. CASE UNCHANGED vars
  BY <1>3, JobsStay DEF vars, StationInv, TypeOK
<1> QED
  BY <1>1, <1>2, <1>3

LEMMA StationStep ==
    ASSUME StationInv, [Next]_vars
    PROVE  StationInv'
<1>1. ASSUME NEW j \in Job, TaskStep(j) PROVE StationInv'
  BY <1>1, EndUploadKeeps, ProcessKeeps, CheckFailsKeeps, DispatchReadKeeps,
     WriteIntentKeeps, SendStartKeeps, StartUncertainKeeps, FinishStartKeeps DEF TaskStep
<1>2. ASSUME NEW j \in Job,
             \/ \E now \in BOOLEAN : Submit(j, now)
             \/ ClaimStart(j) \/ Accept(j) \/ Drop(j)
             \/ AgeIntent(j) \/ ResolveRead(j) \/ ResolveWrite(j)
      PROVE  StationInv'
  BY <1>2, SubmitKeeps, ClaimStartKeeps, AnswerKeeps, AgeIntentKeeps, ResolveReadKeeps,
     ResolveWriteKeeps
<1>3. ASSUME NEW r \in Reader,
             (\E long \in BOOLEAN : Reconcile(r, long)) \/ Unreachable(r)
      PROVE  StationInv'
  BY <1>3, ReconcileKeeps, UnreachableKeeps
<1>4. ASSUME NEW graceful \in BOOLEAN, Restart(graceful) PROVE StationInv'
  BY <1>4, RestartKeeps
<1> QED
  BY <1>1, <1>2, <1>3, <1>4, OutsideKeeps DEF Next

\* The journal, the coroutines and the requests sent stay in step, for every
\* crash, late answer, stale reading and journal longer than its listing.
THEOREM Invariant == Spec => []StationInv
<1>1. Init => StationInv
  <2> SUFFICES ASSUME Init PROVE StationInv
    OBVIOUS
  <2>1. NoRow \in Row /\ NoRow.phase = "none" /\ NoRow.start_intent = "none"
    BY DEF NoRow, Row, Phase, Intent
  <2>2. /\ \A j \in Job : /\ row[j] = NoRow /\ task[j] = "none" /\ starts[j] = 0
                          /\ ~inspected[j]
        /\ TypeOK
    BY <2>1, StationAssumption DEF Init, TypeOK, Task, Reading
  <2>3. \A j \in Job : Fits(j) /\ ~Active(j)
    BY <2>1, <2>2, PhaseSets DEF Fits, RowFits, Early, Active
  <2> QED
    BY <2>2, <2>3 DEF StationInv, InspectedWasFollowed, OneActive
<1> QED
  BY <1>1, StationStep, PTL DEF Spec

\* Every variable of the station keeps its type.
THEOREM TypeCorrect == Spec => []TypeOK
<1>1. StationInv => TypeOK
  BY DEF StationInv
<1> QED
  BY <1>1, Invariant, PTL

\* Two jobs are never in the active slot together, so no write of the station
\* is ever refused by the unique index.
THEOREM OneInTheSlot == Spec => []OneActive
<1>1. StationInv => OneActive
  BY DEF StationInv
<1> QED
  BY <1>1, Invariant, PTL

\* No restart, lost answer or repeated request makes the station send a second
\* start request for a job.
THEOREM StartIsSentOnce == Spec => []SentOnce
<1>1. StationInv => SentOnce
  BY DEF StationInv, Fits, RowFits, SentOnce
<1> QED
  BY <1>1, Invariant, PTL

-----------------------------------------------------------------------------
(* The end of a print                                                      *)

\* The one start of the job was sent, and the printer is through with it.
Past(j) == starts[j] # 0 /\ ~UnderWay(j)

\* A job that was never sent is nowhere; one the printer took is not on its
\* way; an end that was read, or concluded from a reading, stays an end.
NeverSentIsNowhere == \A j \in Job : starts[j] = 0 => wire # j /\ machine.file # j

TakenIsOffTheWire == \A j \in Job : machine.file = j => wire # j

ReadEndsArePast ==
    \A r \in Reader, j \in Job :
       view[r].state \in {"completed", "cancelled"} /\ view[r].file = j => Past(j)

RowEndsArePast ==
    \A j \in Job : /\ row[j].phase \in {"completed", "cancelled"} => Past(j)
                   /\ row[j].phase = "failed" => starts[j] = 0

EndInv ==
    NeverSentIsNowhere /\ TakenIsOffTheWire /\ ReadEndsArePast /\ RowEndsArePast

LEMMA PhysicalSteps ==
    ASSUME [Next]_vars
    PROVE  \/ UNCHANGED physical
           \/ \E j \in Job : SendStart(j) \/ Accept(j) \/ Drop(j)
           \/ \E m \in Reading : MachineStep(m.state, m.file)
<1>1. ASSUME NEW j \in Job, TaskStep(j) PROVE UNCHANGED physical \/ SendStart(j)
  BY <1>1 DEF TaskStep, EndUpload, Process, CheckFails, DispatchRead, WriteIntent,
     StartUncertain, FinishStart
<1>2. ASSUME NEW j \in Job,
             \/ \E now \in BOOLEAN : Submit(j, now)
             \/ ClaimStart(j) \/ AgeIntent(j) \/ ResolveRead(j) \/ ResolveWrite(j)
      PROVE  UNCHANGED physical
  BY <1>2 DEF Submit, ClaimStart, AgeIntent, ResolveRead, ResolveWrite
<1>3. ASSUME NEW r \in Reader,
             Read(r) \/ (\E long \in BOOLEAN : Reconcile(r, long)) \/ Unreachable(r)
      PROVE  UNCHANGED physical
  BY <1>3 DEF Read, Reconcile, Unreachable
<1>4. ASSUME NEW graceful \in BOOLEAN, Restart(graceful) PROVE UNCHANGED physical
  BY <1>4 DEF Restart
<1>5. UNCHANGED vars => UNCHANGED physical
  BY DEF vars, physical
<1> QED
  BY <1>1, <1>2, <1>3, <1>4, <1>5 DEF Next

\* What the printer and the network do to one job.
LEMMA PhysicalMoves ==
    ASSUME StationInv, NeverSentIsNowhere, TakenIsOffTheWire, [Next]_vars
    PROVE  /\ NeverSentIsNowhere' /\ TakenIsOffTheWire'
           /\ \A j \in Job : Past(j) => Past(j)'
           /\ \A j \in Job : starts'[j] # starts[j] => row[j].phase = "starting"
<1>1. CASE UNCHANGED physical
  BY <1>1 DEF physical, NeverSentIsNowhere, TakenIsOffTheWire, Past, UnderWay
<1>2. ASSUME NEW k \in Job, SendStart(k)
      PROVE  /\ NeverSentIsNowhere' /\ TakenIsOffTheWire'
             /\ \A j \in Job : Past(j) => Past(j)'
             /\ \A j \in Job : starts'[j] # starts[j] => row[j].phase = "starting"
  <2>1. /\ wire' = k /\ UNCHANGED machine
        /\ starts' = [starts EXCEPT ![k] = starts[k] + 1]
        /\ task[k] = "send"
    BY <1>2 DEF SendStart
  <2>2. starts[k] = 0 /\ row[k].phase = "starting" /\ machine.file # k
    BY <2>1, JobBefore DEF Fits, RowFits, NeverSentIsNowhere
  <2>3. starts'[k] = 1 /\ \A j \in Job \ {k} : starts'[j] = starts[j]
    BY <2>1, <2>2 DEF StationInv, TypeOK
  <2> QED
    BY <2>1, <2>2, <2>3 DEF NeverSentIsNowhere, TakenIsOffTheWire, Past, UnderWay
<1>3. ASSUME NEW k \in Job, Accept(k)
      PROVE  /\ NeverSentIsNowhere' /\ TakenIsOffTheWire'
             /\ \A j \in Job : Past(j) => Past(j)'
             /\ starts' = starts
  <2>1. /\ wire = k /\ wire' = NoJob /\ UNCHANGED starts
        /\ machine' = [state |-> "heating", file |-> k]
    BY <1>3 DEF Accept
  <2>2. NoJob \notin Job
    BY DEF NoJob, Job
  <2> QED
    BY <2>1, <2>2 DEF NeverSentIsNowhere, TakenIsOffTheWire, Past, UnderWay, Running
<1>4. ASSUME NEW k \in Job, Drop(k)
      PROVE  /\ NeverSentIsNowhere' /\ TakenIsOffTheWire'
             /\ \A j \in Job : Past(j) => Past(j)'
             /\ starts' = starts
  <2>1. wire' = NoJob /\ UNCHANGED <<machine, starts>> /\ NoJob \notin Job
    BY <1>4 DEF Drop, NoJob, Job
  <2> QED
    BY <2>1 DEF NeverSentIsNowhere, TakenIsOffTheWire, Past, UnderWay
<1>5. ASSUME NEW m \in Reading, MachineStep(m.state, m.file)
      PROVE  /\ NeverSentIsNowhere' /\ TakenIsOffTheWire'
             /\ \A j \in Job : Past(j) => Past(j)'
             /\ starts' = starts
  <2>1. /\ machine' = [state |-> m.state, file |-> m.file] /\ UNCHANGED <<wire, starts>>
        /\ m.file = machine.file \/ m.file = NoJob
        /\ m.state \in Running => machine.state \in Running
        /\ NoJob \notin Job
    BY <1>5 DEF MachineStep, Running, NoJob, Job
  <2>2. machine'.state = m.state /\ machine'.file = m.file
    BY <2>1
  <2> QED
    BY <2>1, <2>2 DEF NeverSentIsNowhere, TakenIsOffTheWire, Past, UnderWay
<1> QED
  BY <1>1, <1>2, <1>3, <1>4, <1>5, PhysicalSteps DEF physical

\* A reader holds what it held, nothing, or what the printer shows now.
LEMMA ViewsMove ==
    ASSUME StationInv, [Next]_vars, NEW r \in Reader
    PROVE  view'[r] = view[r] \/ view'[r] = NoReading \/ view'[r] = machine
<1> USE DEF readers
<1>1. view \in [Reader -> Reading \cup {NoReading}]
  BY DEF StationInv, TypeOK
<1>2. ASSUME NEW j \in Job,
             \/ \E now \in BOOLEAN : Submit(j, now)
             \/ ClaimStart(j) \/ TaskStep(j) \/ Accept(j) \/ Drop(j)
             \/ AgeIntent(j) \/ ResolveRead(j) \/ ResolveWrite(j)
      PROVE  UNCHANGED view
  BY <1>2 DEF Submit, ClaimStart, Accept, Drop, AgeIntent, ResolveRead, ResolveWrite,
     TaskStep, EndUpload, Process, CheckFails, DispatchRead, WriteIntent, SendStart,
     StartUncertain, FinishStart
<1>3. ASSUME NEW m \in Reading, MachineStep(m.state, m.file) PROVE UNCHANGED view
  BY <1>3 DEF MachineStep
<1>4. ASSUME NEW s \in Reader, Read(s) PROVE view'[r] = view[r] \/ view'[r] = machine
  BY <1>1, <1>4 DEF Read
<1>5. ASSUME NEW s \in Reader, (\E long \in BOOLEAN : Reconcile(s, long)) \/ Unreachable(s)
      PROVE  view'[r] = view[r] \/ view'[r] = NoReading
  BY <1>1, <1>5 DEF Reconcile, Unreachable
<1>6. ASSUME NEW graceful \in BOOLEAN, Restart(graceful) PROVE view'[r] = NoReading
  BY <1>6 DEF Restart
<1>7. UNCHANGED vars => UNCHANGED view
  BY DEF vars
<1> QED
  BY <1>2, <1>3, <1>4, <1>5, <1>6, <1>7 DEF Next

\* The ways to such an end: it was one, a job that was not sent failed, or a
\* reading of this very file says so.
EndsSoundly(j) ==
    \/ row'[j].phase \notin {"completed", "cancelled", "failed"}
    \/ row'[j].phase = row[j].phase
    \/ row'[j].phase = "failed" /\ starts[j] = 0 /\ row[j].phase \in ACTIVE
    \/ /\ row'[j].phase # "failed"
       /\ \E r \in Reader : view[r].state = row'[j].phase /\ view[r].file = j

LEMMA WrittenEnds ==
    ASSUME StationInv, NEW j \in Job, NEW phase \in Phase, Update(j, phase),
           \/ phase \notin {"completed", "cancelled", "failed"}
           \/ phase = "failed" /\ starts[j] = 0 /\ row[j].phase \in ACTIVE
    PROVE  \A k \in Job : EndsSoundly(k)
  BY UpdateRow DEF EndsSoundly

LEMMA OwnEnds ==
    ASSUME StationInv, NEW j \in Job,
           \/ \E now \in BOOLEAN : Submit(j, now)
           \/ ClaimStart(j) \/ TaskStep(j) \/ Accept(j) \/ Drop(j)
           \/ AgeIntent(j) \/ ResolveRead(j) \/ ResolveWrite(j)
    PROVE  \A k \in Job : EndsSoundly(k)
<1>1. row \in [Job -> Row] /\ Fits(j) /\ row[j] \in Row
  BY JobBefore DEF StationInv, TypeOK
<1>2. ASSUME UNCHANGED row PROVE \A k \in Job : EndsSoundly(k)
  BY <1>2 DEF EndsSoundly
<1>3. CASE \/ \E now \in BOOLEAN : Submit(j, now)
           \/ ClaimStart(j) \/ WriteIntent(j) \/ AgeIntent(j)
  <2>1. PICK r : row' = [row EXCEPT ![j] = r] /\ r.phase \in {row[j].phase, "uploading", "starting"}
    <3>1. ASSUME NEW now \in BOOLEAN, Submit(j, now)
          PROVE  \E r : /\ row' = [row EXCEPT ![j] = r]
                        /\ r.phase \in {row[j].phase, "uploading", "starting"}
      <4> DEFINE r == [NoRow EXCEPT !.phase = "uploading", !.print_now = now]
      <4>1. row' = [row EXCEPT ![j] = r] /\ r.phase = "uploading"
        BY <3>1 DEF Submit, NoRow
      <4> QED
        BY <4>1
    <3>2. CASE ClaimStart(j)
      <4> DEFINE r == [row[j] EXCEPT !.phase = "starting", !.authorized = TRUE]
      <4>1. row' = [row EXCEPT ![j] = r] /\ r.phase = "starting"
        BY <1>1, <3>2 DEF ClaimStart, Row
      <4> QED
        BY <4>1
    <3>3. CASE WriteIntent(j)
      <4> DEFINE r == [row[j] EXCEPT !.phase = "starting", !.start_intent = "new"]
      <4>1. row' = [row EXCEPT ![j] = r] /\ r.phase = "starting"
        BY <1>1, <3>3 DEF WriteIntent, Row
      <4> QED
        BY <4>1
    <3>4. CASE AgeIntent(j)
      <4> DEFINE r == [row[j] EXCEPT !.start_intent = "old"]
      <4>1. row' = [row EXCEPT ![j] = r] /\ r.phase = row[j].phase
        BY <1>1, <3>4 DEF AgeIntent, Row
      <4> QED
        BY <4>1
    <3> QED
      BY <1>3, <3>1, <3>2, <3>3, <3>4
  <2>2. row'[j] = r /\ \A k \in Job \ {j} : row'[k] = row[k]
    BY <1>1, <2>1
  <2> QED
    BY <2>1, <2>2 DEF EndsSoundly
<1>4. CASE EndUpload(j) \/ Process(j) \/ CheckFails(j) \/ FinishStart(j)
  <2>1. row[j].phase \in ACTIVE
    BY <1>4, JobBefore, PhaseSets DEF EndUpload, Process, CheckFails, FinishStart
  <2>2. task[j] \in Early \/ row[j].start_intent # "none"
    BY <1>1, <1>4 DEF EndUpload, Process, CheckFails, FinishStart, Early, Fits, RowFits
  <2>3. \/ UNCHANGED row
        \/ \E phase \in {"validating", "slicing", "sliced", "awaiting_start",
                         "needs_attention"} : Update(j, phase)
        \/ Update(j, "failed") /\ row[j].start_intent = "none"
    BY <1>1, <1>4 DEF EndUpload, Process, CheckFails, FinishStart, AfterFailure, Early, Fits,
       RowFits
  <2>4. row[j].start_intent = "none" => starts[j] = 0
    BY <1>1 DEF Fits, RowFits
  <2> QED
    BY <1>2, <2>1, <2>3, <2>4, WrittenEnds, PhaseNames
<1>5. CASE ResolveWrite(j)
  BY <1>5, WrittenEnds, PhaseNames DEF ResolveWrite
<1>6. CASE \/ DispatchRead(j) \/ SendStart(j) \/ StartUncertain(j)
           \/ Accept(j) \/ Drop(j) \/ ResolveRead(j)
  BY <1>2, <1>6 DEF DispatchRead, SendStart, StartUncertain, Accept, Drop, ResolveRead
<1> QED
  BY <1>3, <1>4, <1>5, <1>6 DEF TaskStep

\* A verdict that ends a print is about its file.
LEMMA VerdictEnds ==
    ASSUME NEW j \in Job, NEW v \in Reading, NEW long \in BOOLEAN, row[j].phase \in Following
    PROVE  LET p == Verdict(j, v, long)
           IN  /\ p # "failed"
               /\ p \in {"completed", "cancelled"} => v.state = p /\ v.file = j
  BY DEF Verdict, Following

LEMMA FollowedEnds ==
    ASSUME StationInv, NEW r \in Reader,
           (\E long \in BOOLEAN : Reconcile(r, long)) \/ Unreachable(r)
    PROVE  \A j \in Job : EndsSoundly(j)
<1> SUFFICES ASSUME NEW j \in Job PROVE EndsSoundly(j)
  OBVIOUS
<1>1. row[j] \in Row
  BY JobBefore
<1>2. ASSUME NEW long \in BOOLEAN, Reconcile(r, long) PROVE EndsSoundly(j)
  <2>1. CASE Followed(j)
    <3>1. PICK p : p = Verdict(j, view[r], long)
      OBVIOUS
    <3>2. view[r] \in Reading /\ row[j].phase \in Following
      BY <1>2, <2>1 DEF Reconcile, Followed, StationInv, TypeOK
    <3>3. /\ p # "failed"
          /\ p \in {"completed", "cancelled"} => view[r].state = p /\ view[r].file = j
      BY <3>1, <3>2, VerdictEnds
    <3>4. row'[j] = [row[j] EXCEPT !.phase = p]
      BY <1>2, <2>1, <3>1 DEF Reconcile
    <3>5. row'[j].phase = p
      BY <1>1, <3>4 DEF Row
    <3> QED
      BY <3>3, <3>5 DEF EndsSoundly
  <2>2. CASE ~Followed(j)
    BY <1>2, <2>2 DEF Reconcile, EndsSoundly
  <2> QED
    BY <2>1, <2>2
<1>3. CASE Unreachable(r)
  <2>1. row'[j] = row[j] \/ row'[j] = [row[j] EXCEPT !.phase = "needs_attention"]
    BY <1>3 DEF Unreachable
  <2>2. row'[j].phase = row[j].phase \/ row'[j].phase = "needs_attention"
    BY <1>1, <2>1 DEF Row
  <2> QED
    BY <2>2 DEF EndsSoundly
<1> QED
  BY <1>2, <1>3

LEMMA RestartEnds ==
    ASSUME StationInv, NEW graceful \in BOOLEAN, Restart(graceful)
    PROVE  \A j \in Job : EndsSoundly(j)
<1> SUFFICES ASSUME NEW j \in Job PROVE EndsSoundly(j)
  OBVIOUS
<1>1. CASE j \in Recovered(graceful)
  <2>1. row[j].phase \in ACTIVE /\ row[j] \in Row /\ Fits(j)
    BY <1>1, JobBefore DEF Recovered, Active
  <2>2. row'[j] = [row[j] EXCEPT !.phase = AfterFailure(j)]
    BY <1>1 DEF Restart
  <2>3. PICK p : p = AfterFailure(j)
    OBVIOUS
  <2>4. row'[j].phase = p
    BY <2>1, <2>2, <2>3 DEF Row
  <2>5. p = "needs_attention" \/ (p = "failed" /\ starts[j] = 0)
    BY <2>1, <2>3 DEF AfterFailure, Fits, RowFits
  <2> QED
    BY <2>1, <2>4, <2>5 DEF EndsSoundly
<1>2. CASE j \notin Recovered(graceful)
  BY <1>2 DEF Restart, EndsSoundly
<1> QED
  BY <1>1, <1>2

LEMMA EndsStep ==
    ASSUME StationInv, EndInv, [Next]_vars
    PROVE  EndInv'
<1>1. /\ NeverSentIsNowhere' /\ TakenIsOffTheWire'
      /\ \A j \in Job : Past(j) => Past(j)'
      /\ \A j \in Job : starts'[j] # starts[j] => row[j].phase = "starting"
  BY PhysicalMoves DEF EndInv
<1>2. \A j \in Job : EndsSoundly(j)
  <2>1. UNCHANGED row => \A j \in Job : EndsSoundly(j)
    BY DEF EndsSoundly
  <2>2. ASSUME \/ \E m \in Reading : MachineStep(m.state, m.file)
               \/ \E r \in Reader : Read(r)
               \/ UNCHANGED vars
        PROVE  UNCHANGED row
    BY <2>2 DEF MachineStep, Read, vars
  <2> QED
    BY <2>1, <2>2, OwnEnds, FollowedEnds, RestartEnds DEF Next
<1>3. ASSUME NEW r \in Reader, NEW j \in Job,
             view'[r].state \in {"completed", "cancelled"}, view'[r].file = j
      PROVE  Past(j)'
  <2>1. CASE view'[r] = view[r]
    BY <1>1, <1>3, <2>1 DEF EndInv, ReadEndsArePast
  <2>2. CASE view'[r] = machine
    <3>1. machine.file = j /\ machine.state \notin Running
      BY <1>3, <2>2 DEF Running
    <3>2. Past(j)
      BY <3>1 DEF EndInv, NeverSentIsNowhere, TakenIsOffTheWire, Past, UnderWay
    <3> QED
      BY <1>1, <3>2
  <2>3. view'[r] # NoReading
    BY <1>3 DEF NoReading
  <2> QED
    BY <2>1, <2>2, <2>3, ViewsMove
<1>4. ASSUME NEW j \in Job, row'[j].phase \in {"completed", "cancelled"}
      PROVE  Past(j)'
  <2>1. Past(j)
    BY <1>2, <1>4 DEF EndsSoundly, EndInv, RowEndsArePast, ReadEndsArePast
  <2> QED
    BY <1>1, <2>1
<1>5. ASSUME NEW j \in Job, row'[j].phase = "failed"
      PROVE  starts'[j] = 0
  <2>1. starts[j] = 0
    BY <1>2, <1>5 DEF EndsSoundly, EndInv, RowEndsArePast
  <2>2. CASE row'[j].phase = row[j].phase
    BY <1>1, <1>5, <2>1, <2>2
  <2>3. CASE starts'[j] # starts[j]
    <3>1. PICK k \in Job : SendStart(k)
      BY <2>3, PhysicalSteps DEF physical, Accept, Drop, MachineStep
    <3>2. UNCHANGED row
      BY <3>1 DEF SendStart
    <3> QED
      BY <2>2, <3>2
  <2> QED
    BY <2>1, <2>3
<1> QED
  BY <1>1, <1>3, <1>4, <1>5 DEF EndInv, ReadEndsArePast, RowEndsArePast

\* What the station reports as completed, cancelled or failed is over at the
\* printer, with any number of readers and however late they apply what they
\* read.
THEOREM EndsAreConfirmed == Spec => []ConfirmedEndIsOver
<1>1. Init => EndInv
  <2> SUFFICES ASSUME Init PROVE EndInv
    OBVIOUS
  <2>1. /\ \A j \in Job : row[j].phase = "none" /\ j # NoJob
        /\ \A r \in Reader : view[r].state = "none"
        /\ machine.file = NoJob /\ wire = NoJob
    BY DEF Init, NoRow, NoReading, NoJob, Job
  <2> QED
    BY <2>1 DEF EndInv, NeverSentIsNowhere, TakenIsOffTheWire, ReadEndsArePast, RowEndsArePast
<1>2. EndInv => ConfirmedEndIsOver
  BY DEF EndInv, RowEndsArePast, NeverSentIsNowhere, ConfirmedEndIsOver, Past, UnderWay
<1> QED
  BY <1>1, <1>2, EndsStep, Invariant, PTL DEF Spec

-----------------------------------------------------------------------------
(* The station implements PrintOnce                                        *)

LEMMA LifeIs ==
    ASSUME NEW j \in Job
    PROVE  /\ row[j].phase \in Final => Life(j) = "settled"
           /\ row[j].phase \in ACTIVE /\ row[j].start_intent # "none" => Life(j) = "sent"
           /\ row[j].phase \notin Final /\ ~(/\ row[j].phase \in ACTIVE
                                             /\ row[j].start_intent # "none")
              => Life(j) = "unsent"
  BY PhaseSets DEF Life, Active

LEMMA LifeBecomes ==
    ASSUME NEW j \in Job
    PROVE  /\ row'[j].phase \in Final => Life(j)' = "settled"
           /\ row'[j].phase \in ACTIVE /\ row'[j].start_intent # "none" => Life(j)' = "sent"
           /\ row'[j].phase \notin Final /\ ~(/\ row'[j].phase \in ACTIVE
                                              /\ row'[j].start_intent # "none")
              => Life(j)' = "unsent"
  BY PhaseSets DEF Life, Active

\* How a row may move when no intent is written.
RowMoves(j) ==
    \/ /\ row'[j].phase = row[j].phase
       /\ row'[j].start_intent = "none" <=> row[j].start_intent = "none"
    \/ row[j].phase \in ACTIVE /\ row'[j].phase \in Final
    \/ row[j].phase \in Final /\ row'[j].phase \in Final
    \/ /\ row[j].phase \in ACTIVE /\ row'[j].phase \in ACTIVE
       /\ row'[j].start_intent = row[j].start_intent
    \/ /\ row[j].phase \notin Final /\ row'[j].phase \notin Final
       /\ row[j].start_intent = "none" /\ row'[j].start_intent = "none"

Settles(j) == /\ row[j].phase \in ACTIVE
              /\ Life(j) # "settled"
              /\ Life(j)' = "settled"

LEMMA LifeMoves ==
    ASSUME NEW j \in Job, RowMoves(j)
    PROVE  Life(j)' = Life(j) \/ Settles(j)
<1>1. CASE row[j].phase \in ACTIVE /\ row'[j].phase \in Final
  <2>1. row[j].phase \notin Final
    BY <1>1, PhaseSets
  <2> QED
    BY <1>1, <2>1, LifeIs, LifeBecomes DEF Settles
<1>2. CASE ~(row[j].phase \in ACTIVE /\ row'[j].phase \in Final)
  BY <1>2, LifeIs, LifeBecomes, PhaseSets DEF RowMoves
<1> QED
  BY <1>1, <1>2

\* One job is settled at a time, since one is active.
LEMMA OneSettles ==
    ASSUME OneActive, \A j \in Job : RowMoves(j)
    PROVE  [Once!Next]_([j \in Job |-> Life(j)])
<1>1. \A j \in Job : Life(j)' = Life(j) \/ Settles(j)
  BY LifeMoves
<1>2. CASE \A j \in Job : Life(j)' = Life(j)
  BY <1>2
<1>3. CASE \E j \in Job : Settles(j)
  <2>1. PICK j \in Job : Settles(j)
    BY <1>3
  <2>2. \A k \in Job \ {j} : Life(k)' = Life(k)
    BY <1>1, <2>1 DEF Settles, OneActive, Active
  <2>3. Once!Settle(j)
    BY <2>1, <2>2 DEF Settles, Once!Settle
  <2> QED
    BY <2>3 DEF Once!Next
<1> QED
  BY <1>1, <1>2, <1>3

\* The intent is the sending: no other job is sent and unsettled.
LEMMA IntentSends ==
    ASSUME StationInv, NEW j \in Job, WriteIntent(j)
    PROVE  [Once!Next]_([k \in Job |-> Life(k)])
<1>1. /\ row[j].phase \in ACTIVE /\ row[j].start_intent = "none"
      /\ row'[j].phase = "starting" /\ row'[j].start_intent = "new"
      /\ \A k \in Job \ {j} : row'[k] = row[k]
  BY JobBefore, PhaseSets DEF WriteIntent, Fits, RowFits, Early, StationInv, TypeOK, Row
<1>2. Life(j) = "unsent" /\ Life(j)' = "sent"
  BY <1>1, LifeIs, LifeBecomes, PhaseSets
<1>3. \A k \in Job \ {j} : Life(k)' = Life(k)
  BY <1>1 DEF Life, Active
<1>4. \A k \in Job : Life(k) # "sent"
  <2>1. \A k \in Job \ {j} : row[k].phase \notin ACTIVE
    BY <1>1 DEF StationInv, OneActive, Active
  <2> QED
    BY <1>2, <2>1, LifeIs
<1>5. Once!Send(j)
  BY <1>2, <1>3, <1>4 DEF Once!Send
<1> QED
  BY <1>5 DEF Once!Next

LEMMA RowsStay ==
    ASSUME UNCHANGED row
    PROVE  \A j \in Job : RowMoves(j)
  BY DEF RowMoves

LEMMA PreparingMoves ==
    ASSUME StationInv, NEW j \in Job,
           EndUpload(j) \/ Process(j) \/ CheckFails(j) \/ FinishStart(j)
    PROVE  \A k \in Job : RowMoves(k)
<1>1. /\ row[j].phase \in ACTIVE /\ row[j] \in Row
      /\ row[j].start_intent = "none" <=> task[j] \in Early
  BY JobBefore, PhaseSets DEF EndUpload, Process, CheckFails, FinishStart, Fits, RowFits,
     Early
<1>2. CASE UNCHANGED row
  BY <1>2, RowsStay
<1>3. ASSUME NEW phase \in Phase, Update(j, phase),
             phase \in ACTIVE \cup Final \/ (row[j].start_intent = "none" /\ phase \notin Final)
      PROVE  \A k \in Job : RowMoves(k)
  <2>1. /\ row'[j].phase = phase /\ row'[j].start_intent = row[j].start_intent
        /\ \A k \in Job \ {j} : row'[k] = row[k]
    BY <1>3, UpdateRow
  <2>2. RowMoves(j)
    BY <1>1, <1>3, <2>1, PhaseSets DEF RowMoves
  <2> QED
    BY <2>1, <2>2 DEF RowMoves
<1>4. AfterFailure(j) \in {"failed", "needs_attention"}
  BY DEF AfterFailure
<1>5. UNCHANGED row \/ \E phase \in {"failed", "needs_attention", "validating", "slicing",
                                     "awaiting_start", "sliced"} :
                          /\ Update(j, phase)
                          /\ phase = "sliced" => task[j] \in Early
  BY <1>4 DEF EndUpload, Process, CheckFails, FinishStart, Early
<1>6. /\ {"failed", "needs_attention", "validating", "slicing", "awaiting_start"}
            \subseteq ACTIVE \cup Final
      /\ "sliced" \notin Final
  BY PhaseNames, PhaseSets
<1>7. ASSUME NEW phase \in {"failed", "needs_attention", "validating", "slicing",
                           "awaiting_start", "sliced"},
             Update(j, phase), phase = "sliced" => task[j] \in Early
      PROVE  \A k \in Job : RowMoves(k)
  <2>1. phase \in Phase
    BY PhaseNames
  <2>2. phase \in ACTIVE \cup Final \/ (row[j].start_intent = "none" /\ phase \notin Final)
    BY <1>1, <1>6, <1>7
  <2> QED
    BY <1>3, <1>7, <2>1, <2>2
<1> QED
  BY <1>2, <1>5, <1>7

LEMMA RequestMoves ==
    ASSUME StationInv, StationInv', NEW j \in Job,
           \/ \E now \in BOOLEAN : Submit(j, now)
           \/ ClaimStart(j) \/ AgeIntent(j) \/ ResolveWrite(j)
    PROVE  \A k \in Job : RowMoves(k)
<1>1. CASE \E now \in BOOLEAN : Submit(j, now)
  <2>1. PICK now \in BOOLEAN : Submit(j, now)
    BY <1>1
  <2> DEFINE r == [NoRow EXCEPT !.phase = "uploading", !.print_now = now]
  <2>2. r.phase = "uploading" /\ r.start_intent = "none"
    BY DEF NoRow
  <2>3. row' = [row EXCEPT ![j] = r] /\ row[j].phase = "none"
    BY <2>1 DEF Submit
  <2> HIDE DEF r
  <2>4. row'[j] = r /\ \A k \in Job \ {j} : row'[k] = row[k]
    BY <2>3 DEF StationInv, TypeOK
  <2>5. row[j].start_intent = "none"
    BY <2>3, JobBefore DEF Fits, RowFits
  <2> QED
    BY <2>2, <2>3, <2>4, <2>5, PhaseSets, PhaseNames DEF RowMoves
<1>2. CASE ClaimStart(j)
  <2>1. /\ row[j].phase = "sliced" /\ row[j].start_intent = "none" /\ row[j] \in Row
        /\ row'[j] = [row[j] EXCEPT !.phase = "starting", !.authorized = TRUE]
        /\ \A k \in Job \ {j} : row'[k] = row[k]
    BY <1>2, JobBefore DEF ClaimStart, StationInv, TypeOK
  <2>2. row'[j].phase = "starting" /\ row'[j].start_intent = "none"
    BY <2>1 DEF Row
  <2> QED
    BY <2>1, <2>2, PhaseSets DEF RowMoves
<1>3. CASE AgeIntent(j)
  <2>1. /\ row[j].start_intent = "new" /\ row[j] \in Row
        /\ row'[j] = [row[j] EXCEPT !.start_intent = "old"]
        /\ \A k \in Job \ {j} : row'[k] = row[k]
    BY <1>3, JobBefore DEF AgeIntent, StationInv, TypeOK
  <2>2. row'[j].phase = row[j].phase /\ row'[j].start_intent = "old"
    BY <2>1 DEF Row
  <2> QED
    BY <2>1, <2>2 DEF RowMoves
<1>4. CASE ResolveWrite(j)
  <2>1. /\ row[j].phase \in Following \cup Final
        /\ row'[j].phase = "resolved"
        /\ \A k \in Job \ {j} : row'[k] = row[k]
    BY <1>4, JobBefore, UpdateRow, PhaseNames DEF ResolveWrite
  <2> QED
    BY <2>1, PhaseSets, PhaseNames DEF RowMoves
<1> QED
  BY <1>1, <1>2, <1>3, <1>4

LEMMA FollowingMoves ==
    ASSUME StationInv, NEW r \in Reader,
           (\E long \in BOOLEAN : Reconcile(r, long)) \/ Unreachable(r)
    PROVE  \A j \in Job : RowMoves(j)
<1> SUFFICES ASSUME NEW j \in Job PROVE RowMoves(j)
  OBVIOUS
<1>1. row[j] \in Row
  BY JobBefore
<1>2. CASE \E long \in BOOLEAN : Reconcile(r, long)
  <2>1. PICK long \in BOOLEAN : Reconcile(r, long)
    BY <1>2
  <2>2. CASE Followed(j)
    <3> DEFINE p == Verdict(j, view[r], long)
    <3>1. row[j].phase \in Following /\ p \in Following \cup Final
      BY <2>2, VerdictFollows DEF Followed
    <3>2. row'[j] = [row[j] EXCEPT !.phase = p]
      BY <2>1, <2>2 DEF Reconcile
    <3> HIDE DEF p
    <3>3. row'[j].phase = p /\ row'[j].start_intent = row[j].start_intent
      BY <1>1, <3>2 DEF Row
    <3> QED
      BY <3>1, <3>3, PhaseSets DEF RowMoves
  <2>3. CASE ~Followed(j)
    BY <2>1, <2>3 DEF Reconcile, RowMoves
  <2> QED
    BY <2>2, <2>3
<1>3. CASE Unreachable(r)
  <2>1. \/ row'[j] = row[j]
        \/ /\ row[j].phase \in Following
           /\ row'[j] = [row[j] EXCEPT !.phase = "needs_attention"]
    BY <1>3 DEF Unreachable, Following
  <2>2. \/ row'[j] = row[j]
        \/ /\ row[j].phase \in Following /\ row'[j].phase = "needs_attention"
           /\ row'[j].start_intent = row[j].start_intent
    BY <1>1, <2>1 DEF Row
  <2> QED
    BY <2>2, PhaseNames, PhaseSets DEF RowMoves
<1> QED
  BY <1>2, <1>3

LEMMA RestartMoves ==
    ASSUME StationInv, NEW graceful \in BOOLEAN, Restart(graceful)
    PROVE  \A j \in Job : RowMoves(j)
<1> SUFFICES ASSUME NEW j \in Job PROVE RowMoves(j)
  OBVIOUS
<1>1. CASE j \in Recovered(graceful)
  <2>1. row[j].phase \in ACTIVE /\ row[j] \in Row
    BY <1>1, JobBefore DEF Recovered, Active
  <2>2. row'[j] = [row[j] EXCEPT !.phase = AfterFailure(j)]
    BY <1>1 DEF Restart
  <2>3. PICK p \in {"failed", "needs_attention"} : p = AfterFailure(j)
    BY DEF AfterFailure
  <2>4. row'[j].phase = p /\ row'[j].start_intent = row[j].start_intent
    BY <2>1, <2>2, <2>3 DEF Row
  <2> QED
    BY <2>1, <2>3, <2>4, PhaseNames, PhaseSets DEF RowMoves
<1>2. CASE j \notin Recovered(graceful)
  BY <1>2 DEF Restart, RowMoves
<1> QED
  BY <1>1, <1>2

LEMMA OnceStep ==
    ASSUME StationInv, StationInv', [Next]_vars
    PROVE  [Once!Next]_([j \in Job |-> Life(j)])
<1>1. OneActive
  BY DEF StationInv
<1>2. ASSUME NEW j \in Job, WriteIntent(j) PROVE [Once!Next]_([k \in Job |-> Life(k)])
  BY <1>2, IntentSends
<1>3. ASSUME NEW j \in Job, TaskStep(j), ~WriteIntent(j) PROVE \A k \in Job : RowMoves(k)
  <2>1. CASE UNCHANGED row
    BY <2>1, RowsStay
  <2> QED
    BY <1>3, <2>1, PreparingMoves DEF TaskStep, DispatchRead, SendStart, StartUncertain
<1>4. ASSUME NEW j \in Job,
             \/ \E now \in BOOLEAN : Submit(j, now)
             \/ ClaimStart(j) \/ Accept(j) \/ Drop(j)
             \/ AgeIntent(j) \/ ResolveRead(j) \/ ResolveWrite(j)
      PROVE  \A k \in Job : RowMoves(k)
  <2>1. CASE UNCHANGED row
    BY <2>1, RowsStay
  <2> QED
    BY <1>4, <2>1, RequestMoves DEF Accept, Drop, ResolveRead
<1>5. ASSUME \/ \E m \in Reading : MachineStep(m.state, m.file)
             \/ \E r \in Reader : Read(r)
             \/ UNCHANGED vars
      PROVE  \A k \in Job : RowMoves(k)
  <2>1. UNCHANGED row
    BY <1>5 DEF MachineStep, Read, vars
  <2> QED
    BY <2>1, RowsStay
<1>6. \/ \E j \in Job : WriteIntent(j)
      \/ \A k \in Job : RowMoves(k)
  BY <1>3, <1>4, <1>5, FollowingMoves, RestartMoves DEF Next
<1> QED
  BY <1>1, <1>2, <1>6, OneSettles

\* A job is sent to the printer at most once and never again, and no other is
\* sent while its outcome is open: what the operator is promised, whatever
\* crashes, stale readings and resolve requests come between.
THEOREM StationImplementsPrintOnce == Spec => ImplementsPrintOnce
<1>1. Init => Once!Init
  <2> SUFFICES ASSUME Init PROVE Once!Init
    OBVIOUS
  <2>1. \A j \in Job : row[j].phase = "none"
    BY DEF Init, NoRow
  <2>2. \A j \in Job : Life(j) = "unsent"
    BY <2>1, LifeIs, PhaseSets
  <2> QED
    BY <2>2 DEF Once!Init
<1> QED
  BY <1>1, OnceStep, Invariant, PTL DEF Spec, ImplementsPrintOnce, Once!Spec
=============================================================================
