---------------------- MODULE ProductionDispatch_proofs ----------------------
(***************************************************************************)
(* Proofs about ProductionDispatch for every number of orders, grants,     *)
(* progress buckets and concurrent sessions.                               *)
(***************************************************************************)
EXTENDS ProductionDispatch, TLAPS

-----------------------------------------------------------------------------
(* Type correctness                                                        *)

\* Every action row of JOB_ACTIONS leads to statuses of the tables.
LEMMA RowsTyped ==
    ASSUME NEW act \in OwnerAction
    PROVE  /\ ToJob(act) \in JobStatus \ {"absent"}
           /\ ToOrder(act) \in OrderStatus
  BY DEF OwnerAction, ToJob, ToOrder, JobStatus, OrderStatus

\* A request is a well-typed decision.
LEMMA RequestTyped ==
    ASSUME NEW op \in Op \ {"event"}, NEW j \in Job \cup {NoJob},
           NEW a \in Auth \cup {NoAuth}
    PROVE  Request(op, j, a) \in Tx
  BY ProductionAssumption DEF Request, Tx, PlateEvent

\* So is the decision to record a station event.
LEMMA EventRequestTyped ==
    ASSUME NEW j \in Job \cup {NoJob}, NEW a \in Auth,
           NEW state \in PlateEvent, NEW bucket \in -1..MaxBucket
    PROVE  [Request("event", j, a) EXCEPT !.state = state, !.bucket = bucket] \in Tx
  BY ProductionAssumption DEF Request, Tx, Op

LEMMA IdleTyped == Idle \in Tx
  BY ProductionAssumption DEF Idle, Tx, Op, PlateEvent

\* Rows issued are well typed.
LEMMA NewAuthTyped ==
    ASSUME NEW j \in Job \cup {NoJob}, NEW code \in AuthCode
    PROVE  NewAuth(j, code) \in AuthRow
  BY ProductionAssumption DEF NewAuth, AuthRow

\* The field updates the actions make keep a row well typed.
LEMMA RowUpdatesTyped ==
    ASSUME NEW g \in AuthRow
    PROVE  /\ [g EXCEPT !.revoked = TRUE] \in AuthRow
           /\ [g EXCEPT !.expired = TRUE] \in AuthRow
           /\ [g EXCEPT !.aged = TRUE] \in AuthRow
           /\ [g EXCEPT !.claimed = TRUE] \in AuthRow
           /\ [g EXCEPT !.consumed = TRUE, !.code = "downloaded"] \in AuthRow
           /\ [g EXCEPT !.revoked = TRUE, !.code = "station_reset"] \in AuthRow
           /\ [g EXCEPT !.claimed = TRUE, !.consumed = TRUE,
                        !.code = "station_claimed"] \in AuthRow
           /\ \A code \in AuthCode : [g EXCEPT !.code = code] \in AuthRow
           /\ \A b \in -1..MaxBucket : [g EXCEPT !.bucket = b] \in AuthRow
           /\ \A t \in PlateEvent, x \in BOOLEAN :
                  [g EXCEPT !.trail = t, !.sent = x] \in AuthRow
  BY DEF AuthRow, AuthCode

\* The fields the claim and the reset set, and what they leave alone.
LEMMA RowUpdateFields ==
    ASSUME NEW g \in AuthRow, NEW h,
           \/ h = [g EXCEPT !.revoked = TRUE, !.code = "station_reset"]
           \/ h = [g EXCEPT !.claimed = TRUE, !.consumed = TRUE,
                            !.code = "station_claimed"]
    PROVE  /\ h.job = g.job /\ h.trail = g.trail /\ h.sent = g.sent
           /\ h.code \in {"station_reset", "station_claimed"}
  BY DEF AuthRow

\* A new grant is nothing but issued.
LEMMA NewAuthFields ==
    ASSUME NEW j, NEW code
    PROVE  /\ NewAuth(j, code).job = j
           /\ NewAuth(j, code).code = code
           /\ NewAuth(j, code).trail = "claimed"
           /\ ~NewAuth(j, code).sent
           /\ ~NewAuth(j, code).claimed
           /\ ~NewAuth(j, code).consumed
           /\ ~NewAuth(j, code).revoked
  BY DEF NewAuth

\* Revoking every grant keeps the rows well typed.
LEMMA RevokeAllTyped == TypeOK => RevokeAll \in [Auth -> AuthRow]
  BY RowUpdatesTyped DEF RevokeAll, TypeOK

\* Replacing one row by a well-typed one keeps the table well typed.
LEMMA RowReplaced ==
    ASSUME auth \in [Auth -> AuthRow], NEW a, NEW g,
           a \in Auth => g \in AuthRow
    PROVE  [auth EXCEPT ![a] = g] \in [Auth -> AuthRow]
  OBVIOUS

\* Every reachable state is well typed.
THEOREM TypeCorrect == Spec => []TypeOK
  <1>1. Init => TypeOK
    BY IdleTyped, NewAuthTyped DEF Init, TypeOK, JobStatus, OrderStatus, AuthCode,
       BridgeStatus, Adapter
  <1>2. TypeOK /\ [Next]_vars => TypeOK'
    <2> SUFFICES ASSUME TypeOK, [Next]_vars PROVE TypeOK'
      OBVIOUS
    <2>0. \A s \in Session : tx[s] \in Tx /\ (tx[s].job = NoJob \/ tx[s].job \in Job)
      BY DEF TypeOK, Tx
    <2>1. ASSUME NEW s \in Session, NEW r \in Tx, Begin(s, r) PROVE TypeOK'
      BY <2>1 DEF Begin, TypeOK
    <2>2. ASSUME NEW s \in Session, CompareVersion(s) PROVE tx' \in [Session -> Tx]
      BY <2>2, IdleTyped DEF CompareVersion, TypeOK
    <2>3. ASSUME NEW j \in Job, EnqueuePaidOrder(j) PROVE TypeOK'
      BY <2>3 DEF EnqueuePaidOrder, TypeOK, JobStatus, OrderStatus
    <2>4. ASSUME NEW s \in OwnerSession, OwnerNext(s) PROVE TypeOK'
      <3> s \in Session
        BY DEF Session
      <3>1. ASSUME NEW j \in Job, NEW act \in OwnerAction, BeginTransition(s, act, j)
            PROVE TypeOK'
        <4>1. Request(act, j, NoAuth) \in Tx
          BY RequestTyped DEF Op, OwnerAction
        <4> QED BY <3>1, <4>1, <2>1 DEF BeginTransition
      <3>2. ASSUME NEW j \in Job, BeginReadiness(s, j) PROVE TypeOK'
        <4>1. Request("readiness", j, NoAuth) \in Tx
          BY RequestTyped DEF Op, OwnerAction
        <4> QED BY <3>2, <4>1, <2>1 DEF BeginReadiness
      <3>3. ASSUME NEW j \in Job, BeginFulfilment(s, j) PROVE TypeOK'
        <4>1. /\ Request("prepared_for", j, NoAuth) \in Tx
              /\ Request("delivered", j, NoAuth) \in Tx
          BY RequestTyped DEF Op, OwnerAction
        <4> QED BY <3>3, <4>1, <2>1 DEF BeginFulfilment
      <3>4. ASSUME NEW j \in Job, BeginAuthorize(s, j) PROVE TypeOK'
        <4>1. /\ Request("handoff", j, NoAuth) \in Tx
              /\ Request("authorize", j, NoAuth) \in Tx
          BY RequestTyped DEF Op, OwnerAction
        <4> QED BY <3>4, <4>1, <2>1 DEF BeginAuthorize
      <3>5. ASSUME NEW j \in Job, BeginReset(s, j) PROVE TypeOK'
        <4>1. PICK a \in Auth : Begin(s, Request("reset", j, a))
          BY <3>5 DEF BeginReset
        <4>2. Request("reset", j, a) \in Tx
          BY RequestTyped DEF Op, OwnerAction
        <4> QED BY <4>1, <4>2, <2>1
      <3>6. ASSUME BeginPairing(s) PROVE TypeOK'
        <4>1. Request("pair", NoJob, NoAuth) \in Tx
          BY RequestTyped DEF Op, OwnerAction
        <4> QED BY <3>6, <4>1, <2>1 DEF BeginPairing
      <3>7. ASSUME CommitTransition(s) PROVE TypeOK'
        <4>1. tx[s].op \in OwnerAction /\ tx' \in [Session -> Tx]
          BY <3>7, <2>2 DEF CommitTransition
        <4>2. tx[s].job \in Job \cup {NoJob}
          BY <2>0
        <4>3. ToJob(tx[s].op) \in JobStatus /\ ToOrder(tx[s].op) \in OrderStatus
          BY <4>1, RowsTyped
        <4>4. printer' \in Job \cup {NoJob}
          BY <3>7, <4>2 DEF CommitTransition, Reserve, TypeOK
        <4> QED BY <3>7, <4>1, <4>3, <4>4 DEF CommitTransition, TypeOK
      <3>8. ASSUME CommitReadiness(s) PROVE TypeOK'
        BY <3>8, <2>2 DEF CommitReadiness, TypeOK, JobStatus, OrderStatus
      <3>9. ASSUME CommitFulfilment(s) PROVE TypeOK'
        BY <3>9, <2>2 DEF CommitFulfilment, TypeOK, OrderStatus
      <3>10. ASSUME CommitAuthorize(s) PROVE TypeOK'
        <4> DEFINE code == IF tx[s].op = "authorize" THEN "station_authorized"
                           ELSE "handoff"
        <4>1. NewAuth(tx[s].job, code) \in AuthRow
          BY <2>0, NewAuthTyped DEF AuthCode
        <4>2. \A b \in Auth : [auth[b] EXCEPT !.revoked = TRUE] \in AuthRow
          BY DEF TypeOK, AuthRow
        <4>3. auth' \in [Auth -> AuthRow]
          BY <3>10, <4>1, <4>2 DEF CommitAuthorize, TypeOK
        <4> QED BY <3>10, <2>2, <4>3 DEF CommitAuthorize, TypeOK, JobStatus
      <3>11. ASSUME CommitReset(s) PROVE TypeOK'
        <4>1. auth' \in [Auth -> AuthRow]
          <5> DEFINE a == tx[s].auth
                     g == [auth[a] EXCEPT !.revoked = TRUE, !.code = "station_reset"]
          <5>1. auth' = [auth EXCEPT ![a] = g]
            BY <3>11 DEF CommitReset
          <5>2. a \in Auth => g \in AuthRow
            BY RowUpdatesTyped DEF TypeOK
          <5> QED BY <5>1, <5>2, RowReplaced DEF TypeOK
        <4> QED BY <3>11, <2>2, <4>1 DEF CommitReset, TypeOK, JobStatus, OrderStatus
      <3>12. ASSUME CommitPairing(s) PROVE TypeOK'
        <4> QED BY <3>12, RevokeAllTyped, IdleTyped DEF CommitPairing, TypeOK, BridgeStatus
      <3> QED
        BY <2>4, <3>1, <3>2, <3>3, <3>4, <3>5, <3>6, <3>7, <3>8, <3>9, <3>10,
           <3>11, <3>12 DEF OwnerNext
    <2>5. ASSUME NEW s \in StationSession, StationNext(s) PROVE TypeOK'
      <3> s \in Session
        BY DEF Session
      <3>0. \A a \in Auth : auth[a].job \in Job \cup {NoJob}
        BY DEF TypeOK, AuthRow
      <3>1. ASSUME NEW a \in Auth, BeginClaim(s, a) PROVE TypeOK'
        <4>1. Request("claim", auth[a].job, a) \in Tx
          BY <3>0, RequestTyped DEF Op, OwnerAction
        <4> QED BY <3>1, <4>1, <2>1 DEF BeginClaim
      <3>2. ASSUME NEW a \in Auth, NEW state \in PlateEvent,
                   NEW bucket \in -1..MaxBucket, BeginEvent(s, a, state, bucket)
            PROVE TypeOK'
        <4> DEFINE r == [Request("event", auth[a].job, a) EXCEPT
                            !.state = state, !.bucket = bucket]
        <4>1. r \in Tx
          BY <3>0, EventRequestTyped
        <4> QED BY <3>2, <4>1, <2>1 DEF BeginEvent
      <3>3. ASSUME CommitClaim(s) PROVE TypeOK'
        <4>1. auth' \in [Auth -> AuthRow]
          <5> DEFINE a == tx[s].auth
                     g == [auth[a] EXCEPT !.claimed = TRUE, !.consumed = TRUE,
                                          !.code = "station_claimed"]
          <5>1. auth' = [auth EXCEPT ![a] = g]
            BY <3>3 DEF CommitClaim
          <5>2. a \in Auth => g \in AuthRow
            BY RowUpdatesTyped DEF TypeOK
          <5> QED BY <5>1, <5>2, RowReplaced DEF TypeOK
        <4> QED BY <3>3, <2>2, <4>1 DEF CommitClaim, TypeOK, JobStatus
      <3>4. ASSUME CommitEvent(s) PROVE TypeOK'
        <4>1. tx[s].state \in PlateEvent \cup {"none"} /\ tx[s].bucket \in -1..MaxBucket
          BY <2>0 DEF Tx
        <4>0. tx[s].state \in PlateEvent
          BY <3>4, <2>0 DEF CommitEvent, Tx
        <4>2. auth' \in [Auth -> AuthRow]
          <5> DEFINE a == tx[s].auth
                     state == tx[s].state
                     row == [auth[a] EXCEPT !.trail = state,
                                            !.sent = @ \/ state = "sent"]
                     g == CASE state = "refused" -> [row EXCEPT !.code = "station_refused"]
                            [] state = "printing" -> [row EXCEPT !.bucket = tx[s].bucket]
                            [] state = "completed" -> [row EXCEPT !.code = "station_completed"]
                            [] OTHER -> row
          <5>1. auth' = [auth EXCEPT ![a] = g]
            BY <3>4 DEF CommitEvent
          <5>2. ASSUME a \in Auth PROVE g \in AuthRow
            <6>1. row \in AuthRow
              <7>1. auth[a] \in AuthRow
                BY <5>2 DEF TypeOK
              <7>2. (auth[a].sent \/ state = "sent") \in BOOLEAN
                OBVIOUS
              <7> QED BY <4>0, <7>1, <7>2, RowUpdatesTyped
            <6> HIDE DEF row
            <6> QED BY <6>1, <4>1, RowUpdatesTyped DEF AuthCode
          <5> QED BY <5>1, <5>2, RowReplaced DEF TypeOK
        <4>3. job' \in [Job -> JobStatus] /\ order' \in [Job -> OrderStatus]
          BY <3>4 DEF CommitEvent, TypeOK, JobStatus, OrderStatus
        <4> QED BY <3>4, <2>2, <4>2, <4>3 DEF CommitEvent, TypeOK
      <3> QED BY <2>5, <3>1, <3>2, <3>3, <3>4 DEF StationNext
    <2>6. ASSUME NEW s \in Session, Abort(s) PROVE TypeOK'
      BY <2>6, IdleTyped DEF Abort, TypeOK
    <2>7. ASSUME NEW adapter \in Adapter, FinishPairing(adapter) PROVE TypeOK'
      BY <2>7 DEF FinishPairing, TypeOK, BridgeStatus
    <2>8. CASE RevokeBridge
      BY <2>8, RevokeAllTyped DEF RevokeBridge, TypeOK, BridgeStatus
    <2>9. CASE Heartbeat
      BY <2>9 DEF Heartbeat, TypeOK
    <2>10. ASSUME NEW a \in Auth, ClaimHandoff(a) \/ HandoffReceived(a) PROVE TypeOK'
      <3>1. \/ auth' = [auth EXCEPT ![a] = [auth[a] EXCEPT !.claimed = TRUE]]
            \/ auth' = [auth EXCEPT ![a] =
                           [auth[a] EXCEPT !.consumed = TRUE, !.code = "downloaded"]]
        BY <2>10 DEF ClaimHandoff, HandoffReceived
      <3>2. auth' \in [Auth -> AuthRow]
        <4>1. /\ [auth[a] EXCEPT !.claimed = TRUE] \in AuthRow
              /\ [auth[a] EXCEPT !.consumed = TRUE, !.code = "downloaded"] \in AuthRow
          BY RowUpdatesTyped DEF TypeOK
        <4> QED BY <3>1, <4>1 DEF TypeOK
      <3> QED BY <2>10, <3>2 DEF ClaimHandoff, HandoffReceived, TypeOK
    <2>11. CASE TimePasses
      <3>1. \A a \in Auth : GrantExpires(a) \/ ClaimAges(a) => auth' \in [Auth -> AuthRow]
        <4> SUFFICES ASSUME NEW a \in Auth, GrantExpires(a) \/ ClaimAges(a)
                     PROVE  auth' \in [Auth -> AuthRow]
          OBVIOUS
        <4>1. \/ auth' = [auth EXCEPT ![a] = [auth[a] EXCEPT !.expired = TRUE]]
              \/ auth' = [auth EXCEPT ![a] = [auth[a] EXCEPT !.aged = TRUE]]
          BY DEF GrantExpires, ClaimAges
        <4>2. /\ [auth[a] EXCEPT !.expired = TRUE] \in AuthRow
              /\ [auth[a] EXCEPT !.aged = TRUE] \in AuthRow
          BY RowUpdatesTyped DEF TypeOK
        <4> QED BY <4>1, <4>2 DEF TypeOK
      <3> QED
        BY <2>11, <3>1 DEF TimePasses, HeartbeatLapses, ReadinessLapses, GrantExpires,
           ClaimAges, TypeOK
    <2>12. CASE UNCHANGED vars
      BY <2>12 DEF vars, TypeOK
    <2> QED
      BY <2>3, <2>4, <2>5, <2>6, <2>7, <2>8, <2>9, <2>10, <2>11, <2>12 DEF Next
  <1> QED BY <1>1, <1>2, PTL DEF Spec

-----------------------------------------------------------------------------
(* Decisions: the compare-and-swap discipline                              *)

\* A row is issued exactly when it names a job.
RowsIssued == \A a \in Auth : auth[a].code = "unissued" <=> auth[a].job = NoJob

\* A decision rests on the status and fulfilment of its job and on four fields
\* of its grant; whatever leaves those alone leaves the decision true.
LEMMA DecisionFrame ==
    ASSUME NEW t \in Tx, Decided(t),
           t.op \notin {"idle", "pair"} =>
              /\ job'[t.job] = job[t.job]
              /\ fulfilment'[t.job] = fulfilment[t.job],
           t.op \in {"claim", "reset", "event"} =>
              /\ auth'[t.auth].job = auth[t.auth].job
              /\ auth'[t.auth].claimed = auth[t.auth].claimed
              /\ auth'[t.auth].trail = auth[t.auth].trail
              /\ auth'[t.auth].sent = auth[t.auth].sent
    PROVE  Decided(t)'
  <1>1. CASE t.op \in OwnerAction
    BY <1>1 DEF Decided, OwnerAction
  <1>2. CASE t.op \in {"claim", "reset"}
    BY <1>2 DEF Decided, OwnerAction
  <1>3. CASE t.op = "event"
    BY <1>3 DEF Decided, OwnerAction
  <1>4. CASE t.op \in {"readiness", "handoff", "authorize", "prepared_for", "delivered"}
    BY <1>4 DEF Decided, OwnerAction
  <1>5. CASE t.op \in {"idle", "pair"}
    BY <1>5 DEF Decided, OwnerAction
  <1> QED BY <1>1, <1>2, <1>3, <1>4, <1>5 DEF Tx, Op

\* The sessions whose decision names a job, and the grant it names.
LEMMA DecisionNames ==
    ASSUME TypeOK, RowsIssued, DecisionsStillHold, NEW s \in Session
    PROVE  /\ tx[s].op \notin {"idle", "pair"} <=> tx[s].job \in Job
           /\ tx[s].op \in {"claim", "reset", "event"} =>
                 /\ tx[s].auth \in Auth
                 /\ auth[tx[s].auth].job = tx[s].job
                 /\ auth[tx[s].auth].code # "unissued"
  <1>1. tx[s] \in Tx /\ NoJob \notin Job
    BY DEF TypeOK, Job, NoJob
  <1>2. tx[s].op \in {"idle", "pair"} <=> tx[s].job = NoJob
    BY DEF DecisionsStillHold
  <1>3. tx[s].op \notin {"idle", "pair"} <=> tx[s].job \in Job
    BY <1>1, <1>2 DEF Tx
  <1>4. Decided(tx[s])
    BY DEF DecisionsStillHold
  <1>5. tx[s].op \in {"claim", "reset", "event"} =>
           tx[s].auth \in Auth /\ auth[tx[s].auth].job = tx[s].job
    BY <1>4 DEF Decided, OwnerAction
  <1> QED BY <1>1, <1>3, <1>5 DEF RowsIssued

\* A commit under compare_version rolls back every decision about its job, so
\* it need only leave other jobs and their grants alone.
LEMMA CommitKeepsDecisions ==
    ASSUME TypeOK, RowsIssued, DecisionsStillHold,
           NEW s \in Session, tx[s].op \notin {"idle", "pair"}, CompareVersion(s),
           \A j \in Job \ {tx[s].job} :
              job'[j] = job[j] /\ fulfilment'[j] = fulfilment[j],
           \A a \in Auth :
              auth[a].code # "unissued" /\ auth[a].job # tx[s].job =>
                 /\ auth'[a].job = auth[a].job
                 /\ auth'[a].claimed = auth[a].claimed
                 /\ auth'[a].trail = auth[a].trail
                 /\ auth'[a].sent = auth[a].sent
    PROVE  DecisionsStillHold'
  <1> SUFFICES ASSUME NEW t \in Session
               PROVE  /\ tx'[t].op \in {"idle", "pair"} <=> tx'[t].job = NoJob
                      /\ Decided(tx[t])' 
    BY DEF DecisionsStillHold
  <1>1. CASE tx'[t] = Idle
    BY <1>1 DEF Idle, Decided, OwnerAction
  <1>2. CASE tx'[t] = tx[t] /\ tx[t].job # tx[s].job
    <2>1. tx[t] \in Tx /\ Decided(tx[t])
      BY DEF TypeOK, DecisionsStillHold
    <2>2. tx[t].op \notin {"idle", "pair"} => tx[t].job \in Job \ {tx[s].job}
      BY <1>2, DecisionNames
    <2>3. tx[t].op \in {"claim", "reset", "event"} =>
             /\ tx[t].auth \in Auth
             /\ auth[tx[t].auth].job # tx[s].job
             /\ auth[tx[t].auth].code # "unissued"
      BY <1>2, DecisionNames
    <2> DEFINE r == tx[t]
    <2>4. \A u \in Tx : u = tx[t] => Decided(u)'
      <3> SUFFICES ASSUME NEW u \in Tx, u = tx[t] PROVE Decided(u)'
        OBVIOUS
      <3> QED BY <2>1, <2>2, <2>3, DecisionFrame
    <2> QED BY <1>2, <2>1, <2>4 DEF DecisionsStillHold
  <1> QED BY <1>1, <1>2 DEF CompareVersion, TypeOK

\* A step that begins no decision keeps those it does not disturb.
LEMMA QuietKeepsDecisions ==
    ASSUME TypeOK, RowsIssued, DecisionsStillHold,
           \A t \in Session : tx'[t] = tx[t] \/ tx'[t] = Idle,
           \A t \in Session : tx[t].op \notin {"idle", "pair"} =>
              /\ job'[tx[t].job] = job[tx[t].job]
              /\ fulfilment'[tx[t].job] = fulfilment[tx[t].job],
           \A t \in Session : tx[t].op \in {"claim", "reset", "event"} =>
              /\ auth'[tx[t].auth].job = auth[tx[t].auth].job
              /\ auth'[tx[t].auth].claimed = auth[tx[t].auth].claimed
              /\ auth'[tx[t].auth].trail = auth[tx[t].auth].trail
              /\ auth'[tx[t].auth].sent = auth[tx[t].auth].sent
    PROVE  DecisionsStillHold'
  <1> SUFFICES ASSUME NEW t \in Session
               PROVE  /\ tx'[t].op \in {"idle", "pair"} <=> tx'[t].job = NoJob
                      /\ Decided(tx[t])'
    BY DEF DecisionsStillHold
  <1>1. CASE tx'[t] = Idle
    BY <1>1 DEF Idle, Decided, OwnerAction
  <1>2. CASE tx'[t] = tx[t]
    <2>1. tx[t] \in Tx /\ Decided(tx[t])
      BY DEF TypeOK, DecisionsStillHold
    <2>2. \A u \in Tx : u = tx[t] => Decided(u)'
      <3> SUFFICES ASSUME NEW u \in Tx, u = tx[t] PROVE Decided(u)'
        OBVIOUS
      <3> QED BY <2>1, DecisionFrame
    <2> QED BY <1>2, <2>1, <2>2 DEF DecisionsStillHold
  <1> QED BY <1>1, <1>2

\* A session begins with a decision that is true of what it just read.
LEMMA BeginKeepsDecisions ==
    ASSUME TypeOK, DecisionsStillHold, NEW s \in Session, NEW r \in Tx, Begin(s, r),
           Decided(r), r.op \in {"idle", "pair"} <=> r.job = NoJob
    PROVE  DecisionsStillHold'
  <1> SUFFICES ASSUME NEW t \in Session
               PROVE  /\ tx'[t].op \in {"idle", "pair"} <=> tx'[t].job = NoJob
                      /\ Decided(tx[t])'
    BY DEF DecisionsStillHold
  <1>0. tx'[t] = r \/ tx'[t] = tx[t]
    BY DEF Begin, TypeOK
  <1>1. \A u \in Tx : Decided(u) => Decided(u)'
    <2> SUFFICES ASSUME NEW u \in Tx, Decided(u) PROVE Decided(u)'
      OBVIOUS
    <2> QED BY DecisionFrame DEF Begin
  <1>2. CASE tx'[t] = r
    BY <1>1, <1>2
  <1>3. CASE tx'[t] = tx[t]
    <2>1. tx[t] \in Tx /\ Decided(tx[t])
      BY DEF TypeOK, DecisionsStillHold
    <2> QED BY <1>1, <1>3, <2>1 DEF DecisionsStillHold
  <1> QED BY <1>0, <1>2, <1>3

\* No request is ever decided on a read that a commit has made false, and no
\* two sessions that read the same job both commit.
THEOREM DecisionsHold == Spec => [](DecisionsStillHold /\ RowsIssued)
  <1> DEFINE Inv == DecisionsStillHold /\ RowsIssued
  <1>1. Init => Inv
    BY DEF Init, DecisionsStillHold, RowsIssued, Idle, NewAuth, Decided, OwnerAction
  <1>2. TypeOK /\ TypeOK' /\ Inv /\ [Next]_vars => Inv'
    <2> SUFFICES ASSUME TypeOK, TypeOK', Inv, [Next]_vars PROVE Inv'
      OBVIOUS
    <2>0. NoJob \notin Job /\ \A s \in Session : tx[s] \in Tx
      BY DEF TypeOK, Job, NoJob
    <2>1. ASSUME NEW j \in Job, EnqueuePaidOrder(j) PROVE Inv'
      <3>1. \A t \in Session : tx[t].op \notin {"idle", "pair"} =>
               job'[tx[t].job] = job[tx[t].job]
        <4> SUFFICES ASSUME NEW t \in Session, tx[t].op \notin {"idle", "pair"}
                     PROVE  tx[t].job # j
          BY <2>1, DecisionNames DEF EnqueuePaidOrder, TypeOK
        <4>1. tx[t] \in Tx /\ Decided(tx[t])
          BY <2>0 DEF DecisionsStillHold
        <4>2. job[j] = "absent"
          BY <2>1 DEF EnqueuePaidOrder
        <4> QED BY <4>1, <4>2 DEF Decided, OwnerAction, From, Tx, Op
      <3> QED BY <2>1, <3>1, QuietKeepsDecisions DEF EnqueuePaidOrder, RowsIssued
    <2>2. ASSUME NEW s \in OwnerSession, OwnerNext(s) PROVE Inv'
      <3> s \in Session
        BY DEF Session
      <3>0. RowsIssued' \/ auth' # auth
        BY DEF RowsIssued
      <3>1. ASSUME NEW j \in Job, NEW act \in OwnerAction, BeginTransition(s, act, j)
            PROVE Inv'
        <4>1. Request(act, j, NoAuth) \in Tx
          BY RequestTyped DEF Op, OwnerAction
        <4>2. Decided(Request(act, j, NoAuth))
          BY <3>1 DEF BeginTransition, Decided, Request, OwnerAction
        <4> QED BY <3>0, <3>1, <4>1, <4>2, <2>0, BeginKeepsDecisions
                DEF BeginTransition, Begin, Request, OwnerAction
      <3>2. ASSUME NEW j \in Job, BeginReadiness(s, j) PROVE Inv'
        <4>1. Request("readiness", j, NoAuth) \in Tx
          BY RequestTyped DEF Op, OwnerAction
        <4>2. Decided(Request("readiness", j, NoAuth))
          BY <3>2 DEF BeginReadiness, Decided, Request, OwnerAction
        <4> QED BY <3>0, <3>2, <4>1, <4>2, <2>0, BeginKeepsDecisions
                DEF BeginReadiness, Begin, Request
      <3>3. ASSUME NEW j \in Job, BeginFulfilment(s, j) PROVE Inv'
        <4>1. PICK op \in {"prepared_for", "delivered"} :
                 /\ Begin(s, Request(op, j, NoAuth))
                 /\ job[j] = "completed"
                 /\ fulfilment[j] = IF op = "delivered" THEN "ready" ELSE "pending"
          BY <3>3 DEF BeginFulfilment
        <4>2. Request(op, j, NoAuth) \in Tx
          BY RequestTyped DEF Op, OwnerAction
        <4>3. Decided(Request(op, j, NoAuth))
          BY <4>1 DEF Decided, Request, OwnerAction
        <4> QED BY <3>0, <4>1, <4>2, <4>3, <2>0, BeginKeepsDecisions DEF Begin, Request
      <3>4. ASSUME NEW j \in Job, BeginAuthorize(s, j) PROVE Inv'
        <4>1. PICK op \in {"handoff", "authorize"} :
                 Begin(s, Request(op, j, NoAuth)) /\ job[j] = "ready_to_print"
          BY <3>4 DEF BeginAuthorize, MayAuthorize
        <4>2. Request(op, j, NoAuth) \in Tx
          BY RequestTyped DEF Op, OwnerAction
        <4>3. Decided(Request(op, j, NoAuth))
          BY <4>1 DEF Decided, Request, OwnerAction
        <4> QED BY <3>0, <4>1, <4>2, <4>3, <2>0, BeginKeepsDecisions DEF Begin, Request
      <3>5. ASSUME NEW j \in Job, BeginReset(s, j) PROVE Inv'
        <4>1. PICK a \in Auth : /\ Begin(s, Request("reset", j, a))
                                /\ auth[a].job = j
                                /\ job[j] = "authorized"
          BY <3>5 DEF BeginReset
        <4>2. Request("reset", j, a) \in Tx
          BY RequestTyped DEF Op, OwnerAction
        <4>3. Decided(Request("reset", j, a))
          BY <4>1 DEF Decided, Request, OwnerAction
        <4> QED BY <3>0, <4>1, <4>2, <4>3, <2>0, BeginKeepsDecisions DEF Begin, Request
      <3>6. ASSUME BeginPairing(s) PROVE Inv'
        <4>1. Request("pair", NoJob, NoAuth) \in Tx
          BY RequestTyped DEF Op, OwnerAction
        <4>2. Decided(Request("pair", NoJob, NoAuth))
          BY DEF Decided, Request, OwnerAction
        <4> QED BY <3>0, <3>6, <4>1, <4>2, BeginKeepsDecisions
                DEF BeginPairing, Begin, Request
      <3>7. ASSUME CommitTransition(s) \/ CommitReadiness(s) \/ CommitFulfilment(s)
            PROVE Inv'
        <4>1. /\ tx[s].op \notin {"idle", "pair"}
              /\ CompareVersion(s)
              /\ auth' = auth
              /\ \A k \in Job \ {tx[s].job} :
                    job'[k] = job[k] /\ fulfilment'[k] = fulfilment[k]
          BY <3>7 DEF CommitTransition, CommitReadiness, CommitFulfilment,
             OwnerAction, TypeOK
        <4> QED BY <3>0, <4>1, CommitKeepsDecisions
      <3>8. ASSUME CommitAuthorize(s) PROVE Inv'
        <4> DEFINE code == IF tx[s].op = "authorize" THEN "station_authorized"
                           ELSE "handoff"
        <4>1. PICK a \in Auth :
                 /\ NextAuth(a)
                 /\ \A b \in Auth : \/ b = a /\ auth'[b] = NewAuth(tx[s].job, code)
                                    \/ b # a /\ auth'[b] = [auth[b] EXCEPT !.revoked = TRUE]
                                    \/ b # a /\ auth'[b] = auth[b]
          BY <3>8 DEF CommitAuthorize
        <4>2. auth[a].code = "unissued"
          BY <4>1 DEF NextAuth, Auth
        <4>3. /\ tx[s].op \notin {"idle", "pair"}
              /\ CompareVersion(s)
              /\ \A k \in Job \ {tx[s].job} :
                    job'[k] = job[k] /\ fulfilment'[k] = fulfilment[k]
          BY <3>8 DEF CommitAuthorize, TypeOK
        <4>4. \A b \in Auth : b # a =>
                 /\ auth'[b].job = auth[b].job
                 /\ auth'[b].claimed = auth[b].claimed
                 /\ auth'[b].trail = auth[b].trail
                 /\ auth'[b].sent = auth[b].sent
                 /\ auth'[b].code = auth[b].code
          BY <4>1 DEF TypeOK, AuthRow
        <4>5. tx[s].job \in Job
          BY <4>3, DecisionNames
        <4>6. RowsIssued'
          <5>1. auth'[a].job = tx[s].job /\ auth'[a].code = code
            <6>1. auth'[a] = NewAuth(tx[s].job, code)
              BY <4>1
            <6> QED BY <6>1, NewAuthFields
          <5> QED BY <4>4, <4>5, <5>1, <2>0 DEF RowsIssued
        <4>7. \A b \in Auth :
                 auth[b].code # "unissued" /\ auth[b].job # tx[s].job =>
                    /\ auth'[b].job = auth[b].job
                    /\ auth'[b].claimed = auth[b].claimed
                    /\ auth'[b].trail = auth[b].trail
                    /\ auth'[b].sent = auth[b].sent
          BY <4>2, <4>4
        <4> QED BY <4>3, <4>6, <4>7, CommitKeepsDecisions
      <3>9. ASSUME CommitReset(s) PROVE Inv'
        <4>1. /\ tx[s].op = "reset"
              /\ CompareVersion(s)
              /\ \A k \in Job \ {tx[s].job} :
                    job'[k] = job[k] /\ fulfilment'[k] = fulfilment[k]
          BY <3>9 DEF CommitReset, TypeOK
        <4>2. \A b \in Auth :
                 \/ auth'[b] = auth[b]
                 \/ /\ b = tx[s].auth
                    /\ auth'[b] = [auth[b] EXCEPT !.revoked = TRUE, !.code = "station_reset"]
          BY <3>9 DEF CommitReset, TypeOK
        <4>3. auth[tx[s].auth].job = tx[s].job /\ auth[tx[s].auth].code # "unissued"
          BY <4>1, DecisionNames
        <4>4. RowsIssued'
          <5>1. \A b \in Auth : /\ auth'[b].job = auth[b].job
                                /\ b # tx[s].auth => auth'[b].code = auth[b].code
                                /\ b = tx[s].auth => auth'[b].code # "unissued"
            <6> SUFFICES ASSUME NEW b \in Auth, auth'[b] # auth[b]
                         PROVE  /\ auth'[b].job = auth[b].job
                                /\ b = tx[s].auth
                                /\ auth'[b].code # "unissued"
              BY <4>3
            <6> DEFINE h == [auth[b] EXCEPT !.revoked = TRUE, !.code = "station_reset"]
            <6>1. b = tx[s].auth /\ auth'[b] = h /\ auth[b] \in AuthRow
              BY <4>2 DEF TypeOK
            <6>2. h.job = auth[b].job /\ h.code # "unissued"
              BY <6>1, RowUpdateFields
            <6> QED BY <6>1, <6>2
          <5> QED BY <4>3, <5>1 DEF RowsIssued
        <4> QED BY <4>1, <4>2, <4>3, <4>4, CommitKeepsDecisions
      <3>10. ASSUME CommitPairing(s) PROVE Inv'
        <4>1. \A b \in Auth : \/ auth'[b] = [auth[b] EXCEPT !.revoked = TRUE]
                              \/ auth'[b] = auth[b]
          BY <3>10 DEF CommitPairing, RevokeAll
        <4>2. \A b \in Auth :
                 /\ auth'[b].job = auth[b].job
                 /\ auth'[b].claimed = auth[b].claimed
                 /\ auth'[b].trail = auth[b].trail
                 /\ auth'[b].sent = auth[b].sent
                 /\ auth'[b].code = auth[b].code
          BY <4>1 DEF TypeOK, AuthRow
        <4> QED BY <3>10, <4>2, QuietKeepsDecisions, DecisionNames
                DEF CommitPairing, RowsIssued, TypeOK
      <3> QED
        BY <2>2, <3>1, <3>2, <3>3, <3>4, <3>5, <3>6, <3>7, <3>8, <3>9, <3>10
           DEF OwnerNext
    <2>3. ASSUME NEW s \in StationSession, StationNext(s) PROVE Inv'
      <3> s \in Session
        BY DEF Session
      <3>1. ASSUME NEW a \in Auth, BeginClaim(s, a) PROVE Inv'
        <4>1. auth[a].job \in Job
          BY <3>1 DEF BeginClaim, DispatchContext, RowsIssued, TypeOK, AuthRow
        <4>2. Request("claim", auth[a].job, a) \in Tx
          BY <4>1, RequestTyped DEF Op, OwnerAction
        <4>3. Decided(Request("claim", auth[a].job, a))
          BY <3>1 DEF BeginClaim, Decided, Request, OwnerAction
        <4> QED BY <3>1, <4>1, <4>2, <4>3, <2>0, BeginKeepsDecisions
                DEF BeginClaim, Begin, Request, RowsIssued
      <3>2. ASSUME NEW a \in Auth, NEW state \in PlateEvent,
                   NEW bucket \in -1..MaxBucket, BeginEvent(s, a, state, bucket)
            PROVE Inv'
        <4> DEFINE r == [Request("event", auth[a].job, a) EXCEPT
                            !.state = state, !.bucket = bucket]
        <4>1. auth[a].job \in Job
          BY <3>2 DEF BeginEvent, DispatchContext, RowsIssued, TypeOK, AuthRow
        <4>2. r \in Tx
          BY <4>1, EventRequestTyped
        <4>3. r.op = "event" /\ r.job = auth[a].job /\ r.auth = a /\ r.state = state
          BY DEF Request
        <4>4. Begin(s, r)
          BY <3>2 DEF BeginEvent
        <4> HIDE DEF r
        <4>5. Decided(r)
          BY <3>2, <4>3 DEF BeginEvent, Decided, OwnerAction
        <4> QED BY <4>1, <4>2, <4>3, <4>4, <4>5, <2>0, BeginKeepsDecisions
                DEF Begin, RowsIssued
      <3>3. ASSUME CommitClaim(s) PROVE Inv'
        <4>1. /\ tx[s].op = "claim"
              /\ CompareVersion(s)
              /\ \A k \in Job \ {tx[s].job} :
                    job'[k] = job[k] /\ fulfilment'[k] = fulfilment[k]
          BY <3>3 DEF CommitClaim, TypeOK
        <4>2. \A b \in Auth :
                 \/ auth'[b] = auth[b]
                 \/ /\ b = tx[s].auth
                    /\ auth'[b] = [auth[b] EXCEPT !.claimed = TRUE, !.consumed = TRUE,
                                                  !.code = "station_claimed"]
          BY <3>3 DEF CommitClaim, TypeOK
        <4>3. auth[tx[s].auth].job = tx[s].job /\ auth[tx[s].auth].code # "unissued"
          BY <4>1, DecisionNames
        <4>4. RowsIssued'
          <5>1. \A b \in Auth : /\ auth'[b].job = auth[b].job
                                /\ b # tx[s].auth => auth'[b].code = auth[b].code
                                /\ b = tx[s].auth => auth'[b].code # "unissued"
            <6> SUFFICES ASSUME NEW b \in Auth, auth'[b] # auth[b]
                         PROVE  /\ auth'[b].job = auth[b].job
                                /\ b = tx[s].auth
                                /\ auth'[b].code # "unissued"
              BY <4>3
            <6> DEFINE h == [auth[b] EXCEPT !.claimed = TRUE, !.consumed = TRUE,
                                            !.code = "station_claimed"]
            <6>1. b = tx[s].auth /\ auth'[b] = h /\ auth[b] \in AuthRow
              BY <4>2 DEF TypeOK
            <6>2. h.job = auth[b].job /\ h.code # "unissued"
              BY <6>1, RowUpdateFields
            <6> QED BY <6>1, <6>2
          <5> QED BY <4>3, <5>1 DEF RowsIssued
        <4> QED BY <4>1, <4>2, <4>3, <4>4, CommitKeepsDecisions
      <3>4. ASSUME CommitEvent(s) PROVE Inv'
        <4>1. /\ tx[s].op = "event"
              /\ CompareVersion(s)
              /\ \A k \in Job \ {tx[s].job} :
                    job'[k] = job[k] /\ fulfilment'[k] = fulfilment[k]
          BY <3>4 DEF CommitEvent, TypeOK
        <4>2. \A b \in Auth : b # tx[s].auth => auth'[b] = auth[b]
          BY <3>4 DEF CommitEvent, TypeOK
        <4>3. /\ tx[s].auth \in Auth
              /\ auth[tx[s].auth].job = tx[s].job
              /\ auth[tx[s].auth].code # "unissued"
          BY <4>1, DecisionNames
        <4>4. /\ auth'[tx[s].auth].job = auth[tx[s].auth].job
              /\ auth'[tx[s].auth].code # "unissued"
          BY <3>4, <4>3 DEF CommitEvent, TypeOK, AuthRow
        <4>5. RowsIssued'
          BY <4>2, <4>3, <4>4 DEF RowsIssued
        <4> QED BY <4>1, <4>2, <4>3, <4>5, CommitKeepsDecisions
      <3> QED BY <2>3, <3>1, <3>2, <3>3, <3>4 DEF StationNext
    <2>4. ASSUME NEW s \in Session, Abort(s) PROVE Inv'
      BY <2>4, QuietKeepsDecisions DEF Abort, RowsIssued, TypeOK
    <2>5. ASSUME UNCHANGED <<job, fulfilment, tx>>,
                 \A b \in Auth :
                    /\ auth'[b].job = auth[b].job
                    /\ auth'[b].code # "unissued" <=> auth[b].code # "unissued"
                    /\ auth'[b].trail = auth[b].trail
                    /\ auth'[b].sent = auth[b].sent
                    /\ \/ auth'[b].claimed = auth[b].claimed
                       \/ job[auth[b].job] = "ready_to_print"
          PROVE  Inv'
      <3>1. \A t \in Session : tx[t].op \in {"claim", "reset", "event"} =>
               auth'[tx[t].auth].claimed = auth[tx[t].auth].claimed
        <4> SUFFICES ASSUME NEW t \in Session, tx[t].op \in {"claim", "reset", "event"}
                     PROVE  job[auth[tx[t].auth].job] # "ready_to_print"
          BY <2>5, DecisionNames
        <4>1. Decided(tx[t])
          BY DEF DecisionsStillHold
        <4> QED BY <4>1 DEF Decided, OwnerAction
      <3> QED BY <2>5, <3>1, QuietKeepsDecisions, DecisionNames DEF RowsIssued
    <2>6. ASSUME NEW adapter \in Adapter, FinishPairing(adapter) PROVE Inv'
      BY <2>5, <2>6 DEF FinishPairing
    <2>7. CASE RevokeBridge
      <3>1. \A b \in Auth : \/ auth'[b] = [auth[b] EXCEPT !.revoked = TRUE]
                            \/ auth'[b] = auth[b]
        BY <2>7 DEF RevokeBridge, RevokeAll
      <3> QED BY <2>5, <2>7, <3>1 DEF RevokeBridge, TypeOK, AuthRow
    <2>8. CASE Heartbeat
      BY <2>5, <2>8 DEF Heartbeat
    <2>9. ASSUME NEW a \in Auth, ClaimHandoff(a) \/ HandoffReceived(a) PROVE Inv'
      BY <2>5, <2>9 DEF ClaimHandoff, HandoffReceived, HandoffAccess, TypeOK, AuthRow
    <2>10. CASE TimePasses
      BY <2>5, <2>10 DEF TimePasses, HeartbeatLapses, ReadinessLapses, GrantExpires,
         ClaimAges, TypeOK, AuthRow
    <2>11. CASE UNCHANGED vars
      BY <2>5, <2>11 DEF vars
    <2> QED
      BY <2>1, <2>2, <2>3, <2>4, <2>6, <2>7, <2>8, <2>9, <2>10, <2>11 DEF Next
  <1> QED BY <1>1, <1>2, TypeCorrect, PTL DEF Spec

-----------------------------------------------------------------------------
(* The printer reservation                                                 *)

\* What the steps that leave every job alone do to the grants.
GrantsBarelyMove ==
    \/ UNCHANGED auth
    \/ auth' = RevokeAll
    \/ \E a \in Auth : ClaimHandoff(a) \/ HandoffReceived(a)
    \/ \E a \in Auth : GrantExpires(a) \/ ClaimAges(a)

\* The steps that write neither a job, an order nor a fulfilment, and what the
\* commits do to the job they decided on.
LEMMA StepKinds ==
    ASSUME TypeOK, RowsIssued, DecisionsStillHold, [Next]_vars
    PROVE  \/ UNCHANGED <<job, order, fulfilment, printer>> /\ GrantsBarelyMove
           \/ \E j \in Job : EnqueuePaidOrder(j)
           \/ \E s \in Session :
                 /\ tx[s].job \in Job
                 /\ Decided(tx[s])
                 /\ \/ CommitTransition(s)
                    \/ CommitReadiness(s)
                    \/ CommitFulfilment(s)
                    \/ CommitAuthorize(s)
                    \/ CommitReset(s)
                    \/ CommitClaim(s)
                    \/ CommitEvent(s)
  <1> DEFINE Kind(s) == \/ CommitTransition(s)
                        \/ CommitReadiness(s)
                        \/ CommitFulfilment(s)
                        \/ CommitAuthorize(s)
                        \/ CommitReset(s)
                        \/ CommitClaim(s)
                        \/ CommitEvent(s)
             Quiet == UNCHANGED <<job, order, fulfilment, printer>> /\ GrantsBarelyMove
  <1>1. ASSUME NEW s \in Session, Kind(s)
        PROVE  tx[s].job \in Job /\ Decided(tx[s])
    <2>1. tx[s].op \notin {"idle", "pair"}
      BY <1>1 DEF CommitTransition, CommitReadiness, CommitFulfilment, CommitAuthorize,
         CommitReset, CommitClaim, CommitEvent, OwnerAction
    <2> QED BY <2>1, DecisionNames DEF DecisionsStillHold
  <1>2. ASSUME NEW s \in OwnerSession, OwnerNext(s) PROVE Kind(s) \/ Quiet
    <2>1. CASE \/ \E j \in Job :
                     \/ \E act \in OwnerAction : BeginTransition(s, act, j)
                     \/ BeginReadiness(s, j)
                     \/ BeginFulfilment(s, j)
                     \/ BeginAuthorize(s, j)
                     \/ BeginReset(s, j)
               \/ BeginPairing(s)
      <3>1. \E r : Begin(s, r)
        BY <2>1 DEF BeginTransition, BeginReadiness, BeginFulfilment, BeginAuthorize,
           BeginReset, BeginPairing
      <3> QED BY <3>1 DEF Begin, GrantsBarelyMove
    <2>2. CASE CommitPairing(s)
      BY <2>2 DEF CommitPairing, GrantsBarelyMove
    <2> QED BY <1>2, <2>1, <2>2 DEF OwnerNext
  <1>3. ASSUME NEW s \in StationSession, StationNext(s) PROVE Kind(s) \/ Quiet
    <2>1. CASE \E a \in Auth :
                  \/ BeginClaim(s, a)
                  \/ \E state \in PlateEvent, bucket \in -1..MaxBucket :
                        BeginEvent(s, a, state, bucket)
      <3>1. \E r : Begin(s, r)
        BY <2>1 DEF BeginClaim, BeginEvent
      <3> QED BY <3>1 DEF Begin, GrantsBarelyMove
    <2> QED BY <1>3, <2>1 DEF StationNext
  <1>4. ASSUME \/ \E s \in Session : Abort(s)
               \/ \E adapter \in Adapter : FinishPairing(adapter)
               \/ RevokeBridge
               \/ Heartbeat
               \/ \E a \in Auth : ClaimHandoff(a) \/ HandoffReceived(a)
               \/ TimePasses
               \/ UNCHANGED vars
        PROVE  Quiet
    <2>1. UNCHANGED <<job, order, fulfilment, printer>>
      BY <1>4 DEF Abort, FinishPairing, RevokeBridge, Heartbeat, ClaimHandoff,
         HandoffReceived, TimePasses, vars
    <2>2. GrantsBarelyMove
      BY <1>4 DEF Abort, FinishPairing, RevokeBridge, Heartbeat, TimePasses,
         HeartbeatLapses, ReadinessLapses, GrantsBarelyMove, vars
    <2> QED BY <2>1, <2>2
  <1> HIDE DEF Kind, Quiet
  <1>5. \/ Quiet
        \/ \E j \in Job : EnqueuePaidOrder(j)
        \/ \E s \in Session : Kind(s)
    BY <1>2, <1>3, <1>4 DEF Next, Session
  <1> QED BY <1>1, <1>5 DEF Kind, Quiet

\* A job that stays in a holding status keeps the printer.
LEMMA StillHolding ==
    ASSUME TypeOK, PrinterHeldByItsJob, NEW j \in Job,
           job[j] \in Holding, printer' = printer,
           \A k \in Job \ {j} : job'[k] = job[k],
           job'[j] \in Holding
    PROVE  PrinterHeldByItsJob'
  BY DEF PrinterHeldByItsJob

\* The printer row and the job rows agree in every reachable state, so no two
\* jobs ever have the bed, however many tabs the owner has open.
THEOREM PrinterHeld == Spec => []PrinterHeldByItsJob
  <1>1. Init => PrinterHeldByItsJob
    BY DEF Init, PrinterHeldByItsJob, Holding, InLine, Job, NoJob
  <1>2. /\ TypeOK /\ RowsIssued /\ DecisionsStillHold
        /\ PrinterHeldByItsJob /\ [Next]_vars
        => PrinterHeldByItsJob'
    <2> SUFFICES ASSUME TypeOK, RowsIssued, DecisionsStillHold, PrinterHeldByItsJob,
                        [Next]_vars
                 PROVE  PrinterHeldByItsJob'
      OBVIOUS
    <2>0. NoJob \notin Job
      BY DEF Job, NoJob
    <2>1. CASE UNCHANGED <<job, order, fulfilment, printer>>
      BY <2>1 DEF PrinterHeldByItsJob
    <2>2. ASSUME NEW j \in Job, EnqueuePaidOrder(j) PROVE PrinterHeldByItsJob'
      <3>1. job[j] = "absent" /\ job'[j] = "queued" /\ printer' = printer
            /\ \A k \in Job \ {j} : job'[k] = job[k]
        BY <2>2 DEF EnqueuePaidOrder, TypeOK
      <3> QED BY <3>1 DEF PrinterHeldByItsJob, Holding, InLine
    <2>3. ASSUME NEW s \in Session, tx[s].job \in Job, Decided(tx[s]), CommitTransition(s)
          PROVE  PrinterHeldByItsJob'
      <3> DEFINE act == tx[s].op
                 j == tx[s].job
      <3>0. act \in OwnerAction
        BY <2>3 DEF CommitTransition
      <3>1. act \in OwnerAction /\ job[j] \in From(act)
        BY <2>3, <3>0 DEF Decided, OwnerAction
      <3>2. job'[j] = ToJob(act) /\ \A k \in Job \ {j} : job'[k] = job[k]
        BY <2>3 DEF CommitTransition, TypeOK
      <3>3. CASE act = "prepare"
        <4>1. job'[j] = "preparing" /\ printer \in {NoJob, j} /\ printer' = j
          BY <2>3, <3>2, <3>3 DEF CommitTransition, ToJob, Reserve, Releases
        <4> QED BY <2>3, <3>2, <4>1, <2>0 DEF PrinterHeldByItsJob, Holding, InLine
      <3>4. CASE act = "manual_started"
        <4>1. job'[j] = "printing" /\ printer \in {NoJob, j} /\ printer' = j
          BY <2>3, <3>2, <3>4 DEF CommitTransition, ToJob, Reserve, Releases
        <4> QED BY <2>3, <3>2, <4>1, <2>0 DEF PrinterHeldByItsJob, Holding, InLine
      <3>5. CASE act = "release"
        <4>1. job'[j] = "queued" /\ printer' = printer /\ job[j] = "on_hold"
          BY <2>3, <3>1, <3>2, <3>5 DEF CommitTransition, ToJob, From, Releases
        <4> QED BY <2>3, <3>2, <4>1 DEF PrinterHeldByItsJob, Holding, InLine
      <3>6. CASE act \in Releases
        <4>1. job'[j] \in {"on_hold", "qa", "failed", "completed"}
          BY <3>2, <3>6 DEF ToJob, Releases
        <4>2. printer' = IF printer = j THEN NoJob ELSE printer
          BY <2>3, <3>6 DEF CommitTransition, Releases
        <4> QED BY <2>3, <3>2, <4>1, <4>2, <2>0 DEF PrinterHeldByItsJob, Holding, InLine
      <3> QED BY <3>1, <3>3, <3>4, <3>5, <3>6 DEF OwnerAction, Releases
    <2>4. ASSUME NEW s \in Session, tx[s].job \in Job, Decided(tx[s]),
                 \/ CommitReadiness(s)
                 \/ CommitAuthorize(s)
                 \/ CommitReset(s)
                 \/ CommitClaim(s)
          PROVE  PrinterHeldByItsJob'
      <3> DEFINE j == tx[s].job
      <3>1. printer' = printer /\ \A k \in Job \ {j} : job'[k] = job[k]
        BY <2>4 DEF CommitReadiness, CommitAuthorize, CommitReset, CommitClaim, TypeOK
      <3>2. job[j] \in {"preparing", "ready_to_print", "authorized"}
        BY <2>4 DEF CommitReadiness, CommitAuthorize, CommitReset, CommitClaim, Decided,
           OwnerAction
      <3>3. job'[j] \in {"preparing", "ready_to_print", "authorized", "claimed"}
        BY <2>4, <3>2 DEF CommitReadiness, CommitAuthorize, CommitReset, CommitClaim, TypeOK
      <3> QED BY <2>4, <3>1, <3>2, <3>3, StillHolding DEF Holding, InLine
    <2>5. ASSUME NEW s \in Session, tx[s].job \in Job, CommitFulfilment(s)
          PROVE  PrinterHeldByItsJob'
      BY <2>5 DEF CommitFulfilment, PrinterHeldByItsJob
    <2>6. ASSUME NEW s \in Session, tx[s].job \in Job, Decided(tx[s]), CommitEvent(s)
          PROVE  PrinterHeldByItsJob'
      <3> DEFINE j == tx[s].job
      <3>1. job[j] \in {"claimed", "printing"}
        BY <2>6 DEF CommitEvent, Decided, OwnerAction
      <3>2. \A k \in Job \ {j} : job'[k] = job[k]
        BY <2>6 DEF CommitEvent, TypeOK
      <3>3. CASE tx[s].state = "completed"
        <4>1. job'[j] = "qa" /\ printer' = IF printer = j THEN NoJob ELSE printer
          BY <2>6, <3>3 DEF CommitEvent, TypeOK
        <4> QED BY <2>6, <3>2, <4>1, <2>0 DEF PrinterHeldByItsJob, Holding, InLine
      <3>4. CASE tx[s].state # "completed"
        <4>1. job'[j] \in {"preparing", "printing", job[j]} /\ printer' = printer
          BY <2>6, <3>4 DEF CommitEvent, TypeOK
        <4> QED BY <2>6, <3>1, <3>2, <4>1, StillHolding DEF Holding, InLine
      <3> QED BY <3>3, <3>4
    <2> QED BY <2>1, <2>2, <2>3, <2>4, <2>5, <2>6, StepKinds
  <1> QED BY <1>1, <1>2, TypeCorrect, DecisionsHold, PTL DEF Spec

-----------------------------------------------------------------------------
(* What the buyer sees                                                     *)

\* One job moved: the order it shows must be recomputed for that job only.
LEMMA OneJobMoved ==
    ASSUME OrderFollowsJob, NEW j \in Job,
           \A k \in Job \ {j} : /\ job'[k] = job[k]
                                /\ order'[k] = order[k]
                                /\ fulfilment'[k] = fulfilment[k],
           order'[j] \in OrderFor(j)',
           job'[j] # "completed" => fulfilment'[j] = "pending"
    PROVE  OrderFollowsJob'
  BY DEF OrderFollowsJob, OrderFor

\* The buyer's order and its production job agree in every reachable state.
THEOREM OrderFollows == Spec => []OrderFollowsJob
  <1>1. Init => OrderFollowsJob
    BY DEF Init, OrderFollowsJob, OrderFor
  <1>2. /\ TypeOK /\ RowsIssued /\ DecisionsStillHold
        /\ OrderFollowsJob /\ [Next]_vars
        => OrderFollowsJob'
    <2> SUFFICES ASSUME TypeOK, RowsIssued, DecisionsStillHold, OrderFollowsJob,
                        [Next]_vars
                 PROVE  OrderFollowsJob'
      OBVIOUS
    <2>1. CASE UNCHANGED <<job, order, fulfilment, printer>>
      BY <2>1 DEF OrderFollowsJob, OrderFor
    <2>2. ASSUME NEW j \in Job, EnqueuePaidOrder(j) PROVE OrderFollowsJob'
      <3>1. /\ job'[j] = "queued" /\ order'[j] = "queued" /\ fulfilment' = fulfilment
            /\ \A k \in Job \ {j} : job'[k] = job[k] /\ order'[k] = order[k]
            /\ job[j] = "absent"
        BY <2>2 DEF EnqueuePaidOrder, TypeOK
      <3> QED BY <3>1, OneJobMoved DEF OrderFollowsJob, OrderFor
    <2>3. ASSUME NEW s \in Session, tx[s].job \in Job, Decided(tx[s]), CommitTransition(s)
          PROVE  OrderFollowsJob'
      <3> DEFINE act == tx[s].op
                 j == tx[s].job
      <3>0. act \in OwnerAction
        BY <2>3 DEF CommitTransition
      <3>1. job[j] \in From(act)
        BY <2>3, <3>0 DEF Decided, OwnerAction
      <3>2. /\ job'[j] = ToJob(act) /\ order'[j] = ToOrder(act)
            /\ fulfilment' = fulfilment
            /\ \A k \in Job \ {j} : job'[k] = job[k] /\ order'[k] = order[k]
        BY <2>3 DEF CommitTransition, TypeOK
      <3>3. job[j] # "completed"
        BY <3>0, <3>1 DEF OwnerAction, From
      <3>4. fulfilment'[j] = "pending"
        BY <2>3, <3>2, <3>3 DEF OrderFollowsJob
      <3>5. \/ /\ job'[j] = order'[j]
               /\ job'[j] \in {"preparing", "on_hold", "queued", "printing", "qa"}
            \/ job'[j] = "completed" /\ order'[j] = "qa"
            \/ job'[j] = "failed" /\ order'[j] = "print_failed"
        BY <3>0, <3>2 DEF OwnerAction, ToJob, ToOrder
      <3>6. \A k \in Job : k = tx[s].job => order'[k] \in OrderFor(k)'
        BY <3>4, <3>5 DEF OrderFor
      <3> QED BY <2>3, <3>2, <3>4, <3>6, OneJobMoved
    <2>4. ASSUME NEW s \in Session, tx[s].job \in Job, Decided(tx[s]),
                 \/ CommitReadiness(s)
                 \/ CommitAuthorize(s)
                 \/ CommitReset(s)
                 \/ CommitClaim(s)
          PROVE  OrderFollowsJob'
      <3> DEFINE j == tx[s].job
      <3>1. /\ fulfilment' = fulfilment
            /\ \A k \in Job \ {j} : job'[k] = job[k] /\ order'[k] = order[k]
        BY <2>4 DEF CommitReadiness, CommitAuthorize, CommitReset, CommitClaim, TypeOK
      <3>2. job[j] \in {"preparing", "ready_to_print", "authorized"}
        BY <2>4 DEF CommitReadiness, CommitAuthorize, CommitReset, CommitClaim, Decided,
           OwnerAction
      <3>3. CASE CommitReadiness(s) \/ CommitReset(s)
        <4>1. order'[j] = job'[j] /\ job'[j] \in {"preparing", "ready_to_print"}
          BY <2>4, <3>3 DEF CommitReadiness, CommitReset, TypeOK
        <4> QED BY <2>4, <3>1, <3>2, <4>1, OneJobMoved DEF OrderFollowsJob, OrderFor
      <3>4. CASE CommitAuthorize(s) \/ CommitClaim(s)
        <4>1. job[j] \in {"ready_to_print", "authorized"}
          BY <2>4, <3>4 DEF CommitAuthorize, CommitClaim, Decided, OwnerAction
        <4>2. /\ order' = order
              /\ job'[j] \in {job[j], "authorized", "claimed"}
          BY <2>4, <3>4 DEF CommitAuthorize, CommitClaim, TypeOK
        <4>3. order[j] = "ready_to_print" /\ fulfilment[j] = "pending"
          BY <2>4, <4>1 DEF OrderFollowsJob, OrderFor
        <4> QED BY <2>4, <3>1, <4>1, <4>2, <4>3, OneJobMoved DEF OrderFor
      <3> QED BY <2>4, <3>3, <3>4
    <2>5. ASSUME NEW s \in Session, tx[s].job \in Job, Decided(tx[s]), CommitFulfilment(s)
          PROVE  OrderFollowsJob'
      <3> DEFINE j == tx[s].job
      <3>1. job[j] = "completed"
        BY <2>5 DEF CommitFulfilment, Decided, OwnerAction
      <3>2. /\ job' = job
            /\ order'[j] = fulfilment'[j] /\ fulfilment'[j] \in {"ready", "completed"}
            /\ \A k \in Job \ {j} : /\ order'[k] = order[k]
                                    /\ fulfilment'[k] = fulfilment[k]
        BY <2>5 DEF CommitFulfilment, TypeOK
      <3> QED BY <2>5, <3>1, <3>2, OneJobMoved DEF OrderFor
    <2>6. ASSUME NEW s \in Session, tx[s].job \in Job, Decided(tx[s]), CommitEvent(s)
          PROVE  OrderFollowsJob'
      <3> DEFINE j == tx[s].job
      <3>1. job[j] \in {"claimed", "printing"}
        BY <2>6 DEF CommitEvent, Decided, OwnerAction
      <3>2. /\ fulfilment' = fulfilment
            /\ \A k \in Job \ {j} : job'[k] = job[k] /\ order'[k] = order[k]
        BY <2>6 DEF CommitEvent, TypeOK
      <3>3. \/ job'[j] = job[j] /\ order'[j] = order[j]
            \/ job'[j] = order'[j] /\ job'[j] \in {"preparing", "printing", "qa"}
        BY <2>6 DEF CommitEvent, TypeOK
      <3> QED BY <2>6, <3>1, <3>2, <3>3, OneJobMoved DEF OrderFollowsJob, OrderFor
    <2> QED BY <2>1, <2>2, <2>3, <2>4, <2>5, <2>6, StepKinds
  <1> QED BY <1>1, <1>2, TypeCorrect, DecisionsHold, PTL DEF Spec

-----------------------------------------------------------------------------
(* Grants                                                                  *)

\* What the result code of a grant says of the grant.
GrantSound(g) ==
    /\ g.sent <=> g.trail \notin {"claimed", "refused"}
    /\ g.code \in {"unissued", "handoff", "downloaded", "station_authorized", "station_reset"}
         => g.trail = "claimed"
    /\ g.code = "handoff" => ~g.consumed
    /\ g.code = "downloaded" => g.consumed
    /\ g.code = "station_authorized" => ~g.claimed /\ ~g.consumed
    /\ g.code = "station_reset" => ~g.claimed /\ g.revoked
    /\ g.code \in {"station_claimed", "station_refused", "station_completed"}
         => g.claimed /\ g.consumed
    /\ g.code = "station_refused" <=> g.trail = "refused"
    /\ g.code = "station_completed" <=> g.trail = "completed"

\* What it says of the job: a job has left "authorized" once its grant was
\* claimed or reset, and never comes back while a claimed grant is open.
GrantFitsJob(g, status) ==
    /\ g.code = "station_authorized" => status = "authorized"
    /\ g.code = "station_claimed" =>
         /\ status \in {"claimed", "printing", "qa", "completed", "failed"}
         /\ status = "claimed" => g.trail # "printing"
         /\ status = "printing" => g.sent
    /\ g.code = "station_completed" => status \in {"qa", "completed", "failed"}

\* The grants that were claimed and did not end in a refusal.
Taken == {"station_claimed", "station_completed"}

OneGrantInForce ==
    \A a, b \in Auth :
        /\ auth[a].job = auth[b].job
        /\ \/ auth[a].code = "station_authorized" /\ auth[b].code = "station_authorized"
           \/ auth[a].code \in Taken /\ auth[b].code \in Taken
        => a = b

GrantAtHand ==
    \A j \in Job :
        /\ job[j] = "authorized" =>
              \E a \in Auth : auth[a].job = j /\ auth[a].code = "station_authorized"
        /\ job[j] = "claimed" =>
              \E a \in Auth : auth[a].job = j /\ auth[a].code = "station_claimed"

\* An event is only ever decided for a claimed station grant.
EventsNameClaimed ==
    \A s \in Session : tx[s].op = "event" =>
        tx[s].auth \in Auth /\ auth[tx[s].auth].code = "station_claimed"

\* Inductive together with TypeOK, RowsIssued and DecisionsStillHold.
GrantsSound ==
    /\ \A a \in Auth : GrantSound(auth[a]) /\ GrantFitsJob(auth[a], job[auth[a].job])
    /\ OneGrantInForce
    /\ GrantAtHand
    /\ EventsNameClaimed

\* A write that tells nothing of how far a grant has got: revocation and time.
Kept(g, h) ==
    /\ h.job = g.job /\ h.code = g.code /\ h.trail = g.trail /\ h.sent = g.sent
    /\ h.claimed = g.claimed /\ h.consumed = g.consumed
    /\ g.revoked => h.revoked

\* A manual handoff is claimed or received; the station has no part in it.
HandedOver(g, h) ==
    /\ g.code = "handoff" /\ h.code \in {"handoff", "downloaded"}
    /\ h.job = g.job /\ h.trail = g.trail /\ h.sent = g.sent
    /\ GrantSound(h)

LEMMA KeptFields ==
    ASSUME NEW g \in AuthRow
    PROVE  /\ Kept(g, g)
           /\ Kept(g, [g EXCEPT !.revoked = TRUE])
           /\ Kept(g, [g EXCEPT !.expired = TRUE])
           /\ Kept(g, [g EXCEPT !.aged = TRUE])
  BY DEF Kept, AuthRow

LEMMA KeptIsSound ==
    ASSUME NEW g, NEW h, Kept(g, h), GrantSound(g)
    PROVE  GrantSound(h)
  BY DEF Kept, GrantSound

\* How a job may move while its grants stay as they are.
MovesAside(k) ==
    \/ job'[k] = job[k]
    \/ /\ job[k] \notin {"authorized", "claimed", "printing", "qa", "completed", "failed"}
       /\ job'[k] \notin {"authorized", "claimed"}
    \/ /\ job[k] \in {"claimed", "printing", "qa"}
       /\ job'[k] \in {"qa", "completed", "failed"}

\* Sessions that survive a step know the same of their grant as before; a
\* session that begins an event has just read a claimed grant.
NamesAsBefore ==
    \A t \in Session :
        \/ tx'[t] = tx[t]
        \/ tx'[t].op # "event"
        \/ tx'[t].auth \in Auth /\ auth[tx'[t].auth].code = "station_claimed"

LEMMA GrantsKept ==
    ASSUME TypeOK, RowsIssued, GrantsSound, NamesAsBefore,
           \A a \in Auth : Kept(auth[a], auth'[a]) \/ HandedOver(auth[a], auth'[a]),
           \A k \in Job : MovesAside(k)
    PROVE  GrantsSound'
<1> DEFINE Manual == {"handoff", "downloaded"}
<1>1. \A a \in Auth : /\ auth'[a].job = auth[a].job
                      /\ auth'[a].trail = auth[a].trail
                      /\ auth'[a].sent = auth[a].sent
                      /\ \/ auth'[a].code = auth[a].code
                         \/ auth'[a].code \in Manual /\ auth[a].code \in Manual
  BY DEF Kept, HandedOver
<1>2. \A a \in Auth : GrantSound(auth'[a])
  BY KeptIsSound DEF GrantsSound, HandedOver
<1>3. \A a \in Auth : GrantFitsJob(auth'[a], job'[auth'[a].job])
  <2> SUFFICES ASSUME NEW a \in Auth PROVE GrantFitsJob(auth'[a], job'[auth'[a].job])
    OBVIOUS
  <2>1. GrantFitsJob(auth[a], job[auth[a].job])
    BY DEF GrantsSound
  <2>2. CASE auth[a].job \in Job
    BY <1>1, <2>1, <2>2 DEF GrantFitsJob, MovesAside
  <2>3. CASE auth[a].job \notin Job
    <3>1. auth[a].code = "unissued"
      BY <2>3 DEF TypeOK, AuthRow, RowsIssued
    <3> QED
      BY <1>1, <3>1 DEF GrantFitsJob
  <2> QED
    BY <2>2, <2>3
<1>4. OneGrantInForce'
  BY <1>1 DEF GrantsSound, OneGrantInForce, Taken
<1>5. GrantAtHand'
  <2>1. \A k \in Job : /\ job'[k] = "authorized" => job[k] = "authorized"
                       /\ job'[k] = "claimed" => job[k] = "claimed"
    BY DEF MovesAside
  <2> QED
    BY <1>1, <2>1 DEF GrantsSound, GrantAtHand
<1>6. EventsNameClaimed'
  BY <1>1 DEF GrantsSound, EventsNameClaimed, NamesAsBefore
<1> QED
  BY <1>2, <1>3, <1>4, <1>5, <1>6 DEF GrantsSound

\* A commit: the sessions that remain are about other jobs, and their grants
\* are the ones they named.
LEMMA OtherSessions ==
    ASSUME TypeOK, RowsIssued, DecisionsStillHold, GrantsSound,
           NEW s \in Session, tx[s].job \in Job, CompareVersion(s)
    PROVE  \A t \in Session : tx'[t].op = "event" =>
              /\ tx'[t] = tx[t]
              /\ tx[t].auth \in Auth
              /\ auth[tx[t].auth].code = "station_claimed"
              /\ auth[tx[t].auth].job # tx[s].job
<1>1. Idle.op = "idle"
  BY DEF Idle
<1>2. \A t \in Session : tx'[t] = Idle \/ (tx'[t] = tx[t] /\ tx[t].job # tx[s].job)
  BY DEF CompareVersion
<1> QED
  BY <1>1, <1>2, DecisionNames DEF GrantsSound, EventsNameClaimed

\* One grant of one job is written; every other grant tells what it told, and
\* every other job stays where it is.
OneWritten(a, j) ==
    /\ \A b \in Auth \ {a} : Kept(auth[b], auth'[b])
    /\ \A k \in Job \ {j} : job'[k] = job[k]

LEMMA GrantWritten ==
    ASSUME TypeOK, RowsIssued, DecisionsStillHold, GrantsSound,
           NEW s \in Session, tx[s].job \in Job, CompareVersion(s),
           NEW a \in Auth, OneWritten(a, tx[s].job),
           auth'[a].job = tx[s].job,
           auth[a].job \in {NoJob, tx[s].job},
           GrantSound(auth'[a]),
           GrantFitsJob(auth'[a], job'[auth'[a].job]),
           \A b \in Auth \ {a} : auth[b].job = tx[s].job =>
              /\ GrantFitsJob(auth[b], job'[tx[s].job])
              /\ auth'[a].code = "station_authorized" => auth[b].code # "station_authorized"
              /\ auth'[a].code \in Taken => auth[b].code \notin Taken,
           job'[tx[s].job] = "authorized" =>
              \E b \in Auth : auth'[b].job = tx[s].job /\ auth'[b].code = "station_authorized",
           job'[tx[s].job] = "claimed" =>
              \E b \in Auth : auth'[b].job = tx[s].job /\ auth'[b].code = "station_claimed"
    PROVE  GrantsSound'
<1> DEFINE j == tx[s].job
<1>1. \A b \in Auth \ {a} : /\ auth'[b].job = auth[b].job
                            /\ auth'[b].code = auth[b].code
                            /\ auth'[b].trail = auth[b].trail
                            /\ auth'[b].sent = auth[b].sent
  BY DEF OneWritten, Kept
<1>2. \A b \in Auth : GrantSound(auth'[b])
  BY KeptIsSound DEF GrantsSound, OneWritten
<1>3. \A b \in Auth : GrantFitsJob(auth'[b], job'[auth'[b].job])
  <2> SUFFICES ASSUME NEW b \in Auth \ {a} PROVE GrantFitsJob(auth'[b], job'[auth'[b].job])
    OBVIOUS
  <2>1. CASE auth[b].job = j
    BY <1>1, <2>1 DEF GrantFitsJob
  <2>2. CASE auth[b].job \in Job \ {j}
    BY <1>1, <2>2 DEF GrantsSound, GrantFitsJob, OneWritten
  <2>3. CASE auth[b].job \notin Job
    <3>1. auth[b].code = "unissued"
      BY <2>3 DEF TypeOK, AuthRow, RowsIssued
    <3> QED
      BY <1>1, <3>1 DEF GrantFitsJob
  <2> QED
    BY <2>1, <2>2, <2>3
<1>4. OneGrantInForce'
  <2> SUFFICES ASSUME NEW b \in Auth, NEW c \in Auth,
                      auth'[b].job = auth'[c].job,
                      \/ /\ auth'[b].code = "station_authorized"
                         /\ auth'[c].code = "station_authorized"
                      \/ auth'[b].code \in Taken /\ auth'[c].code \in Taken
               PROVE  b = c
    BY DEF OneGrantInForce
  <2>1. CASE b # a /\ c # a
    BY <1>1, <2>1 DEF GrantsSound, OneGrantInForce
  <2>2. CASE b = a /\ c # a
    BY <1>1, <2>2
  <2>3. CASE b # a /\ c = a
    BY <1>1, <2>3
  <2> QED
    BY <2>1, <2>2, <2>3
<1>5. GrantAtHand'
  <2>1. ASSUME NEW k \in Job \ {j}, NEW b \in Auth, auth[b].job = k
        PROVE  auth'[b].job = k /\ auth'[b].code = auth[b].code
    BY <1>1, <2>1 DEF Job, NoJob
  <2>2. \A k \in Job \ {j} : job'[k] = job[k]
    BY DEF OneWritten
  <2> QED
    BY <2>1, <2>2 DEF GrantsSound, GrantAtHand
<1>6. EventsNameClaimed'
  <2> SUFFICES ASSUME NEW t \in Session, tx'[t].op = "event"
               PROVE  tx'[t].auth \in Auth /\ auth'[tx'[t].auth].code = "station_claimed"
    BY DEF EventsNameClaimed
  <2>1. /\ tx'[t] = tx[t]
        /\ tx[t].auth \in Auth
        /\ auth[tx[t].auth].code = "station_claimed"
        /\ auth[tx[t].auth].job # j
    BY OtherSessions
  <2>2. auth[tx[t].auth].job # NoJob
    BY <2>1 DEF RowsIssued
  <2> QED
    BY <1>1, <2>1, <2>2
<1> QED
  BY <1>2, <1>3, <1>4, <1>5, <1>6 DEF GrantsSound

\* What the three station writes leave of a grant.
LEMMA ResetFields ==
    ASSUME NEW g \in AuthRow
    PROVE  LET h == [g EXCEPT !.revoked = TRUE, !.code = "station_reset"]
           IN  /\ h.job = g.job /\ h.trail = g.trail /\ h.sent = g.sent
               /\ h.claimed = g.claimed /\ h.consumed = g.consumed
               /\ h.revoked /\ h.code = "station_reset"
  BY DEF AuthRow

LEMMA ClaimFields ==
    ASSUME NEW g \in AuthRow
    PROVE  LET h == [g EXCEPT !.claimed = TRUE, !.consumed = TRUE, !.code = "station_claimed"]
           IN  /\ h.job = g.job /\ h.trail = g.trail /\ h.sent = g.sent
               /\ h.claimed /\ h.consumed /\ h.code = "station_claimed"
  BY DEF AuthRow

\* The result code an event leaves a claimed grant with.
CodeAfter(state) ==
    IF state = "refused" THEN "station_refused"
    ELSE IF state = "completed" THEN "station_completed" ELSE "station_claimed"

LEMMA EventFields ==
    ASSUME TypeOK, NEW s \in Session, CommitEvent(s), tx[s].auth \in Auth,
           auth[tx[s].auth].code = "station_claimed"
    PROVE  LET g == auth[tx[s].auth]
               h == auth'[tx[s].auth]
           IN  /\ h.job = g.job /\ h.trail = tx[s].state
               /\ h.sent <=> (g.sent \/ tx[s].state = "sent")
               /\ h.claimed = g.claimed /\ h.consumed = g.consumed
               /\ h.code = CodeAfter(tx[s].state)
<1> DEFINE a == tx[s].auth
           state == tx[s].state
           row == [auth[a] EXCEPT !.trail = state, !.sent = @ \/ state = "sent"]
<1>1. auth[a] \in AuthRow
  BY DEF TypeOK
<1>2. /\ row.job = auth[a].job /\ row.trail = state
      /\ row.sent <=> (auth[a].sent \/ state = "sent")
      /\ row.claimed = auth[a].claimed /\ row.consumed = auth[a].consumed
      /\ row.code = "station_claimed"
      /\ \A code : /\ [row EXCEPT !.code = code].job = row.job
                   /\ [row EXCEPT !.code = code].trail = row.trail
                   /\ [row EXCEPT !.code = code].sent = row.sent
                   /\ [row EXCEPT !.code = code].claimed = row.claimed
                   /\ [row EXCEPT !.code = code].consumed = row.consumed
                   /\ [row EXCEPT !.code = code].code = code
      /\ \A n : /\ [row EXCEPT !.bucket = n].job = row.job
                /\ [row EXCEPT !.bucket = n].trail = row.trail
                /\ [row EXCEPT !.bucket = n].sent = row.sent
                /\ [row EXCEPT !.bucket = n].claimed = row.claimed
                /\ [row EXCEPT !.bucket = n].consumed = row.consumed
                /\ [row EXCEPT !.bucket = n].code = row.code
  BY <1>1 DEF AuthRow
<1>3. \/ state = "refused" /\ auth'[a] = [row EXCEPT !.code = "station_refused"]
      \/ state = "printing" /\ auth'[a] = [row EXCEPT !.bucket = tx[s].bucket]
      \/ state = "completed" /\ auth'[a] = [row EXCEPT !.code = "station_completed"]
      \/ state \notin {"refused", "printing", "completed"} /\ auth'[a] = row
  BY DEF CommitEvent, TypeOK
<1> HIDE DEF row
<1>4. CASE state = "refused" /\ auth'[a] = [row EXCEPT !.code = "station_refused"]
  BY <1>2, <1>4 DEF CodeAfter
<1>5. CASE state = "printing" /\ auth'[a] = [row EXCEPT !.bucket = tx[s].bucket]
  BY <1>2, <1>5 DEF CodeAfter
<1>6. CASE state = "completed" /\ auth'[a] = [row EXCEPT !.code = "station_completed"]
  BY <1>2, <1>6 DEF CodeAfter
<1>7. CASE state \notin {"refused", "printing", "completed"} /\ auth'[a] = row
  BY <1>2, <1>7 DEF CodeAfter
<1> QED
  BY <1>3, <1>4, <1>5, <1>6, <1>7

-----------------------------------------------------------------------------
(* The commits that write grants                                           *)

LEMMA AuthorizeKeepsGrants ==
    ASSUME TypeOK, RowsIssued, DecisionsStillHold, GrantsSound,
           NEW s \in Session, tx[s].job \in Job, Decided(tx[s]), CommitAuthorize(s)
    PROVE  GrantsSound'
<1> DEFINE j == tx[s].job
           station == tx[s].op = "authorize"
           code == IF station THEN "station_authorized" ELSE "handoff"
<1>1. /\ CompareVersion(s)
      /\ job' = IF station THEN [job EXCEPT ![j] = "authorized"] ELSE job
      /\ job[j] = "ready_to_print"
  BY DEF CommitAuthorize, Decided, OwnerAction
<1>2. PICK a \in Auth :
        /\ NextAuth(a)
        /\ auth' = [b \in Auth |-> IF b = a THEN NewAuth(j, code)
                                 ELSE IF auth[b].job = j /\ Live(b)
                                      THEN [auth[b] EXCEPT !.revoked = TRUE]
                                      ELSE auth[b]]
  BY DEF CommitAuthorize
<1>3. auth[a].code = "unissued" /\ auth[a].job = NoJob
  BY <1>2 DEF NextAuth, RowsIssued, Auth
<1>4. OneWritten(a, j)
  <2>1. \A b \in Auth \ {a} : Kept(auth[b], auth'[b])
    <3>1. \A b \in Auth \ {a} : \/ auth'[b] = [auth[b] EXCEPT !.revoked = TRUE]
                                 \/ auth'[b] = auth[b]
      BY <1>2
    <3>2. \A b \in Auth : auth[b] \in AuthRow
      BY DEF TypeOK
    <3> QED
      BY <3>1, <3>2, KeptFields
  <2>2. \A k \in Job \ {j} : job'[k] = job[k]
    BY <1>1 DEF TypeOK
  <2> QED
    BY <2>1, <2>2 DEF OneWritten
<1>5. /\ auth'[a].job = j /\ auth'[a].code = code /\ auth'[a].trail = "claimed"
      /\ ~auth'[a].sent /\ ~auth'[a].claimed /\ ~auth'[a].consumed
  <2>1. auth'[a] = NewAuth(j, code)
    BY <1>2
  <2> QED
    BY <2>1, NewAuthFields
<1>6. GrantSound(auth'[a])
  BY <1>5 DEF GrantSound
<1>7. \A b \in Auth \ {a} : auth[b].job = j =>
         auth[b].code \notin {"station_authorized", "station_claimed", "station_completed"}
  BY <1>1 DEF GrantsSound, GrantFitsJob
<1>8. job'[j] = IF station THEN "authorized" ELSE "ready_to_print"
  BY <1>1 DEF TypeOK
<1>9. GrantFitsJob(auth'[a], job'[auth'[a].job])
  BY <1>5, <1>8 DEF GrantFitsJob
<1>10. \A b \in Auth \ {a} : auth[b].job = j => GrantFitsJob(auth[b], job'[j])
  BY <1>7 DEF GrantFitsJob
<1>11. auth'[a].code \notin Taken /\ (job'[j] = "authorized" => code = "station_authorized")
  BY <1>5, <1>8 DEF Taken
<1> HIDE DEF code, station
<1> QED
  BY <1>1, <1>3, <1>4, <1>5, <1>6, <1>7, <1>8, <1>9, <1>10, <1>11, GrantWritten

LEMMA ResetKeepsGrants ==
    ASSUME TypeOK, RowsIssued, DecisionsStillHold, GrantsSound,
           NEW s \in Session, tx[s].job \in Job, Decided(tx[s]), CommitReset(s)
    PROVE  GrantsSound'
<1> DEFINE j == tx[s].job
           a == tx[s].auth
<1>1. /\ CompareVersion(s)
      /\ job' = [job EXCEPT ![j] = "preparing"]
      /\ auth' = [auth EXCEPT ![a].revoked = TRUE, ![a].code = "station_reset"]
      /\ job[j] = "authorized" /\ a \in Auth /\ auth[a].job = j
      /\ auth[a].code = "station_authorized" /\ ~auth[a].claimed
  BY DEF CommitReset, Unusable, Unclaimed, Decided, OwnerAction
<1>2. /\ job'[j] = "preparing"
      /\ \A k \in Job \ {j} : job'[k] = job[k]
      /\ auth'[a] = [auth[a] EXCEPT !.revoked = TRUE, !.code = "station_reset"]
      /\ \A b \in Auth \ {a} : auth'[b] = auth[b]
  BY <1>1 DEF TypeOK
<1>3. OneWritten(a, j)
  BY <1>2, KeptFields DEF OneWritten, TypeOK
<1>4. /\ auth'[a].job = j /\ auth'[a].trail = auth[a].trail /\ auth'[a].sent = auth[a].sent
      /\ ~auth'[a].claimed /\ auth'[a].revoked /\ auth'[a].code = "station_reset"
  BY <1>1, <1>2, ResetFields DEF TypeOK
<1>5. GrantSound(auth'[a])
  BY <1>1, <1>4 DEF GrantsSound, GrantSound
<1>6. \A b \in Auth \ {a} : auth[b].job = j =>
         auth[b].code \notin {"station_authorized", "station_claimed", "station_completed"}
  BY <1>1 DEF GrantsSound, GrantFitsJob, OneGrantInForce
<1>7. /\ GrantFitsJob(auth'[a], job'[auth'[a].job])
      /\ \A b \in Auth \ {a} : auth[b].job = j => GrantFitsJob(auth[b], job'[j])
      /\ auth'[a].code \notin Taken
  BY <1>4, <1>6 DEF GrantFitsJob, Taken
<1> QED
  BY <1>1, <1>2, <1>3, <1>4, <1>5, <1>7, GrantWritten

LEMMA ClaimKeepsGrants ==
    ASSUME TypeOK, RowsIssued, DecisionsStillHold, GrantsSound,
           NEW s \in Session, tx[s].job \in Job, Decided(tx[s]), CommitClaim(s)
    PROVE  GrantsSound'
<1> DEFINE j == tx[s].job
           a == tx[s].auth
<1>1. /\ CompareVersion(s)
      /\ job' = [job EXCEPT ![j] = "claimed"]
      /\ auth' = [auth EXCEPT ![a].claimed = TRUE, ![a].consumed = TRUE,
                              ![a].code = "station_claimed"]
      /\ job[j] = "authorized" /\ a \in Auth /\ auth[a].job = j
      /\ auth[a].code = "station_authorized"
  BY DEF CommitClaim, Claimable, Unclaimed, Decided, OwnerAction
<1>2. /\ job'[j] = "claimed"
      /\ \A k \in Job \ {j} : job'[k] = job[k]
      /\ auth'[a] = [auth[a] EXCEPT !.claimed = TRUE, !.consumed = TRUE,
                                    !.code = "station_claimed"]
      /\ \A b \in Auth \ {a} : auth'[b] = auth[b]
  BY <1>1 DEF TypeOK
<1>3. OneWritten(a, j)
  BY <1>2, KeptFields DEF OneWritten, TypeOK
<1>4. /\ auth'[a].job = j /\ auth'[a].trail = auth[a].trail /\ auth'[a].sent = auth[a].sent
      /\ auth'[a].claimed /\ auth'[a].consumed /\ auth'[a].code = "station_claimed"
  BY <1>1, <1>2, ClaimFields DEF TypeOK
<1>5. auth[a].trail = "claimed" /\ GrantSound(auth'[a])
  BY <1>1, <1>4 DEF GrantsSound, GrantSound
<1>6. \A b \in Auth \ {a} : auth[b].job = j =>
         auth[b].code \notin {"station_authorized", "station_claimed", "station_completed"}
  BY <1>1 DEF GrantsSound, GrantFitsJob, OneGrantInForce
<1>7. /\ GrantFitsJob(auth'[a], job'[auth'[a].job])
      /\ \A b \in Auth \ {a} : auth[b].job = j =>
            GrantFitsJob(auth[b], job'[j]) /\ auth[b].code \notin Taken
  BY <1>2, <1>4, <1>5, <1>6 DEF GrantFitsJob, Taken
<1>8. /\ job'[j] # "authorized"
      /\ \E b \in Auth : auth'[b].job = j /\ auth'[b].code = "station_claimed"
      /\ auth'[a].code # "station_authorized"
  BY <1>1, <1>2, <1>4
<1> QED
  BY <1>1, <1>3, <1>4, <1>5, <1>7, <1>8, GrantWritten

\* What a station event does to its job.
LEMMA EventMovesJob ==
    ASSUME TypeOK, NEW s \in Session, tx[s].job \in Job, CommitEvent(s)
    PROVE  /\ \A k \in Job \ {tx[s].job} : job'[k] = job[k]
           /\ job'[tx[s].job] = IF tx[s].state = "refused" THEN "preparing"
                               ELSE IF tx[s].state = "printing" THEN "printing"
                               ELSE IF tx[s].state = "completed" THEN "qa"
                               ELSE job[tx[s].job]
  BY DEF CommitEvent, TypeOK

LEMMA FollowsFacts ==
    ASSUME NEW trail, NEW state \in Follows(trail)
    PROVE  /\ state \in PlateEvent
           /\ trail \notin {"refused", "completed"}
           /\ trail = "claimed" <=> state \in {"refused", "sent"}
  BY DEF Follows, PlateEvent

LEMMA EventKeepsGrants ==
    ASSUME TypeOK, RowsIssued, DecisionsStillHold, GrantsSound,
           NEW s \in Session, tx[s].job \in Job, Decided(tx[s]), CommitEvent(s)
    PROVE  GrantsSound'
<1> DEFINE j == tx[s].job
           a == tx[s].auth
           state == tx[s].state
<1>1. /\ CompareVersion(s) /\ a \in Auth
      /\ auth[a].job = j /\ auth[a].code = "station_claimed"
      /\ job[j] \in {"claimed", "printing"}
      /\ state \in Follows(auth[a].trail)
      /\ state \notin {"sent", "refused"} => auth[a].sent
  BY DEF CommitEvent, Decided, OwnerAction, GrantsSound, EventsNameClaimed
<1>2. /\ auth[a].trail \notin {"refused", "completed"}
      /\ auth[a].trail = "claimed" <=> state \in {"refused", "sent"}
      /\ state \in PlateEvent
  BY <1>1, FollowsFacts
<1>3. /\ auth'[a].job = j /\ auth'[a].trail = state
      /\ auth'[a].sent <=> (auth[a].sent \/ state = "sent")
      /\ auth'[a].claimed = auth[a].claimed /\ auth'[a].consumed = auth[a].consumed
      /\ auth'[a].code = CodeAfter(state)
  BY <1>1, EventFields
<1>4. \A b \in Auth \ {a} : auth'[b] = auth[b]
  BY DEF CommitEvent, TypeOK
<1>5. OneWritten(a, j)
  BY <1>4, EventMovesJob, KeptFields DEF OneWritten, TypeOK
<1>6. GrantSound(auth[a]) /\ GrantFitsJob(auth[a], job[j])
  BY <1>1 DEF GrantsSound
<1>7. GrantSound(auth'[a])
  BY <1>1, <1>2, <1>3, <1>6 DEF GrantSound, CodeAfter, PlateEvent
<1>8. \A b \in Auth \ {a} : auth[b].job = j =>
         auth[b].code \notin {"station_authorized", "station_claimed", "station_completed"}
  BY <1>1 DEF GrantsSound, GrantFitsJob, OneGrantInForce, Taken
<1>9. \A b \in Auth \ {a} : auth[b].job = j =>
         GrantFitsJob(auth[b], job'[j]) /\ auth[b].code \notin Taken
  BY <1>8 DEF GrantFitsJob, Taken
<1>10. GrantFitsJob(auth'[a], job'[auth'[a].job])
  BY <1>1, <1>2, <1>3, <1>6, EventMovesJob DEF GrantFitsJob, GrantSound, CodeAfter
<1>11. auth'[a].code # "station_authorized" /\ job'[j] # "authorized"
  BY <1>1, <1>3, EventMovesJob DEF CodeAfter
<1>12. job'[j] = "claimed" => auth'[a].code = "station_claimed"
  BY <1>1, <1>3, EventMovesJob DEF CodeAfter
<1> QED
  BY <1>1, <1>3, <1>5, <1>7, <1>9, <1>10, <1>11, <1>12, GrantWritten

-----------------------------------------------------------------------------
(* The steps that leave the grants as they are                             *)

\* Sessions only end, or begin what is not an event.
LEMMA CommitNames ==
    ASSUME NEW s \in Session, CompareVersion(s)
    PROVE  NamesAsBefore
<1>1. Idle.op = "idle"
  BY DEF Idle
<1> QED
  BY <1>1 DEF CompareVersion, NamesAsBefore

LEMMA BeginNames ==
    ASSUME TypeOK, NEW s \in Session, NEW r, Begin(s, r),
           r.op = "event" => r.auth \in Auth /\ auth[r.auth].code = "station_claimed"
    PROVE  NamesAsBefore
<1>1. \A t \in Session : tx'[t] = IF t = s THEN r ELSE tx[t]
  BY DEF Begin, TypeOK
<1> QED
  BY <1>1 DEF NamesAsBefore

LEMMA RowsStay ==
    ASSUME TypeOK, UNCHANGED auth
    PROVE  \A a \in Auth : Kept(auth[a], auth'[a])
  BY KeptFields DEF TypeOK

LEMMA JobsStay ==
    ASSUME UNCHANGED job
    PROVE  \A k \in Job : MovesAside(k)
  BY DEF MovesAside

LEMMA BeginKeepsGrants ==
    ASSUME TypeOK, RowsIssued, GrantsSound, NEW s \in Session, NEW r, Begin(s, r),
           r.op = "event" => r.auth \in Auth /\ auth[r.auth].code = "station_claimed"
    PROVE  GrantsSound'
<1>1. NamesAsBefore
  BY BeginNames
<1> QED
  BY <1>1, RowsStay, JobsStay, GrantsKept DEF Begin

\* The grants an event can be decided for.
LEMMA EventReadsClaimed ==
    ASSUME TypeOK, GrantsSound, NEW s \in Session, NEW a \in Auth, NEW state \in PlateEvent,
           NEW bucket \in -1..MaxBucket, BeginEvent(s, a, state, bucket)
    PROVE  auth[a].code = "station_claimed"
<1>1. /\ auth[a].code \in {"station_authorized", "station_claimed", "station_refused",
                         "station_completed", "station_reset"}
      /\ auth[a].claimed /\ state \in Follows(auth[a].trail)
  BY DEF BeginEvent, DispatchContext
<1>2. auth[a].trail \notin {"refused", "completed"}
  BY <1>1, FollowsFacts
<1> QED
  BY <1>1, <1>2 DEF GrantsSound, GrantSound

LEMMA TransitionMoves ==
    ASSUME TypeOK, NEW s \in Session, tx[s].job \in Job, Decided(tx[s]), CommitTransition(s)
    PROVE  \A k \in Job : MovesAside(k)
<1> DEFINE act == tx[s].op
           j == tx[s].job
<1>1. act \in OwnerAction
  BY DEF CommitTransition
<1>2. job[j] \in From(act)
  BY <1>1 DEF Decided, OwnerAction
<1>3. job'[j] = ToJob(act) /\ \A k \in Job \ {j} : job'[k] = job[k]
  BY DEF CommitTransition, TypeOK
<1> HIDE DEF act, j
<1>4. \/ /\ job[j] \in {"queued", "preparing", "ready_to_print", "on_hold"}
         /\ job'[j] \in {"preparing", "on_hold", "queued", "printing"}
      \/ /\ job[j] \in {"claimed", "printing", "qa"}
         /\ job'[j] \in {"qa", "completed", "failed"}
  BY <1>1, <1>2, <1>3 DEF OwnerAction, From, ToJob
<1>5. MovesAside(j)
  BY <1>4 DEF MovesAside
<1> QED
  BY <1>3, <1>5 DEF MovesAside

LEMMA OwnerCommitKeepsGrants ==
    ASSUME TypeOK, RowsIssued, GrantsSound, NEW s \in Session, tx[s].job \in Job,
           Decided(tx[s]), CommitTransition(s) \/ CommitReadiness(s) \/ CommitFulfilment(s)
    PROVE  GrantsSound'
<1>1. CompareVersion(s) /\ UNCHANGED auth
  BY DEF CommitTransition, CommitReadiness, CommitFulfilment
<1>2. CASE CommitTransition(s)
  BY <1>1, <1>2, TransitionMoves, CommitNames, RowsStay, GrantsKept
<1>3. CASE CommitReadiness(s)
  <2>1. /\ job[tx[s].job] \in {"preparing", "ready_to_print"}
        /\ job'[tx[s].job] = "ready_to_print"
        /\ \A k \in Job \ {tx[s].job} : job'[k] = job[k]
    BY <1>3 DEF CommitReadiness, Decided, OwnerAction, TypeOK
  <2>2. \A k \in Job : MovesAside(k)
    BY <2>1 DEF MovesAside
  <2> QED
    BY <1>1, <2>2, CommitNames, RowsStay, GrantsKept
<1>4. CASE CommitFulfilment(s)
  <2>1. UNCHANGED job
    BY <1>4 DEF CommitFulfilment
  <2> QED
    BY <1>1, <2>1, JobsStay, CommitNames, RowsStay, GrantsKept
<1> QED
  BY <1>2, <1>3, <1>4

\* Pairing, revocation, time and the manual handoff.
LEMMA OutsideKeepsGrants ==
    ASSUME TypeOK, RowsIssued, GrantsSound, NamesAsBefore, UNCHANGED job, GrantsBarelyMove
    PROVE  GrantsSound'
<1>1. \A b \in Auth : auth[b] \in AuthRow
  BY DEF TypeOK
<1> SUFFICES \A b \in Auth : Kept(auth[b], auth'[b]) \/ HandedOver(auth[b], auth'[b])
  BY JobsStay, GrantsKept
<1>2. CASE UNCHANGED auth
  BY <1>2, RowsStay
<1>3. CASE auth' = RevokeAll
  <2>1. \A b \in Auth : \/ auth'[b] = [auth[b] EXCEPT !.revoked = TRUE]
                        \/ auth'[b] = auth[b]
    BY <1>3 DEF RevokeAll
  <2> QED
    BY <1>1, <2>1, KeptFields
<1>4. CASE \E a \in Auth : ClaimHandoff(a) \/ HandoffReceived(a)
  <2>1. PICK a \in Auth : ClaimHandoff(a) \/ HandoffReceived(a)
    BY <1>4
  <2>2. /\ HandoffAccess(a) /\ ~auth[a].consumed
        /\ ~auth[a].claimed \/ HandoffReceived(a)
    BY <2>1 DEF ClaimHandoff, HandoffReceived
  <2>3. \A b \in Auth \ {a} : auth'[b] = auth[b]
    BY <2>1 DEF ClaimHandoff, HandoffReceived, TypeOK
  <2>4. GrantSound(auth[a]) /\ GrantFitsJob(auth[a], job[auth[a].job])
    BY DEF GrantsSound
  <2>5. auth[a].code = "handoff"
    BY <1>1, <2>2, <2>4 DEF HandoffAccess, GrantSound, GrantFitsJob, AuthRow, AuthCode
  <2>6. CASE ClaimHandoff(a)
    <3>1. auth'[a] = [auth[a] EXCEPT !.claimed = TRUE]
      BY <2>6 DEF ClaimHandoff, TypeOK
    <3>2. /\ auth'[a].job = auth[a].job /\ auth'[a].code = auth[a].code
          /\ auth'[a].trail = auth[a].trail /\ auth'[a].sent = auth[a].sent
          /\ auth'[a].consumed = auth[a].consumed
      BY <1>1, <3>1 DEF AuthRow
    <3>3. HandedOver(auth[a], auth'[a])
      BY <2>4, <2>5, <3>2 DEF HandedOver, GrantSound
    <3> QED
      BY <1>1, <2>3, <3>3, KeptFields
  <2>7. CASE HandoffReceived(a)
    <3>1. auth'[a] = [auth[a] EXCEPT !.consumed = TRUE, !.code = "downloaded"]
      BY <2>7 DEF HandoffReceived, TypeOK
    <3>2. /\ auth'[a].job = auth[a].job /\ auth'[a].code = "downloaded"
          /\ auth'[a].trail = auth[a].trail /\ auth'[a].sent = auth[a].sent
          /\ auth'[a].consumed
      BY <1>1, <3>1 DEF AuthRow
    <3>3. HandedOver(auth[a], auth'[a])
      BY <2>4, <2>5, <3>2 DEF HandedOver, GrantSound
    <3> QED
      BY <1>1, <2>3, <3>3, KeptFields
  <2> QED
    BY <2>1, <2>6, <2>7
<1>5. CASE \E a \in Auth : GrantExpires(a) \/ ClaimAges(a)
  <2>1. \A b \in Auth : \/ auth'[b] = [auth[b] EXCEPT !.expired = TRUE]
                        \/ auth'[b] = [auth[b] EXCEPT !.aged = TRUE]
                        \/ auth'[b] = auth[b]
    BY <1>5 DEF GrantExpires, ClaimAges, TypeOK
  <2> QED
    BY <1>1, <2>1, KeptFields
<1> QED
  BY <1>2, <1>3, <1>4, <1>5 DEF GrantsBarelyMove

LEMMA OwnerKeepsGrants ==
    ASSUME TypeOK, RowsIssued, DecisionsStillHold, GrantsSound,
           NEW s \in OwnerSession, OwnerNext(s)
    PROVE  GrantsSound'
<1>1. s \in Session
  BY DEF Session
<1>2. CASE \/ \E j \in Job :
                 \/ \E act \in OwnerAction : BeginTransition(s, act, j)
                 \/ BeginReadiness(s, j)
                 \/ BeginFulfilment(s, j)
                 \/ BeginAuthorize(s, j)
                 \/ BeginReset(s, j)
           \/ BeginPairing(s)
  <2>1. \E op, j, a : op # "event" /\ Begin(s, Request(op, j, a))
    BY <1>2 DEF BeginTransition, BeginReadiness, BeginFulfilment, BeginAuthorize,
       BeginReset, BeginPairing, OwnerAction
  <2>2. PICK op, j, a : op # "event" /\ Begin(s, Request(op, j, a))
    BY <2>1
  <2>3. Request(op, j, a).op # "event"
    BY <2>2 DEF Request
  <2> QED
    BY <1>1, <2>2, <2>3, BeginKeepsGrants
<1>3. CASE CommitPairing(s)
  <2>1. auth' = RevokeAll /\ UNCHANGED job /\ tx' = [tx EXCEPT ![s] = Idle]
    BY <1>3 DEF CommitPairing
  <2>2. Idle.op = "idle" /\ \A t \in Session : tx'[t] = tx[t] \/ tx'[t] = Idle
    BY <2>1 DEF Idle, TypeOK
  <2>3. NamesAsBefore
    BY <2>2 DEF NamesAsBefore
  <2> QED
    BY <2>1, <2>3, OutsideKeepsGrants DEF GrantsBarelyMove
<1>4. CASE \/ CommitTransition(s) \/ CommitReadiness(s) \/ CommitFulfilment(s)
           \/ CommitAuthorize(s) \/ CommitReset(s)
  <2>1. tx[s].op \notin {"idle", "pair"}
    BY <1>4 DEF CommitTransition, CommitReadiness, CommitFulfilment, CommitAuthorize,
       CommitReset, OwnerAction
  <2>2. tx[s].job \in Job /\ Decided(tx[s])
    BY <1>1, <2>1, DecisionNames DEF DecisionsStillHold
  <2> QED
    BY <1>1, <1>4, <2>2, OwnerCommitKeepsGrants, AuthorizeKeepsGrants, ResetKeepsGrants
<1> QED
  BY <1>2, <1>3, <1>4 DEF OwnerNext

LEMMA StationKeepsGrants ==
    ASSUME TypeOK, RowsIssued, DecisionsStillHold, GrantsSound,
           NEW s \in StationSession, StationNext(s)
    PROVE  GrantsSound'
<1>1. s \in Session
  BY DEF Session
<1>2. ASSUME NEW a \in Auth, BeginClaim(s, a)
      PROVE  GrantsSound'
  <2>1. Begin(s, Request("claim", auth[a].job, a))
    BY <1>2 DEF BeginClaim
  <2>2. Request("claim", auth[a].job, a).op # "event"
    BY DEF Request
  <2> QED
    BY <1>1, <2>1, <2>2, BeginKeepsGrants
<1>3. ASSUME NEW a \in Auth, NEW state \in PlateEvent, NEW bucket \in -1..MaxBucket,
             BeginEvent(s, a, state, bucket)
      PROVE  GrantsSound'
  <2> DEFINE r == [Request("event", auth[a].job, a) EXCEPT !.state = state, !.bucket = bucket]
  <2>1. Begin(s, r)
    BY <1>3 DEF BeginEvent
  <2>2. r.auth = a /\ auth[a].code = "station_claimed"
    BY <1>1, <1>3, EventReadsClaimed DEF Request
  <2> HIDE DEF r
  <2> QED
    BY <1>1, <2>1, <2>2, BeginKeepsGrants
<1>4. CASE CommitClaim(s) \/ CommitEvent(s)
  <2>1. tx[s].op \notin {"idle", "pair"}
    BY <1>4 DEF CommitClaim, CommitEvent
  <2>2. tx[s].job \in Job /\ Decided(tx[s])
    BY <1>1, <2>1, DecisionNames DEF DecisionsStillHold
  <2> QED
    BY <1>1, <1>4, <2>2, ClaimKeepsGrants, EventKeepsGrants
<1> QED
  BY <1>2, <1>3, <1>4 DEF StationNext

LEMMA GrantsStep ==
    ASSUME TypeOK, RowsIssued, DecisionsStillHold, GrantsSound, [Next]_vars
    PROVE  GrantsSound'
<1>1. CASE \E j \in Job : EnqueuePaidOrder(j)
  <2>1. PICK j \in Job : EnqueuePaidOrder(j)
    BY <1>1
  <2>2. \A k \in Job : MovesAside(k)
    BY <2>1 DEF EnqueuePaidOrder, MovesAside, TypeOK
  <2>3. NamesAsBefore /\ UNCHANGED auth
    BY <2>1 DEF EnqueuePaidOrder, NamesAsBefore
  <2> QED
    BY <2>2, <2>3, RowsStay, GrantsKept
<1>2. CASE \E s \in OwnerSession : OwnerNext(s)
  BY <1>2, OwnerKeepsGrants
<1>3. CASE \E s \in StationSession : StationNext(s)
  BY <1>3, StationKeepsGrants
<1>4. CASE \E s \in Session : Abort(s)
  <2>1. PICK s \in Session : Abort(s)
    BY <1>4
  <2>2. Idle.op = "idle" /\ \A t \in Session : tx'[t] = tx[t] \/ tx'[t] = Idle
    BY <2>1 DEF Abort, Idle, TypeOK
  <2>3. NamesAsBefore /\ UNCHANGED <<job, auth>>
    BY <2>1, <2>2 DEF Abort, NamesAsBefore
  <2> QED
    BY <2>3, OutsideKeepsGrants DEF GrantsBarelyMove
<1>5. CASE \/ \E adapter \in Adapter : FinishPairing(adapter)
           \/ RevokeBridge
           \/ Heartbeat
           \/ \E a \in Auth : ClaimHandoff(a) \/ HandoffReceived(a)
           \/ TimePasses
           \/ UNCHANGED vars
  <2>1. UNCHANGED <<job, tx>>
    BY <1>5 DEF FinishPairing, RevokeBridge, Heartbeat, ClaimHandoff, HandoffReceived,
       TimePasses, vars
  <2>2. GrantsBarelyMove
    BY <1>5 DEF FinishPairing, RevokeBridge, Heartbeat, TimePasses, HeartbeatLapses,
       ReadinessLapses, GrantsBarelyMove, vars
  <2>3. NamesAsBefore
    BY <2>1 DEF NamesAsBefore
  <2> QED
    BY <2>1, <2>2, <2>3, OutsideKeepsGrants
<1> QED
  BY <1>1, <1>2, <1>3, <1>4, <1>5 DEF Next

\* The result code of a grant, its event trail and the status of its job agree.
THEOREM GrantsAreSound == Spec => []GrantsSound
<1>1. Init => GrantsSound
  <2> SUFFICES ASSUME Init PROVE GrantsSound
    OBVIOUS
  <2>1. \A a \in Auth : auth[a] = NewAuth(NoJob, "unissued")
    BY DEF Init
  <2>2. /\ \A j \in Job : job[j] = "absent"
        /\ \A s \in Session : tx[s].op = "idle"
    BY DEF Init, Idle
  <2>3. \A a \in Auth : GrantSound(auth[a]) /\ GrantFitsJob(auth[a], job[auth[a].job])
    BY <2>1, NewAuthFields DEF GrantSound, GrantFitsJob
  <2>4. OneGrantInForce
    BY <2>1, NewAuthFields DEF OneGrantInForce, Taken
  <2> QED
    BY <2>2, <2>3, <2>4 DEF GrantsSound, GrantAtHand, EventsNameClaimed
<1> QED
  BY <1>1, GrantsStep, TypeCorrect, DecisionsHold, PTL DEF Spec

\* An authorized job has its one grant to claim or to reset, a claimed job the
\* one whose events can move it, in every reachable state: no order of claims,
\* resets, lapses and revocations strands a job without its grant.
THEOREM AuthorityMatches == Spec => []AuthorityMatchesJob
<1>1. TypeOK /\ GrantsSound => AuthorityMatchesJob
  <2> SUFFICES ASSUME TypeOK, GrantsSound PROVE AuthorityMatchesJob
    OBVIOUS
  <2>1. ASSUME NEW j \in Job, job[j] = "authorized"
        PROVE  \E a \in Auth :
                  /\ auth[a].job = j
                  /\ Unclaimed(a)
                  /\ \A b \in Auth \ {a} : auth[b].job = j => ~Unclaimed(b)
    <3>1. PICK a \in Auth : auth[a].job = j /\ auth[a].code = "station_authorized"
      BY <2>1 DEF GrantsSound, GrantAtHand
    <3>2. Unclaimed(a)
      BY <3>1 DEF GrantsSound, GrantSound, Unclaimed
    <3>3. \A b \in Auth \ {a} : auth[b].job = j => ~Unclaimed(b)
      BY <3>1 DEF GrantsSound, OneGrantInForce, Unclaimed
    <3> QED
      BY <3>1, <3>2, <3>3
  <2>2. ASSUME NEW j \in Job, job[j] = "claimed"
        PROVE  \E a \in Auth :
                  /\ auth[a].job = j
                  /\ auth[a].code = "station_claimed"
                  /\ auth[a].trail \notin {"refused", "printing", "completed"}
                  /\ \A b \in Auth \ {a} : auth[b].job = j => auth[b].code # "station_claimed"
    <3>1. PICK a \in Auth : auth[a].job = j /\ auth[a].code = "station_claimed"
      BY <2>2 DEF GrantsSound, GrantAtHand
    <3>2. auth[a].trail \notin {"refused", "printing", "completed"}
      BY <2>2, <3>1 DEF GrantsSound, GrantSound, GrantFitsJob
    <3>3. \A b \in Auth \ {a} : auth[b].job = j => auth[b].code # "station_claimed"
      BY <3>1 DEF GrantsSound, OneGrantInForce, Taken
    <3> QED
      BY <3>1, <3>2, <3>3
  <2>3. \A a \in Auth : auth[a].code = "station_reset" => ~auth[a].claimed
    BY DEF GrantsSound, GrantSound
  <2> QED
    BY <2>1, <2>2, <2>3 DEF AuthorityMatchesJob
<1> QED
  BY <1>1, TypeCorrect, GrantsAreSound, PTL

\* A recorded plate_sent belongs to a claimed grant that did not end in a refusal.
LEMMA SentIsTaken ==
    ASSUME TypeOK, GrantsSound, NEW a \in Auth, auth[a].sent
    PROVE  auth[a].code \in Taken
<1>1. GrantSound(auth[a]) /\ auth[a].code \in AuthCode
  BY DEF GrantsSound, TypeOK, AuthRow
<1> QED
  BY <1>1 DEF GrantSound, AuthCode, Taken

\* However often a job is refused, reset and authorized again, its plate is
\* sent to the printer at most once.
THEOREM PlateIsSentOnce == Spec => []PlateSentOnce
<1>1. TypeOK /\ GrantsSound => PlateSentOnce
  BY SentIsTaken DEF GrantsSound, OneGrantInForce, PlateSentOnce
<1> QED
  BY <1>1, TypeCorrect, GrantsAreSound, PTL

-----------------------------------------------------------------------------
(* The life of a plate                                                     *)

SentFor(j) == \E a \in Auth : auth[a].job = j /\ auth[a].sent

\* The refinement mapping, read job by job.
PlateReads(p, status, sent) ==
    /\ status \in {"absent", "queued", "on_hold"} => p = "waiting"
    /\ status \in {"preparing", "ready_to_print", "authorized"} => p = "reserved"
    /\ status = "claimed" /\ ~sent => p = "reserved"
    /\ status = "claimed" /\ sent => p = "committed"
    /\ status = "printing" => p = "committed"
    /\ status \in {"qa", "completed", "failed"} => p = "finished"

LEMMA PlateIs ==
    ASSUME TypeOK, NEW j \in Job
    PROVE  PlateReads(plate[j], job[j], SentFor(j))
  BY DEF plate, PlateReads, SentFor, TypeOK, JobStatus

LEMMA PlateBecomes ==
    ASSUME TypeOK', NEW j \in Job
    PROVE  PlateReads(plate'[j], job'[j], SentFor(j)')
<1> SUFFICES PlateReads(plate[j], job[j], SentFor(j))'
  BY DEF PlateReads
<1> QED
  BY DEF plate, PlateReads, SentFor, TypeOK, JobStatus

\* Only rows that are written, and told to have sent, change what is sent.
LEMMA SentForKept ==
    ASSUME NEW j \in Job,
           \A a \in Auth : \/ auth'[a].job = auth[a].job /\ auth'[a].sent = auth[a].sent
                           \/ ~(auth[a].job = j /\ auth[a].sent)
                              /\ ~(auth'[a].job = j /\ auth'[a].sent)
    PROVE  SentFor(j)' <=> SentFor(j)
  BY DEF SentFor

\* A job whose status and sends are as before keeps its plate.
LEMMA PlateKept ==
    ASSUME TypeOK, TypeOK', NEW k \in Job, job'[k] = job[k], SentFor(k)' <=> SentFor(k)
    PROVE  plate'[k] = plate[k]
<1>1. job[k] \in JobStatus
  BY DEF TypeOK
<1> QED
  BY <1>1, PlateIs, PlateBecomes DEF PlateReads, JobStatus

\* One job moves, and the plate of no other.
LEMMA OnePlateMoves ==
    ASSUME TypeOK, TypeOK', NEW j \in Job,
           \A k \in Job \ {j} : job'[k] = job[k] /\ (SentFor(k)' <=> SentFor(k))
    PROVE  plate' = [plate EXCEPT ![j] = plate'[j]]
<1>1. \A k \in Job \ {j} : plate'[k] = plate[k]
  BY PlateKept
<1>2. plate = [k \in Job |-> plate[k]] /\ plate' = [k \in Job |-> plate'[k]]
  BY DEF plate
<1> HIDE DEF plate
<1> QED
  BY <1>1, <1>2

LEMMA PlateStays ==
    ASSUME TypeOK, TypeOK',
           \A k \in Job : job'[k] = job[k] /\ (SentFor(k)' <=> SentFor(k))
    PROVE  plate' = plate
<1>1. \A k \in Job : plate'[k] = plate[k]
  BY PlateKept
<1>2. plate = [k \in Job |-> plate[k]] /\ plate' = [k \in Job |-> plate'[k]]
  BY DEF plate
<1> QED
  BY <1>1, <1>2

\* The plate of one job moves as the abstract life of a plate allows.
Moved(j) ==
    \/ plate'[j] = plate[j]
    \/ /\ plate[j] = "waiting" /\ plate'[j] = "reserved"
       /\ \A k \in Job : plate[k] \notin {"reserved", "committed"}
    \/ plate[j] = "reserved" /\ plate'[j] \in {"waiting", "committed"}
    \/ plate[j] \in {"reserved", "committed"} /\ plate'[j] = "finished"

LEMMA MovedIsNext ==
    ASSUME TypeOK, TypeOK', NEW j \in Job, Moved(j),
           \A k \in Job \ {j} : job'[k] = job[k] /\ (SentFor(k)' <=> SentFor(k))
    PROVE  [Plate!Next]_plate
<1>1. plate' = [plate EXCEPT ![j] = plate'[j]] /\ plate = [k \in Job |-> plate[k]]
  BY OnePlateMoves DEF plate
<1> HIDE DEF plate
<1>2. CASE plate'[j] = plate[j]
  BY <1>1, <1>2
<1>3. CASE /\ plate[j] = "waiting" /\ plate'[j] = "reserved"
           /\ \A k \in Job : plate[k] \notin {"reserved", "committed"}
  BY <1>1, <1>3 DEF Plate!Next, Plate!Reserve, Plate!OnPrinter
<1>4. CASE plate[j] = "reserved" /\ plate'[j] \in {"waiting", "committed"}
  BY <1>1, <1>4 DEF Plate!Next, Plate!GiveUp, Plate!Commit
<1>5. CASE plate[j] \in {"reserved", "committed"} /\ plate'[j] = "finished"
  BY <1>1, <1>5 DEF Plate!Next, Plate!Finish, Plate!OnPrinter
<1> QED
  BY <1>2, <1>3, <1>4, <1>5 DEF Moved

\* A job without a taken grant has sent nothing.
LEMMA NothingSent ==
    ASSUME TypeOK, GrantsSound, NEW j \in Job,
           job[j] \notin {"claimed", "printing", "qa", "completed", "failed"}
    PROVE  ~SentFor(j)
<1> SUFFICES ASSUME NEW a \in Auth, auth[a].job = j, auth[a].sent PROVE FALSE
  BY DEF SentFor
<1> QED
  BY SentIsTaken DEF GrantsSound, GrantFitsJob, Taken

\* A claimed job has sent if and only if its one claimed grant has.
LEMMA SentByClaimed ==
    ASSUME TypeOK, GrantsSound, NEW a \in Auth, auth[a].code = "station_claimed"
    PROVE  SentFor(auth[a].job) <=> auth[a].sent
<1> SUFFICES ASSUME NEW b \in Auth, auth[b].job = auth[a].job, auth[b].sent PROVE b = a
  BY DEF SentFor
<1> QED
  BY SentIsTaken DEF GrantsSound, OneGrantInForce, Taken

-----------------------------------------------------------------------------
(* Every step is a step of the plate or a stutter                          *)

LEMMA TransitionMovesPlate ==
    ASSUME TypeOK, TypeOK', PrinterHeldByItsJob, NEW s \in Session, tx[s].job \in Job,
           Decided(tx[s]), CommitTransition(s)
    PROVE  [Plate!Next]_plate
<1> DEFINE act == tx[s].op
<1>0. PICK j \in Job : j = tx[s].job
  OBVIOUS
<1>1. act \in OwnerAction /\ UNCHANGED auth
  BY DEF CommitTransition
<1>2. job[j] \in From(act)
  BY <1>0, <1>1 DEF Decided, OwnerAction
<1>3. job'[j] = ToJob(act) /\ \A k \in Job \ {j} : job'[k] = job[k]
  BY <1>0 DEF CommitTransition, TypeOK
<1>4. \A k \in Job : SentFor(k)' <=> SentFor(k)
  BY <1>1 DEF SentFor
<1>5. act = "prepare" => printer \in {NoJob, j}
  BY <1>0 DEF CommitTransition, Reserve, Releases
<1> HIDE DEF act
<1>7. PlateReads(plate[j], job[j], SentFor(j)) /\ PlateReads(plate'[j], job'[j], SentFor(j))
  BY <1>4, PlateIs, PlateBecomes DEF PlateReads
<1>8. Moved(j)
  <2>1. CASE act = "prepare"
    <3>1. plate[j] = "waiting" /\ plate'[j] = "reserved"
      BY <1>2, <1>3, <1>7, <2>1 DEF From, ToJob, PlateReads
    <3>2. \A k \in Job : job[k] \notin Holding
      BY <1>2, <1>5, <2>1 DEF PrinterHeldByItsJob, From, Holding, InLine, NoJob, Job
    <3>3. ASSUME NEW k \in Job PROVE plate[k] \notin {"reserved", "committed"}
      <4>1. job[k] \in {"absent", "queued", "on_hold", "qa", "completed", "failed"}
        BY <3>2 DEF Holding, InLine, TypeOK, JobStatus
      <4> QED
        BY <4>1, PlateIs DEF PlateReads
    <3> QED
      BY <3>1, <3>3 DEF Moved
  <2>2. CASE act = "manual_started"
    BY <1>2, <1>3, <1>7, <2>2 DEF From, ToJob, PlateReads, Moved
  <2>3. CASE act = "hold"
    BY <1>2, <1>3, <1>7, <2>3 DEF From, ToJob, PlateReads, Moved
  <2>4. CASE act \in {"print_completed", "print_failed"}
    BY <1>2, <1>3, <1>7, <2>4 DEF From, ToJob, PlateReads, Moved
  <2>5. CASE act \in {"release", "qa_pass", "qa_fail"}
    BY <1>2, <1>3, <1>7, <2>5 DEF From, ToJob, PlateReads, Moved
  <2> QED
    BY <1>1, <2>1, <2>2, <2>3, <2>4, <2>5 DEF OwnerAction
<1> QED
  BY <1>3, <1>4, <1>8, MovedIsNext

LEMMA AuthorizationStutters ==
    ASSUME TypeOK, TypeOK', RowsIssued, GrantsSound, NEW s \in Session, tx[s].job \in Job,
           Decided(tx[s]),
           \/ CommitReadiness(s) \/ CommitAuthorize(s) \/ CommitReset(s) \/ CommitClaim(s)
    PROVE  [Plate!Next]_plate
<1>0. PICK j \in Job : j = tx[s].job
  OBVIOUS
<1>1. job[j] \in {"preparing", "ready_to_print", "authorized"}
  BY <1>0 DEF CommitReadiness, CommitAuthorize, CommitReset, CommitClaim, Decided, OwnerAction
<1>2. /\ job'[j] \in {"preparing", "ready_to_print", "authorized", "claimed"}
      /\ \A k \in Job \ {j} : job'[k] = job[k]
  BY <1>0, <1>1 DEF CommitReadiness, CommitAuthorize, CommitReset, CommitClaim, TypeOK
<1>3. \A k \in Job : SentFor(k)' <=> SentFor(k)
  <2>0. \A a \in Auth : auth[a] \in AuthRow
    BY DEF TypeOK
  <2>1. CASE CommitReadiness(s)
    BY <2>1 DEF CommitReadiness, SentFor
  <2>2. CASE CommitAuthorize(s)
    <3>1. PICK a \in Auth, code \in AuthCode :
            /\ auth[a].code = "unissued"
            /\ auth'[a] = NewAuth(j, code)
            /\ \A b \in Auth \ {a} : \/ auth'[b] = auth[b]
                                     \/ auth'[b] = [auth[b] EXCEPT !.revoked = TRUE]
      BY <1>0, <2>2 DEF CommitAuthorize, NextAuth, Auth, AuthCode
    <3>2. ~auth'[a].sent /\ auth[a].job = NoJob
      BY <3>1, NewAuthFields DEF RowsIssued
    <3>3. ASSUME NEW b \in Auth \ {a}
          PROVE  auth'[b].job = auth[b].job /\ auth'[b].sent = auth[b].sent
      <4>1. auth[b] \in AuthRow
        BY <2>0
      <4>2. CASE auth'[b] = auth[b]
        BY <4>2
      <4>3. CASE auth'[b] = [auth[b] EXCEPT !.revoked = TRUE]
        BY <4>1, <4>3 DEF AuthRow
      <4> QED
        BY <3>1, <4>2, <4>3
    <3> QED
      BY <3>2, <3>3, SentForKept DEF Job, NoJob
  <2>3. CASE CommitReset(s)
    <3>1. \A b \in Auth : \/ auth'[b] = auth[b]
                          \/ auth'[b] = [auth[b] EXCEPT !.revoked = TRUE,
                                                        !.code = "station_reset"]
      BY <2>3 DEF CommitReset, TypeOK
    <3>2. \A b \in Auth : auth'[b].job = auth[b].job /\ auth'[b].sent = auth[b].sent
      BY <2>0, <3>1, ResetFields
    <3> QED
      BY <3>2, SentForKept
  <2>4. CASE CommitClaim(s)
    <3>1. \A b \in Auth : \/ auth'[b] = auth[b]
                          \/ auth'[b] = [auth[b] EXCEPT !.claimed = TRUE, !.consumed = TRUE,
                                                        !.code = "station_claimed"]
      BY <2>4 DEF CommitClaim, TypeOK
    <3>2. \A b \in Auth : auth'[b].job = auth[b].job /\ auth'[b].sent = auth[b].sent
      BY <2>0, <3>1, ClaimFields
    <3> QED
      BY <3>2, SentForKept
  <2> QED
    BY <2>1, <2>2, <2>3, <2>4
<1>5. ~SentFor(j) /\ ~SentFor(j)'
  BY <1>1, <1>3, NothingSent
<1>6. plate[j] = "reserved" /\ plate'[j] = "reserved"
  <2>1. PlateReads(plate[j], job[j], SentFor(j))
    BY PlateIs
  <2>2. PlateReads(plate'[j], job'[j], SentFor(j)')
    BY PlateBecomes
  <2> QED
    BY <1>1, <1>2, <1>5, <2>1, <2>2 DEF PlateReads
<1> QED
  BY <1>2, <1>3, <1>6, MovedIsNext DEF Moved

LEMMA EventMovesPlate ==
    ASSUME TypeOK, TypeOK', RowsIssued, GrantsSound, NEW s \in Session, tx[s].job \in Job,
           Decided(tx[s]), CommitEvent(s)
    PROVE  [Plate!Next]_plate
<1>0. PICK j \in Job, a \in Auth : j = tx[s].job /\ a = tx[s].auth
  BY DEF CommitEvent, Decided, OwnerAction
<1> DEFINE state == tx[s].state
<1>1. /\ auth[a].job = j /\ auth[a].code = "station_claimed"
      /\ job[j] \in {"claimed", "printing"}
      /\ state \in Follows(auth[a].trail)
      /\ state \notin {"sent", "refused"} => auth[a].sent
  BY <1>0 DEF CommitEvent, Decided, OwnerAction, GrantsSound, EventsNameClaimed
<1>2. /\ auth[a].trail = "claimed" <=> state \in {"refused", "sent"}
      /\ GrantSound(auth[a]) /\ GrantFitsJob(auth[a], job[j])
  BY <1>1, FollowsFacts DEF GrantsSound
<1>3. /\ auth'[a].job = j
      /\ auth'[a].sent <=> (auth[a].sent \/ state = "sent")
  BY <1>0, <1>1, EventFields
<1>4. \A b \in Auth \ {a} : auth'[b] = auth[b]
  BY <1>0 DEF CommitEvent, TypeOK
<1>5. \A k \in Job \ {j} : SentFor(k)' <=> SentFor(k)
  BY <1>1, <1>3, <1>4 DEF SentFor
<1>6. SentFor(j) <=> auth[a].sent
  BY <1>1, SentByClaimed
<1>7. \A b \in Auth \ {a} : ~(auth[b].job = j /\ auth[b].sent)
  BY <1>1, SentIsTaken DEF GrantsSound, OneGrantInForce, Taken
<1>8. /\ \A k \in Job \ {j} : job'[k] = job[k]
      /\ state = "refused" => job'[j] = "preparing"
      /\ state = "completed" => job'[j] = "qa"
      /\ state = "printing" => job'[j] = "printing"
      /\ state \notin {"refused", "completed", "printing"} => job'[j] = job[j]
  BY <1>0, EventMovesJob
<1> HIDE DEF state
<1>10. SentFor(j)' <=> (auth[a].sent \/ state = "sent")
  <2>1. ASSUME auth'[a].sent PROVE SentFor(j)'
    BY <1>1, <1>3, <2>1 DEF SentFor
  <2>2. ASSUME NEW b \in Auth, auth'[b].job = j, auth'[b].sent PROVE b = a
    BY <1>4, <1>7, <2>2
  <2>3. ASSUME SentFor(j)' PROVE auth'[a].sent
    BY <2>2, <2>3 DEF SentFor
  <2> QED
    BY <1>3, <2>1, <2>3
<1>11. /\ PlateReads(plate[j], job[j], SentFor(j))
       /\ PlateReads(plate'[j], job'[j], SentFor(j)')
  BY PlateIs, PlateBecomes
<1>12. Moved(j)
  <2>1. CASE state = "refused"
    BY <1>1, <1>2, <1>6, <1>8, <1>10, <1>11, <2>1
      DEF GrantSound, GrantFitsJob, PlateReads, Moved
  <2>2. CASE state = "sent"
    BY <1>1, <1>2, <1>6, <1>8, <1>10, <1>11, <2>2
      DEF GrantSound, GrantFitsJob, PlateReads, Moved
  <2>3. CASE state \notin {"refused", "sent"}
    BY <1>1, <1>6, <1>8, <1>10, <1>11, <2>3 DEF PlateReads, Moved
  <2> QED
    BY <2>1, <2>2, <2>3
<1> QED
  BY <1>5, <1>8, <1>12, MovedIsNext

\* Pairing, revocation, time and the manual handoff send nothing.
LEMMA QuietStutters ==
    ASSUME TypeOK, TypeOK', UNCHANGED job, GrantsBarelyMove
    PROVE  plate' = plate
<1>1. \A b \in Auth : auth[b] \in AuthRow
  BY DEF TypeOK
<1>2. \A b \in Auth : \/ auth'[b] = auth[b]
                      \/ auth'[b] = [auth[b] EXCEPT !.revoked = TRUE]
                      \/ auth'[b] = [auth[b] EXCEPT !.expired = TRUE]
                      \/ auth'[b] = [auth[b] EXCEPT !.aged = TRUE]
                      \/ auth'[b] = [auth[b] EXCEPT !.claimed = TRUE]
                      \/ auth'[b] = [auth[b] EXCEPT !.consumed = TRUE, !.code = "downloaded"]
  <2>1. CASE UNCHANGED auth \/ auth' = RevokeAll
    BY <2>1 DEF RevokeAll
  <2>2. CASE \E a \in Auth : ClaimHandoff(a)
    <3>1. PICK a \in Auth : ClaimHandoff(a)
      BY <2>2
    <3>2. /\ auth'[a] = [auth[a] EXCEPT !.claimed = TRUE]
          /\ \A b \in Auth \ {a} : auth'[b] = auth[b]
      BY <3>1 DEF ClaimHandoff, TypeOK
    <3> QED
      BY <3>2
  <2>3. CASE \E a \in Auth : HandoffReceived(a)
    <3>1. PICK a \in Auth : HandoffReceived(a)
      BY <2>3
    <3>2. /\ auth'[a] = [auth[a] EXCEPT !.consumed = TRUE, !.code = "downloaded"]
          /\ \A b \in Auth \ {a} : auth'[b] = auth[b]
      BY <3>1 DEF HandoffReceived, TypeOK
    <3> QED
      BY <3>2
  <2>4. CASE \E a \in Auth : GrantExpires(a) \/ ClaimAges(a)
    BY <2>4 DEF GrantExpires, ClaimAges, TypeOK
  <2> QED
    BY <2>1, <2>2, <2>3, <2>4 DEF GrantsBarelyMove
<1>3. ASSUME NEW b \in Auth PROVE auth'[b].job = auth[b].job /\ auth'[b].sent = auth[b].sent
  <2>1. auth[b] \in AuthRow
    BY <1>1
  <2> QED
    BY <1>2, <2>1 DEF AuthRow
<1> QED
  BY <1>3, SentForKept, PlateStays

\* The worker puts a job in the queue that was waiting to be put there.
LEMMA EnqueueStutters ==
    ASSUME TypeOK, TypeOK', NEW j \in Job, EnqueuePaidOrder(j)
    PROVE  [Plate!Next]_plate
<1>1. job[j] = "absent" /\ job'[j] = "queued" /\ \A k \in Job \ {j} : job'[k] = job[k]
  BY DEF EnqueuePaidOrder, TypeOK
<1>2. \A k \in Job : SentFor(k)' <=> SentFor(k)
  BY DEF EnqueuePaidOrder, SentFor
<1>3. plate[j] = "waiting" /\ plate'[j] = "waiting"
  BY <1>1, PlateIs, PlateBecomes DEF PlateReads
<1> QED
  BY <1>1, <1>2, <1>3, MovedIsNext DEF Moved

LEMMA FulfilmentStutters ==
    ASSUME TypeOK, TypeOK', NEW s \in Session, CommitFulfilment(s)
    PROVE  plate' = plate
<1>1. UNCHANGED <<job, auth>>
  BY DEF CommitFulfilment
<1> QED
  BY <1>1 DEF plate

LEMMA PlateStep ==
    ASSUME TypeOK, TypeOK', RowsIssued, DecisionsStillHold, PrinterHeldByItsJob, GrantsSound,
           [Next]_vars
    PROVE  [Plate!Next]_plate
<1>1. CASE UNCHANGED <<job, order, fulfilment, printer>> /\ GrantsBarelyMove
  BY <1>1, QuietStutters
<1>2. CASE \E j \in Job : EnqueuePaidOrder(j)
  BY <1>2, EnqueueStutters
<1>3. ASSUME NEW s \in Session, tx[s].job \in Job, Decided(tx[s]),
             \/ CommitTransition(s)
             \/ CommitReadiness(s)
             \/ CommitFulfilment(s)
             \/ CommitAuthorize(s)
             \/ CommitReset(s)
             \/ CommitClaim(s)
             \/ CommitEvent(s)
      PROVE  [Plate!Next]_plate
  BY <1>3, TransitionMovesPlate, FulfilmentStutters, AuthorizationStutters, EventMovesPlate
<1> QED
  BY <1>1, <1>2, <1>3, StepKinds

\* Whatever sessions interleave, die or lose their comparison: one job has the
\* bed at a time, and a plate that went to the printer is never put back in the
\* queue; the manual and the station path are both the abstract life of a plate.
THEOREM DispatchImplementsPlateLifecycle == Spec => ImplementsPlateLifecycle
<1>1. Init => Plate!Init
  BY DEF Init, Plate!Init, plate
<1> QED
  BY <1>1, PlateStep, TypeCorrect, DecisionsHold, PrinterHeld, GrantsAreSound, PTL
    DEF Spec, ImplementsPlateLifecycle, Plate!Spec
=============================================================================
