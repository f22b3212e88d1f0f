# PrintFlow: verification project

TLA+ models of PrintFlow, a 3D-print shop: a FastAPI service over PostgreSQL, a
worker over a Redis stream, a local print station (asyncio, SQLite) that drives
one FlashForge AD5X, and the payment provider Razorpay. The models cover what
the system does between two steps of different actors: database sessions that
read before they write, requests whose answer is lost, processes that stop in
the middle, readings that are old when they are used.

Paths below are relative to `src/`; `api/` abbreviates
`services/api/src/xxx_api/`, `worker/` abbreviates
`services/worker/src/xxx_worker/`.

## 1. Inventory

| Component | State | Operations | Talks to |
| --- | --- | --- | --- |
| Quotation requests (`api/services/quotes.py`, `commerce.py`) | request status and version, uploads, quotes | draft, upload, submit, issue, reject, accept | analysis (outbox row), orders |
| Analysis runs (`api/services/analysis.py`) | run status, lease token and expiry, attempts | claim, complete, fail | quotation request, outbox |
| Worker (`worker/main.py`, `orchestrator.py`, `queue.py`) | position in its loop; the stream's pending entries | dispatch outbox, take entry, process, acknowledge; payment, notice, estimate and queue passes | everything through the database |
| Validation, sandbox, slicer (`worker/*.py`) | scratch files | validate, slice | storage |
| Pricing (`api/services/pricing.py`, `api/domain/pricing.py`) | policies, estimates | estimate, activate policy | quotation request (version) |
| Payments (`api/services/payments.py`) | intent, attempts, provider events | checkout, return, reconcile, webhook | Razorpay, order |
| Print queue (`api/services/commerce.py`) | job, order, printer row, readiness, fulfilment | enqueue, owner transitions, readiness, fulfilment | outbox, bridge |
| Bridge API (`api/services/bridge.py`, `api/routes/bridge.py`) | bridge row, authorizations, job events | pair, revoke, authorize, reset, claim, record event, handoff | print queue, station |
| Presentation queue (`api/services/presentation.py`) | entries, station row | submit, admit, clear bed, claim, event | station |
| Commerce and presentation connectors (`services/bridge/*_connector.py`) | rows of the station's journal, durable event outbox | reserve, dispatch, queue and flush events | bridge API, station |
| Print station (`services/bridge/print_station.py`) | journal, idle counters in memory | submit, prepare, start, reconcile, resolve, recover | printer driver |
| Printer drivers (`services/bridge/moonraker_lan.py`, `ad5x_lan.py`) | none | status, upload and start | printer |
| Notifications (`api/services/notifications.py`) | notification rows with leases | request, publish, deliver, retry | outbox, SMTP |
| Sessions, owner MFA, phone sign-in (`api/services/auth.py`, `owner_security.py`, `phone_auth.py`) | refresh families, methods and codes, challenges | login, rotate, revoke, enrol, verify | e-mail, WhatsApp sender |
| Rate limiter, storage, routes, web application, code sender, tools | little or none | | |

`PROJECT.json` lists every component with its status, and every hazard at the
line where it bites.

What is hard, and what makes each part correct:

* **Read, decide, write.** Nearly every API operation loads rows without locks,
  decides in Python and writes with a compare-and-swap on a version. Correct
  means: whatever commits in between, no write rests on a read that is no
  longer true, and rows written by separate statements agree (printer and job,
  order and job, intent and order).
* **One plate, one start.** Sending a job to the printer cannot be undone. A
  start is sent at most once per job over every timeout, refusal, reset,
  renewal and restart, and while its outcome is open nothing else is sent.
* **Money.** Webhooks are late, repeated or lost; the provider's answer is older
  than the rows; a POST is uncertain. Production is requested once, after a
  capture; captured money is confirmed in the end.
* **Work that must end.** Analysis runs travel through an outbox, a stream and
  leases. A run is never mislaid and every run gets one verdict.
* **Two machines, one plate.** The bridge and the API each keep rows about one start. A
  request may be lost, or handled without its answer arriving. The API must not give the station
  away while an old start can still happen, and no row may stop being reported in silence.
* **One offer.** A quotation is issued, superseded, rejected and accepted from several
  tabs while the worker estimates. One offer stands, on the newest estimate, and its lines add up.
* **One use.** Refresh tokens, mailed tokens, authenticator and phone codes are presented by
  overlapping requests. Each has one effect, and sessions stay within their limit.

## 2. Modules

| Module | Models | Abstract specification |
| --- | --- | --- |
| `ProductionDispatch` | print queue, printer reservation, readiness, authorizations, handoffs, dispatch events, fulfilment | `PlateLifecycle` |
| `PrintStation` | journal, preparation, start, reconciliation, resolve, restart, Moonraker start | `PrintOnce` |
| `Payments` | checkout, return, reconciliation, webhooks of one order | `PaymentContract` |
| `AnalysisPipeline` | outbox, stream, workers, leased runs, retry and rejection of one request | |
| `PresentationQueue` | submissions, admission, plate clearance, heartbeat, claim, events | `PlateLifecycle` |
| `PresentationLink` | the queue composed with its connector, the station's journal, operator, printer and bed | through `PresentationQueue` |
| `Pricing` | rounding arithmetic of estimates and quotations | |
| `Notices` | workflow notices from the outbox row to the mail server | `NoticeContract` |
| `Quotations` | one request from draft to order, rate cards, estimates; EXTENDS `Pricing` and `Notices` | through `Notices` |
| `Sessions` | refresh families: sign-in, renewal, reuse, logout | |
| `Identity` | one account: mailed tokens, password, owner's authenticator, phone codes; EXTENDS `Sessions` | |
| `ProductionDispatch_proofs`, `PrintStation_proofs`, `Payments_proofs`, `AnalysisPipeline_proofs`, `Notices_proofs`, `Identity_proofs` | theorems of the modules they name | |
| `Presentation_proofs`, `Quotations_proofs` | theorems of `PresentationQueue` and `PresentationLink`, and of `Pricing` and `Quotations` | |
| `MCProductionDispatch`, `MCQuotations`, `MCIdentity` | symmetry sets and values of constants for TLC | |

### ProductionDispatch

A request is a database session. `Begin...` reads rows and stores the decision in
`tx`; `Commit...` writes under `CompareVersion`; `Abort` is a session that dies. A
commit bumps the version of its job and order: every other session that read that
job is doomed and its commit fails. Single guarded `UPDATE`s (handoff claim, pairing,
heartbeat) are one action. A job stands for an order with its only print job. Clocks
are the facts the code reads off them: a readiness check is fresh or stale, a grant
expired or not, a claim aged or not, a bridge online or not; `TimePasses` changes them
one at a time.

`plate` maps the job and its grants to `PlateLifecycle`: waiting, reserved, committed
(the plate went to the printer or the print was started by hand), finished.

### PrintStation

The station is one asyncio process, so code between two awaits is one step and every
`await asyncio.to_thread` is a boundary. `task` says where the coroutine of a job is,
`view` holds the status a reader (the monitor, a status page) fetched and has not
applied yet, `wire` a start request on its way. The journal row keeps phase and
`start_intent`, whose age is absent, new or older than 90 seconds. The printer is external:
it accepts or never sees a start, and goes through its states by itself.

Assumptions about the environment, each a guard of the module:

* no request of an earlier upload is still on its way when a later one is complete (`SendStart`);
* nobody else drives the printer; `docs/ARCHITECTURE.md` disclaims actions of other clients.

The 90 seconds of an intent are under no assumption. The code stamps it before the upload and compares it
whatever the upload and the request are doing, so `AgeIntent` is possible in every state. For the same reason
`ConfirmedEndIsOver` is about the ends the printer confirmed (completed, cancelled) and the failures before an intent, and not about
`stopped`, which the code concludes from an idle printer (section 6), nor `resolved`, which is the operator's word.

The FlashForge driver, with its single combined call, is not modelled.

### Payments

One accepted order and its only intent; `attempts` and `requested` count captured attempts
and production requests. `fresh` says that the order version a session loaded is still the
stored one, `looked` that the intent was reconciled before. The session steps are cut at every await of the gateway. `remote` is the provider's
order; the buyer can pay it only after it was bound, because only then does the page get its id.
The last `fetch_payment` of a reconciliation is taken together with the list it follows.
Webhooks of other kinds than `payment.captured` and `order.paid` are recorded as ignored and have
no effect, and amounts always match; a payment of another amount is a refusal like any other.

### AnalysisPipeline

Each database transaction is one action, since PostgreSQL locks the run row. The worker's
loop is cut at every Redis call. The outbox keeps every row with its published mark, as
the table does; a row is of an analysis run or a notice, and a worker's batch is the set of positions it has read and not marked. Stream entries are new, pending (with an idle clock of their own) or
acknowledged. `Interrupt` is a crash or a Redis call that fails, before or after it took effect.
The lease token is the number of the attempt that holds it. Asset details are one status: the
request has one model. Redis keeps what it accepted. The version check that acknowledges a run
which is not current is in `ClaimRefused`; `RequestFollowsRun` shows it is never needed.

### PresentationQueue and PresentationLink

`PresentationQueue` is the API alone: an entry row per submission, the station row, and what a
clearance or claim request has read. Versions are only compared for equality, so `tx[s].fresh`
stands for "the version read is still the row's". An admission compares all it read and an event is written under the
rows it compares, so each is one step.

`PresentationLink` adds the bridge. The connector is one coroutine, cut at each request it
waits for (`conn.at`); the monitor and the operator change the same journal rows in between.
Every journal row carries its durable event outbox and the keys of the events it ever queued. A request is lost, or handled with its answer lost, or
answered. `wire` is a start under way to the printer, `bed` the plate.

Assumptions about the environment:

* an event request that timed out has been handled or lost before it is sent again; a claim that was
  given up has been lost or is still being handled, and may be committed later;
* a start has arrived or been dropped when its intent is 90 seconds old (`Verdicts`), and when the operator resolves the job (`Resolve`).
  `ServerNeverAhead`, `PlateNeedsClearBed` and their theorems `ServerStaysBehind` and `StartsOnClearBed` hold only under this
  assumption, and the station's own clock does not guarantee it: `PrintStation` does without it, and section 6 has the trace;
* no start of an earlier upload is on its way when a later upload is complete;
* no local job shares the station, and the monitor's reading is fresh: old readings are `PrintStation`'s subject.

### Quotations, Pricing, Notices

Draft, upload, submission and estimate hold the request's row lock and are one step. Issue, reject and
accept read, then compare the request's version; an accept reads the quotation before the version.
Activation of a rate card locks the card it found active. Outcomes of the analysis come as
`AnalysisPipeline` delivers them. Left out: the expiry of an upload form and a second write through
a form that is still valid after completion (the worker compares the digest); the status
`owner_review`, which nothing assigns; the versions a page could only guess. Expiry is followed for the newest estimate and the issued
quotation, which are the ones whose expiry is read.

A notice becomes independent of its request once it is requested. `Quiet` and `Delivering` bound the run accordingly: deliveries are explored from few states
of the offer (no estimate, no active card, no open session), and then alone. What is delivered in the run is therefore the notice of a rejection; the notice of an
acceptance is requested, and its delivery is the same actions on another row. A sender claims a row under a lease of its own, submits outside the transaction, settles if the lease is still its own.

### Sessions and Identity

The database runs at READ COMMITTED. A row read `FOR UPDATE` stays locked; an `UPDATE` chooses its rows
from what was committed when it began, and `tx[s].ids` is that choice, so a row inserted meanwhile is missed as it
is in PostgreSQL. An operation that commits in two steps is two actions. No operation touches rows of two
accounts, so a behaviour follows one: buyer by e-mail, owner, or buyer by phone. `over` is a token consumed or
expired, which are refused alike. `spent` and `doubled` are history: proofs that had an effect, and had one twice. The status `disabled` is never assigned.

## 3. Runs

All runs finish within five minutes on two workers.

| Run | Configuration | Checks | What it shows |
| --- | --- | --- | --- |
| `production_queue` | `MCProductionQueue.cfg`: 2 orders, 1 grant, 2 owner tabs | `PrinterHeldByItsJob`, `OrderFollowsJob`, `DecisionsStillHold`, `ImplementsPlateLifecycle` | two jobs compete for the printer, two tabs for every job |
| `production_retry` | `MCProductionRetry.cfg`: 1 order, 2 grants, 2 tabs, 1 bridge session, one progress step | `AuthorityMatchesJob`, `PlateSentOnce` | refusal, reset and renewal of grants with late events |
| `station` | `MCPrintStation.cfg`: 2 jobs, monitor, 1 restart, fairness | `TypeOK`, `OneActive`, `SentOnce`, `ConfirmedEndIsOver`, `RestartInspects`, `ImplementsPrintOnce`, `SlotIsReleased` | a second job tries to start while the first is open, with a restart anywhere and the 90 seconds over at any point; the slot comes free in the end |
| `station_window` | `MCStationWindow.cfg`: window 1, 2 jobs | `RestartInspects` **violated** | finding 1 |
| `station_resolve` | `MCStationResolve.cfg` | `ResolvesUncertainOnly` **violated** | finding 2 |
| `payments` | `MCPayments.cfg`: buyer, webhook handler, 2 reconciliations that overlap once, 2 deliveries, fairness | `TypeOK`, `PaidTogether`, `PostedOnce`, `ImplementsPaymentContract`, `CapturedIsConfirmed` | sessions of every kind race and die; an intent that was reconciled once is confirmed when every webhook is lost |
| `analysis` | `MCAnalysis.cfg`: 1 run, 2 workers, 2 attempts, 1 interruption, 1 notice of another service | `NothingMislaid`, `RequestFollowsRun` | attempts overlap, entries are duplicated, a worker dies |
| `analysis_retry` | `MCAnalysisRetry.cfg`: 2 runs, 2 tabs, 1 worker, 2 attempts, 1 interruption, fairness | `TypeOK`, `VerdictIsFinal`, `EveryRunEnds` | retries race each other and a rejection |
| `analysis_outbox` | `MCAnalysisOutbox.cfg`: notifications off | `OutboxIsPublished` **violated** | finding 3 |
| `presentation` | `MCPresentation.cfg`: 2 entries, 1 tab, 1 bridge session, 1 fault | `LinkTypeOK`, `ReservationAgrees`, `AcknowledgedBeforeSend`, `ServerNeverAhead`, `NobodyForgotten`, `PlateNeedsClearBed`, `ImplementsPlateLifecycle` | two submissions from the buyer to the printer, one lost request, lapse or restart anywhere |
| `quotations` | `MCQuotations.cfg`: 2 uploads, 2 cards, 2 estimates, 2 quotations, 2 owner tabs, 1 buyer, 1 notice, 2 senders | `QuotationTypeOK`, `OneOfferStands`, `OfferIsCurrent`, `LinesReconcile`, `PricedModelsAreWhole`, `ImplementsNoticeContract` | estimates, issues, rejections and acceptances race; a notice outlives slow and crashed senders |
| `identity` | `MCIdentity.cfg`: 2 clients, 1 active session, 3 rows, 2 tokens, 2 challenges, 1 secret, 1 time step | `IdentityTypeOK`, `OneLineOfSessions`, `ProofUsedOnce`, `SessionsBounded` | every pair of requests of one account overlaps |

Why these bounds are enough to be interesting:

* two orders are needed for a contended printer and one more session than job for a race on
  each; `production_retry` gives one job two grants because "at most once" can only fail over
  a renewal. Progress needs two buckets to regress;
* the journal window is 100 rows in the code. The property it breaks needs one row more than
  the window, so window 1 and 2 jobs are the same situation; the other station runs keep every
  row in the window and say what holds then;
* the station's run has the monitor as its only reader, so that two jobs, a restart and liveness fit. The monitor and a status page as
  two readers, without a restart, were checked by hand for the safety properties (1,983,804 states, no error), and
  the theorems of section 5 hold for any readers, `EndsAreConfirmed` among them;
* a reconciliation outlasts the 30 second claim of the next one `MaxOverlaps` times: once, with two reconciliations;
* one restart, interruption or fault (`MaxRestarts`, `MaxInterruptions`, `MaxFaults`) can hit any single step, and each of these properties is about
  what one lost step leaves behind;
* an outbox batch is 20 rows in the code and 2 in the runs: what matters is whether it fills;
* the attempt limits are 3 and 5 by default and 2 in the runs, which has a first, an overlapping
  and an exhausted attempt;
* two estimates, two quotations and two cards give every supersession; two owner tabs race each other and the buyer.
  Checked by hand without error: two buyers (2,506,118 states), and no discount beside the discount of 60 (2,150,774 states). The two rate cards
  of `MCQuotations` lie on both sides of the minimum order, and no amount divides evenly;
* one active session and a second sign-in exceed every limit; three rows are a replacement and a second family. Password
  resets are followed for the buyer (`ResetBy`); those of the owner were checked by hand (3,228,097 states, no error).

Deadlock checking is off where a model really comes to rest: all payments settled, all runs ended, both submissions over, the request
closed, the bounds on rows, deliveries and interruptions used up. `ProductionDispatch` and `PrintStation` never stop and are checked for deadlock.

`PROJECT.json` names for every property a mutant: a definition of the model changed the way
a bug would change the code (a dropped version check, a missing test of the trail, a mark
before the publish). Their operators stand next to the originals, under a comment that begins with "Faulty".

## 4. Fairness

* `PrintStation`: every coroutine runs (asyncio does not starve a ready task), the monitor
  reads every few seconds, a request on the wire arrives or is dropped, the intent ages, the operator
  looks at a job that needs attention: weak fairness. The printer comes to the end of a print
  again and again: strong fairness. Without an operator `SlotIsReleased` is false, and is meant
  to be: a job of unknown outcome waits for an inspection.
* `Payments`: the worker reconciles forever and Razorpay answers infinitely often, so a
  reconciliation that can step infinitely often does: strong fairness of its steps. A reconciliation begins again and again only for
  an intent that was looked at before (`TurnComes`): the worker takes three intents a pass, those it looked at longest ago first and
  those it never looked at last, so that the former all have their turn while a new one may wait for ever (section 6). `CapturedIsConfirmed`
  says accordingly what happens once anybody, the worker, the buyer or the owner, has reconciled the intent. Nothing is
  assumed of webhooks and buyers. The 30 second claim on `last_reconciled_at` keeps a second reconciliation out for longer
  than a pass takes; `MaxOverlaps` bounds how often it does not. Without the
  claim two reconciliations could invalidate each other's version for ever, and TLC shows that
  if the bound is lifted.
* `AnalysisPipeline`: workers keep looping, leases expire, pending entries grow idle, and the
  notification loop runs if it is enabled: weak fairness. Interruptions are bounded. Nothing is
  assumed of owners.
* `PresentationLink`, `Quotations` and `Identity` state safety only. What must end there (a reservation, a notice) rests on an
  operator, an owner or a mail server that answers; `NobodyForgotten` says instead that whatever is open is either
  still reported or waits for somebody who is shown it, except a row the connector marked `telemetry_error`.

## 5. Proofs

| Module | Theorem | Statement |
| --- | --- | --- |
| `ProductionDispatch_proofs` | `TypeCorrect` | `Spec => []TypeOK` |
| | `DecisionsHold` | `Spec => [](DecisionsStillHold /\ RowsIssued)` |
| | `PrinterHeld` | `Spec => []PrinterHeldByItsJob` |
| | `OrderFollows` | `Spec => []OrderFollowsJob` |
| | `GrantsAreSound` | `Spec => []GrantsSound` |
| | `AuthorityMatches` | `Spec => []AuthorityMatchesJob` |
| | `PlateIsSentOnce` | `Spec => []PlateSentOnce` |
| | `DispatchImplementsPlateLifecycle` | `Spec => ImplementsPlateLifecycle` |
| `PrintStation_proofs` | `TypeCorrect` | `Spec => []TypeOK` |
| | `OneInTheSlot` | `Spec => []OneActive` |
| | `StartIsSentOnce` | `Spec => []SentOnce` |
| | `EndsAreConfirmed` | `Spec => []ConfirmedEndIsOver` |
| | `StationImplementsPrintOnce` | `Spec => ImplementsPrintOnce` |
| `Payments_proofs` | `TypeCorrect` | `Spec => []TypeOK` |
| | `PaidIsOneStory` | `Spec => []PaidTogether` |
| | `OneOrderPosted` | `Spec => []PostedOnce` |
| | `PaymentsImplementContract` | `Spec => ImplementsPaymentContract` |
| `AnalysisPipeline_proofs` | `TypeCorrect` | `Spec => []TypeOK` |
| | `RunsAreNotMislaid` | `Spec => []NothingMislaid` |
| | `RequestShowsItsRun` | `Spec => []RequestFollowsRun` |
| | `VerdictsAreFinal` | `Spec => VerdictIsFinal` |
| `Presentation_proofs` | `TypeCorrect` | `QueueSpec => []QueueTypeOK` |
| | `ReservationHolds` | `QueueSpec => []ReservationAgrees` |
| | `QueueImplementsPlateLifecycle` | `QueueSpec => ImplementsPlateLifecycle` |
| | `ConnectedQueue` | `LinkSpec => QueueSpec` |
| | `LinkReservationHolds` | `LinkSpec => []ReservationAgrees` |
| | `LinkImplementsPlateLifecycle` | `LinkSpec => ImplementsPlateLifecycle` |
| | `LinkTypeCorrect` | `LinkSpec => []LinkTypeOK` |
| | `StartsAreAcknowledged` | `LinkSpec => []AcknowledgedBeforeSend` |
| | `ServerStaysBehind` | `LinkSpec => []ServerNeverAhead` |
| | `StartsOnClearBed` | `LinkSpec => PlateNeedsClearBed` |
| | `SomebodyHasIt` | `LinkSpec => []NobodyForgotten` |
| `Quotations_proofs` | `ComponentsAddUp` | material, machine, setup, contingency and minimum line are the amount before tax |
| | `LinesAddUp` | the lines of a quotation add up to its total |
| | `ChargesCoverCosts` | every rounded line covers what the card asks, by less than one paisa |
| | `TypeCorrect` | `Spec => []QuotationTypeOK` |
| | `OneOffer` | `Spec => []OneOfferStands` |
| | `OfferCurrent` | `Spec => []OfferIsCurrent` |
| | `LinesAlwaysReconcile` | `Spec => []LinesReconcile` |
| | `ModelsWhole` | `Spec => []PricedModelsAreWhole` |
| | `NoticesKeepContract` | `Spec => ImplementsNoticeContract` |
| `Identity_proofs` | `TypeCorrect` | `Spec => []IdentityTypeOK` |
| | `OneLine` | `Spec => []OneLineOfSessions` |
| | `ProofsUsedOnce` | `Spec => []ProofUsedOnce` |
| | `BuyersBounded` | `Spec => []SessionsBounded` |

They hold for any number of jobs, grants, entries, sessions, progress buckets, readers, restarts, deliveries, workers, analysis runs, interruptions, faults, uploads, estimates, quotations, senders, attempts, overlapping requests, session rows, tokens, challenges and enrolments, for every window of the journal and for every card and measurement. The
assumptions are those the modules state of their constants, such as `ProductionAssumption` (the bounds are naturals, at least one job and one grant).

**ProductionDispatch.** Neither the printer nor the order property is inductive: a commit writes a state decided
earlier from rows that may have changed. The strengthening is `DecisionsStillHold`: a decision that can still
commit is true of the stored rows. It is preserved because a commit on a job resets every
other session with that job (`CompareVersion`), and a step that does not bump the job's version changes
nothing a decision read. Two lemmas carry it: `CommitKeepsDecisions` for versioned commits and
`QuietKeepsDecisions` for the rest; `BeginKeepsDecisions` covers the readers. `DecisionsStillHold` needs `RowsIssued`
(a grant that is named by a decision or an event was issued), and with both the two row
agreements are proved one commit at a time: `Reserve` takes a printer that is free, releases go with the
status that gives it up, and the order status written is the one `ToOrder` pairs with the job's.

`AuthorityMatchesJob` and `PlateSentOnce` speak of all the grants a job ever had, and follow from `GrantsSound`. `GrantSound` ties a grant's result
code, claim and trail of events; `GrantFitsJob` says which of them the job's status allows; `OneGrantInForce` that at most one grant of a job is unclaimed
and at most one was claimed without ending in a refusal, so that a second plate record has no grant to be on; `GrantAtHand` that an authorized or claimed job has such a grant; `EventsNameClaimed`
that every event still to be written names a claimed one. `DecisionsStillHold` is needed once more: a renewal is written over what the session read of the grants.
`StepKinds` sorts the actions by what they do to the grants (issue, claim, reset, record, expire), and each kind keeps the parts in a lemma of its own.

For the refinement `PlateReads` restates `plate` as four cases of status and trail, `MovedIsNext` shows that the change of one job's plate
is a step of `PlateLifecycle` if every other plate stays, and `PlateStep` collects the actions. That a trail never turns back from "sent" rests on `GrantsSound`.

**PrintStation.** `StationInv` adds to the types `Fits`: which phases, intents and send counts a journal row can have while its coroutine stands at each point.
The intent is written between the last check and the request, so a row without an intent was never sent, and a row with one never comes back to the point that
sends. `InspectedWasFollowed` says that a row the operator inspected is followed or over. `OneActive` is inductive with them because every way into the slot tests it in the same transaction.
`ConfirmedEndIsOver` needs `EndInv` beside it: a job never sent is nowhere, one the printer took is off the wire, and an end that a reader holds or a row
shows (`ReadEndsArePast`, `RowEndsArePast`) is of a job whose one start is behind it (`Past`). `Past` survives every step (`PhysicalMoves`) because a job is
sent once, so a reading of its end is true for ever, however late it is applied; nothing in the argument looks at the age of the intent.
The theorems hold for every window and any readers. Finding 1 is no exception: a row outside the window is not followed, but still cannot be sent again.

**Payments.** `PayInv` is the story of one order in parts: an intent that is searched for exists (`SearchHasIntent`), what a session knows to be paid the provider
has captured (`PaidIsEvidence`), money is captured only on a bound order (`BoundBeforeCapture`), intent, attempt and request agree (`OneStory`), a browser return
that can still commit has loaded an unpaid order that is still unpaid (`ReturnsUnpaid`), and at most one session holds the licence to post, none once the post was made (`OneLicence`).
`OneOrderPosted` and `PaidIsOneStory` are parts of it; with it every step maps to the contract or a stutter (`StepsMap`).

**AnalysisPipeline.** None of the properties is inductive. A worker acknowledges an entry of the stream long after it looked at the run, and marks an outbox row
after it published it, so the invariant `IInv` says what a worker carries from one step to the next: `LoopFits` (a row about to be marked is of a run that is in the stream, a message about to be
acknowledged is of a run that has its verdict). `OutboxFits` keeps a row for every run and an entry for every published one, `StreamFits` lets only entries of a run with a verdict
be acknowledged. The third way to acknowledge, a run that is not current, is closed by `RequestFits`: an open run is the newest, its version is the request's and its
upload can be claimed. For that `TabsFit` is needed: a tab whose version is still the request's read a request that has its verdict, so that a retry never
overtakes an open run. `Grown` collects what all these facts survive (rows and entries stay, verdicts stay), `LoopKept` carries the loops of the other workers over every step, and `RunMoves` the rest when
one run changes. `VerdictIsFinal` comes with it: each action proves `VerdictsStand` beside the invariant.

**PresentationQueue.** `ReservationAgrees` is inductive with the types: a claim compares the station row and the entry row in
one transaction, and an event that leaves `Held` also leaves the station. With it every step maps to a
step or a stutter of `PlateLifecycle`; the only step that uses more than types is `RecordEvent`, by cases on `Follows`.

**PresentationLink.** Every step of the composition is a step of the queue or leaves it alone (`ConnectedQueue`), which carries the two results above over. The others follow from `LinkInv`, whose parts
each relate two of the machines. `InStep` pairs the point where the connector stands with the phase of the row it has in hand, and says that a row in the middle of a dispatch is the
one in hand, since a restart fails such rows. `RowsFit` ties the phase to the start intent and to the events ever queued. `Delivered` says that an event of a row is at the server or still in its
outbox, and that the server knows no other, and `Told` that the server's status is what its events tell: together a status that is over implies a row that is over, which is `ServerNeverAhead`.
`RowsAdmitted` keeps a row behind every claim, a late one included. `SentFits` counts: what is on the wire or the printer was sent once, with intent and acknowledged event;
`SendReady` that the connector on its way to the printer has sent nothing yet. `BedCleared` follows the plate from the owner's look to the arrival of the start: the request
that arrives is of the entry that holds the station, so it spoils nobody else's clearance.

**Pricing.** `CeilRatioBounds` (a rounded quotient is at least the quotient and less than one above it) gives the
theorems by linear arithmetic.

**Quotations.** Issue, rejection and acceptance write what they concluded from earlier reads. The strengthening is
`ReadsStillHold`: a conclusion is true of the stored rows as long as the version that was read is still the
request's. `OldReadsAreVoid` covers every step that increments the version, `ReadsKept` the others. `VersionsGrow` says that only the newest
estimate can be of the request's version, which is why `BeginIssue` picks the newest, and `AtMostOne` is `OneOfferStands` without cardinalities.
The prices and lines of the rows are typed with the theorems about `Pricing`.

`WholeInv` carries the other three. `UploadsWhole` says that an upload some analysis took up is the object that was announced, that a request
which was submitted has no upload under way, and that one with an estimate is past analysis for good: without the last part a second analysis could undo what
an estimate was priced on. It needs to know that whoever is about to issue or reject found a submitted request (`Whole`), since the write that follows sets the status.
`Sums` relates each quotation to the estimate it names and each estimate to its card and measurement; `ComponentsAddUp`, `LinesAddUp` and `ChargesCoverCosts` give what a new row
needs, and expiry and relabelling leave the amounts alone. Acceptance adds the lines up with a fold, in whatever order it takes them:
`SumOver` spells that sum out for eight lines, and the equality holds for every set of indexes because a smallest one for which it failed could not exist. `Bounds` keeps room for the
quotation a session may still issue. `BoundAssumption` says that the bounds are naturals and a request may be analysed at least once.

**Notices.** `AttemptsCover` counts: the messages taken so far and the senders that may still submit one are no more than the attempts
counted on the row, those of earlier rounds in full. A claim counts its attempt before its sender may submit, and a crash only gives an attempt up.
`HandsMatchRows` ties leases to open rows and a reported "sent" to a message that was taken. With both, every step of delivery is a step of
`NoticeContract` (`NoticesStepTold` in `Notices_proofs`). That the notice is requested only once is a fact about the offer: `ToldAtTheEnd` and `RejectionSeen` in
`Quotations_proofs`, from which `NoticesKeepContract` follows for the composition. It assumes a finite
set of senders, none of them the NULL of a lease (`SenderAssumption`), and that the notices of the request are among those followed (`LastNoticeAssumption`).

**Sessions and Identity.** `IdentityInv` begins with the locks: `LocksApart` says that no two open transactions hold the same session row, token,
authenticator or account row, and `StepKinds` shows that every action opens, goes on with or ends one transaction under locks it may take.
`OneLineOfSessions` follows from `Lines` (its form without cardinalities) and `RenewsHead`: the row a renewal holds is the head of its line, and nobody can
replace or revoke it meanwhile. `SessionsBounded` is not inductive: `RoomMade` adds that a sign-in under the account's lock has chosen enough sessions to
revoke that the one it adds fits, which rests on the choice itself (`SurplusMakesRoom`, by the least element of a set of sessions) and on
renewals that wait for the lock. `ProofUsedOnce` needs to know what a used proof left in the rows: `MailSpent` (the token is over), `CodesSpent` (a code of the present secret is
no newer than the last one noted, a recovery code is off the list, a secret not yet confirmed has none), `PhoneSpent` (the challenge is consumed); and that what a transaction
holds has not been used. `ResetsCounted` bounds the password changes by the reset tokens, for the types.

Only model-checked:

* `RestartInspects` of `PrintStation`: it holds for a window that is large enough (finding 1), not for every value of the constants;
* all liveness: the prover does not handle fairness.

## 6. Findings

1. **Recovery sees the newest 100 rows only** (`services/bridge/print_station.py:176`). `recover()` and
   `reconcile()` walk `Journal.all()`. A sliced estimate that is older than the window can be started;
   after a restart it is neither recovered nor followed, and it keeps the active slot. `docs/VISIT_PREFLIGHT.md:88-89`
   promises "needs attention". Run `station_window`.
2. **Resolve does not look again** (`services/bridge/print_station.py:976`). The request checks that the row needs
   attention, awaits the printer, and writes `resolved` whatever the monitor made of the row
   meanwhile; its own refusal at line 966 says only uncertain jobs can be resolved. Run `station_resolve`.
3. **Notices starve the outbox** (`services/api/src/xxx_api/services/analysis.py:434`). The batch of 20 is taken over all topics
   and filtered afterwards. With `workflow_notifications_enabled` at its default `False` no notice is ever published, so
   after 20 of them no analysis is dispatched. `docs/adr/0005-isolated-analysis-orchestration.md:29` and
   `docs/DATA_FLOW.md:217` promise publication. Run `analysis_outbox`; the runs that pass have notifications on.

Met while modelling. The models follow the code here; the properties are worded so that they hold with it:

* `api/services/pricing.py:264`: an estimate needs a result of every asset of the request, but a rejected upload that was replaced stays an asset and is
  never analysed. Such a request never gets a price; slicing cannot be retried either (`api/services/commerce.py:146`). `create_pending_estimates` drops the conflict
  (`pricing.py:457`) and the request keeps one of the 20 places of the batch (`pricing.py:438-439`).
* `services/bridge/commerce_connector.py:120`: after a refused event the connector marks `telemetry_error` and reports that job no more. It comes to this when the claim never arrived or the clearance
  lapsed (404 to `refused`), when `needs_attention` is followed by `awaiting_start`, when a restart's `needs_attention` is resolved before it was reported, and when
  a second `needs_attention` is not new to the row's keys (409 to `resolved`). `NobodyForgotten` names the mark as the one exception, so it says nothing of these cases.
* `api/services/owner_security.py`: the owner's second factor does not lock the account row, so a renewal that overlaps leaves one session above the limit
  until the next sign-in; `SessionsBounded` is about buyers. `api/services/auth.py`: a renewal under way while its family is revoked inserts a row
  that the revoking statement does not see.
* `services/bridge/print_station.py:683`: a job can be closed as `stopped` while its start is still on the way to the printer. The 90 seconds run from the
  intent, which is stamped at line 610 before the upload. After an upload of more than a minute a request that times out leaves
  `needs_attention`; the next idle readings, twelve seconds apart, close the row with the message "This attempt was cancelled or did not start" (lines
  690-693), the active slot is free, and the printer may still accept the request. The invariant "a stopped job is not under way" fails after 18 steps
  with the constants of `MCStationResolve.cfg` (checked by hand, with no restart and one reader). Readings from before the start do the same when three of them, held by overlapping
  readers, are applied after it. `docs/WINDOWS_LOCAL_TESTING.md:317-322` and `docs/SECURITY.md:177-179` describe the evidence required (a start older than 90 seconds, consistent idle
  readings), which the code does require; what is not covered is a start still under way.
* `api/services/payments.py:544`: reconciliation takes intents it has already looked at before new ones, because PostgreSQL sorts NULL last, and three per pass. Enough
  abandoned checkouts keep a new intent from ever being reconciled by the worker. One intent is modelled, so no run shows it; the
  fairness of `Payments` leaves it open.
* `api/services/commerce.py:636`: one invalid production row stops the worker's pass.

## 7. Not modelled, and why

Slicing, validation, G-code and geometry are computations on files: only their outcomes appear. Routes, schemas and the web
application parse and display. Storage, SMTP and the WhatsApp sender are I/O. The rate limiter is one atomic Redis script. Catalogue, dashboard and audit rows are written in the transaction
they describe and read by nobody that decides. Tools and migrations run alone. The choice among several payment intents and among the requests that wait for an estimate is a query with a limit; one
intent and one request are followed. The FlashForge driver, and the connector with the paid queue, are next in the plan.

## 8. Plan

Done: `ProductionDispatch`, `PrintStation`, `Payments`, `AnalysisPipeline`, `PresentationQueue` with `PresentationLink`, `Quotations` with `Pricing` and `Notices`,
`Identity` with `Sessions`. Left, in order of what a mistake would cost:

1. the commerce connector with the paid queue: `PresentationLink` with `ProductionDispatch` in place of the presentation queue. The connector's code is the same class;
   what differs is a grant that can be renewed after a refusal;
2. the FlashForge start (`services/bridge/ad5x_lan.py`) as a second protocol of `PrintStation`;
3. several intents and several requests, for the two batches that prefer or keep the same rows;
4. a clock in `PrintStation` for the length of an upload and the age of a reading, so that what `stopped` does mean can be stated, and a proof of
   `RestartInspects` for the windows it holds for.
