----------------------------- MODULE Quotations -----------------------------
(***************************************************************************)
(* One quotation request from its draft to an order or a rejection: model  *)
(* uploads, the outcome of the analysis, rate cards, estimates, quotations *)
(* and their acceptance, and the notice the end of it leaves behind.       *)
(*                                                                         *)
(* Uploads, submission and estimates hold a lock on the request row and    *)
(* are one step each.  Issue, rejection and acceptance read first and then *)
(* compare the request's version, so they are several steps of a session;  *)
(* so is the activation of a rate card, which locks the card it found.     *)
(***************************************************************************)
EXTENDS Pricing, Notices, Sequences, FiniteSetsExt

CONSTANTS
    Asset,         \* the buyer's upload tokens
    MaxModels,     \* max_models_per_quote
    Card,          \* the rate card of each policy version: [1..n -> RateCard]
    Measured,      \* the measurements an analysis may report
    Adjustment,    \* the adjustments the owner may make
    Fulfilment,    \* the fulfilment charges
    Owner, Buyer,  \* sessions of the owner and of the buyer
    RejectedNotice, AcceptedNotice,  \* the last notices of the request
    MaxRuns,       \* bound: analysis runs
    MaxEstimates,  \* bound: estimates
    MaxQuotes      \* bound: quotations

Policy == DOMAIN Card

ASSUME CardAssumption == Policy \subseteq Nat \ {0} /\ \A p \in Policy : Card[p] \in RateCard

ASSUME MoneyAssumption ==
    Measured \subseteq Measurement /\ Adjustment \subseteq Int /\ Fulfilment \subseteq Nat

ASSUME BoundAssumption == MaxRuns \in Nat \ {0} /\ {MaxEstimates, MaxQuotes} \subseteq Nat

ASSUME OfficeAssumption == Owner \cap Buyer = {}

ASSUME LastNoticeAssumption == {RejectedNotice, AcceptedNotice} \subseteq Notice

VARIABLES
    request,    \* the QuoteRequest row and its latest AnalysisRun
    asset,      \* ModelAsset rows and the stored objects
    policy,     \* status of the PricingPolicy rows
    estimates,  \* QuoteEstimate rows in order of creation
    quotes,     \* Quote rows in order of their version
    orders,     \* Order rows
    tx          \* the open transactions

offer == <<request, asset, policy, estimates, quotes, orders, tx>>

vars == <<offer, notices>>

-----------------------------------------------------------------------------
(* Vocabulary                                                              *)

RequestStatus == {"none", "draft", "analyzing", "analysis_failed", "analysis_ready",
                  "estimate_ready", "quoted", "rejected"}

\* The latest analysis run; a run that fails in the slicer may be repeated.
RunStatus == {"none", "queued", "succeeded", "awaiting_profile", "slicer_failed", "failed"}

\* "slicer_rejected" is rejected with a code that begins with "slicer_".
AssetStatus == {"none", "pending_upload", "quarantined", "validated", "rejected",
                "slicer_rejected"}

Nothing == [filament_mg |-> 0, duration_seconds |-> 0]

RequestRow == [status : RequestStatus, version : Nat, run : RunStatus, runs : 0..MaxRuns,
               measured : Measured \cup {Nothing}]

EstimateRow == [version : Nat, policy : Policy, price : [{"material", "machine", "setup",
                "contingency", "minimum_adjustment", "pre_tax"} -> Nat], live : BOOLEAN]

QuoteStatus == {"issued", "accepted", "rejected", "superseded"}

QuoteRow == [estimate : 1..MaxEstimates, status : QuoteStatus, adjustment : Int, tax : Nat,
             lines : Seq(Int), total : Nat \ {0}, live : BOOLEAN]

Session == Owner \cup Buyer

\* of is the estimate, the quotation or the policy the transaction is about;
\* version is the request's, for an activation the policy found active.
Tx == [at : {"idle", "issue", "reject", "quote", "accept", "activate"}, of : Nat, version : Nat]

Idle == [at |-> "idle", of |-> 0, version |-> 0]

QuotationTypeOK ==
    /\ request \in RequestRow
    /\ asset \in [Asset -> [status : AssetStatus, object : {"none", "match", "other"}]]
    /\ policy \in [Policy -> {"none", "draft", "active", "retired"}]
    /\ estimates \in Seq(EstimateRow) /\ Len(estimates) <= MaxEstimates
    /\ quotes \in Seq(QuoteRow) /\ Len(quotes) <= MaxQuotes
    /\ orders \subseteq [quote : 1..MaxQuotes, amount : Nat \ {0}]
    /\ tx \in [Session -> Tx]
    /\ NoticesTypeOK

Init ==
    /\ request = [status |-> "none", version |-> 0, run |-> "none", runs |-> 0,
                  measured |-> Nothing]
    /\ asset = [a \in Asset |-> [status |-> "none", object |-> "none"]]
    /\ policy = [p \in Policy |-> "none"]
    /\ estimates = <<>>
    /\ quotes = <<>>
    /\ orders = {}
    /\ tx = [s \in Session |-> Idle]
    /\ NoticesInit

Standing(status) == {q \in DOMAIN quotes : quotes[q].status = status}

\* update(Quote) ... where status = 'issued'
Relabelled(status) ==
    [q \in DOMAIN quotes |-> IF quotes[q].status = "issued"
                             THEN [quotes[q] EXCEPT !.status = status] ELSE quotes[q]]

Advanced(status) == [request EXCEPT !.status = status, !.version = @ + 1]

Begun(s, at, of, version) ==
    /\ tx[s] = Idle
    /\ tx' = [tx EXCEPT ![s] = [at |-> at, of |-> of, version |-> version]]
    /\ UNCHANGED <<request, asset, policy, estimates, quotes, orders, notices>>

Done(s) == tx' = [tx EXCEPT ![s] = Idle]

Rollback(s) == Done(s) /\ UNCHANGED <<request, asset, policy, estimates, quotes, orders, notices>>

\* compare_version: the row still has the version that was read.
Unchanged(s) == tx[s].version = request.version

-----------------------------------------------------------------------------
(* The draft                                                               *)

\* The client's token makes a repetition return the row.
CreateRequest ==
    /\ request.status = "none"
    /\ request' = [request EXCEPT !.status = "draft", !.version = 1]
    /\ UNCHANGED <<asset, policy, estimates, quotes, orders, tx, notices>>

Known == {a \in Asset : asset[a].status # "none"}

Active == {a \in Known : asset[a].status \notin {"rejected", "slicer_rejected"}}

\* A rejected upload does not count against the limit.
IssueUpload(a) ==
    /\ request.status = "draft"
    /\ asset[a].status = "none"
    /\ Cardinality(Active) < MaxModels
    /\ asset' = [asset EXCEPT ![a].status = "pending_upload"]
    /\ UNCHANGED <<request, policy, estimates, quotes, orders, tx, notices>>

\* The browser writes to the store with the signed form.
PutObject(a, object) ==
    /\ asset[a].status = "pending_upload"
    /\ asset' = [asset EXCEPT ![a].object = object]
    /\ UNCHANGED <<request, policy, estimates, quotes, orders, tx, notices>>

CompleteUpload(a) ==
    /\ asset[a].status = "pending_upload"
    /\ asset[a].object # "none"
    /\ asset' = [asset EXCEPT ![a] = IF @.object = "match" THEN [@ EXCEPT !.status = "quarantined"]
                                     ELSE [status |-> "rejected", object |-> "none"]]
    /\ UNCHANGED <<request, policy, estimates, quotes, orders, tx, notices>>

Submit ==
    /\ request.status = "draft"
    /\ Active # {}
    /\ \A a \in Active : asset[a].status = "quarantined"
    /\ request' = [Advanced("analyzing") EXCEPT !.run = "queued", !.runs = 1]
    /\ UNCHANGED <<asset, policy, estimates, quotes, orders, tx, notices>>

-----------------------------------------------------------------------------
(* The analysis: its outcome as AnalysisPipeline delivers it               *)

Rated(status) ==
    asset' = [a \in Asset |-> IF asset[a].status = "quarantined"
                              THEN [asset[a] EXCEPT !.status = status] ELSE asset[a]]

AnalysisSucceeds(measured) ==
    /\ request.status = "analyzing"
    /\ request' = [Advanced("analysis_ready") EXCEPT !.run = "succeeded", !.measured = measured]
    /\ Rated("validated")
    /\ UNCHANGED <<policy, estimates, quotes, orders, tx, notices>>

AnalysisAwaitsProfile ==
    /\ request.status = "analyzing"
    /\ request' = [Advanced("analysis_ready") EXCEPT !.run = "awaiting_profile"]
    /\ Rated("validated")
    /\ UNCHANGED <<policy, estimates, quotes, orders, tx, notices>>

\* One model is at fault, or none is named and all are.
AnalysisFails(culprits, run) ==
    /\ request.status = "analyzing"
    /\ request' = [Advanced("analysis_failed") EXCEPT !.run = run]
    /\ asset' = [a \in Asset |->
                   IF a \in culprits
                   THEN [asset[a] EXCEPT !.status = IF run = "slicer_failed" THEN "slicer_rejected"
                                                    ELSE "rejected"]
                   ELSE asset[a]]
    /\ UNCHANGED <<policy, estimates, quotes, orders, tx, notices>>

\* retry_slicing compares the version it was asked for in the same way as the
\* owner's other requests; AnalysisPipeline follows its steps.
RetrySlicing ==
    /\ request.status \in {"analysis_ready", "analysis_failed"}
    /\ request.run \in {"awaiting_profile", "slicer_failed"}
    /\ \A a \in Known : asset[a].status # "rejected"
    /\ request.runs < MaxRuns
    /\ request' = [Advanced("analyzing") EXCEPT !.run = "queued", !.runs = @ + 1]
    /\ asset' = [a \in Asset |-> IF a \in Known THEN [asset[a] EXCEPT !.status = "quarantined"]
                                 ELSE asset[a]]
    /\ UNCHANGED <<policy, estimates, quotes, orders, tx, notices>>

-----------------------------------------------------------------------------
(* Rate cards and estimates                                                *)

CreatePolicy(p) ==
    /\ policy[p] = "none"
    /\ \A k \in Policy : k < p => policy[k] # "none"
    /\ policy' = [policy EXCEPT ![p] = "draft"]
    /\ UNCHANGED <<request, asset, estimates, quotes, orders, tx, notices>>

ActivePolicies == {p \in Policy : policy[p] = "active"}

BeginActivate(s, p) ==
    /\ policy[p] = "draft"
    /\ \A x \in Session : ~(tx[x].at = "activate" /\ tx[x].of = p)
    /\ Begun(s, "activate", p, IF ActivePolicies = {} THEN 0 ELSE CHOOSE c \in ActivePolicies : TRUE)

\* The lock on the policy that was found makes the slower of two activations
\* wait and then find none; the unique index on the status refuses it.
CommitActivate(s) ==
    LET found == tx[s].version
        rest  == ActivePolicies \ {found}
    IN  /\ tx[s].at = "activate"
        /\ IF rest = {}
           THEN /\ policy' = [p \in Policy |-> IF p = tx[s].of THEN "active"
                                              ELSE IF p \in ActivePolicies THEN "retired"
                                              ELSE policy[p]]
                /\ Done(s)
                /\ UNCHANGED <<request, asset, estimates, quotes, orders, notices>>
           ELSE Rollback(s)

\* Faulty: only the models that were analysed are looked at.
CoveredInPart == request.run = "succeeded" /\ \E a \in Known : asset[a].status = "validated"

\* Every asset of the request must have a result, rejected uploads included.
Covered ==
    /\ request.run = "succeeded"
    /\ \A a \in Known : asset[a].status = "validated"

\* An estimate of this version and card that has not expired is returned.
Reusable(p) ==
    \E k \in DOMAIN estimates :
        estimates[k].version = request.version /\ estimates[k].policy = p /\ estimates[k].live

Estimated(p) ==
    /\ request' = Advanced("estimate_ready")
    /\ quotes' = Relabelled("superseded")
    /\ estimates' = Append(estimates, [version |-> request.version + 1, policy |-> p, live |-> TRUE,
                                       price |-> Breakdown(request.measured, Card[p])])
    /\ UNCHANGED <<asset, policy, orders, tx, notices>>

\* Asked for by the owner with the version the page shows.
CreateEstimate(p) ==
    /\ Len(estimates) < MaxEstimates
    /\ request.status \in {"analysis_ready", "estimate_ready", "quoted"}
    /\ Standing("accepted") = {}
    /\ Covered
    /\ p \in ActivePolicies
    /\ ~Reusable(p)
    /\ Estimated(p)

\* create_pending_estimates: the worker's first estimate, never a second.
FirstEstimate(p) ==
    /\ request.status = "analysis_ready"
    /\ estimates = <<>>
    /\ CreateEstimate(p)

-----------------------------------------------------------------------------
(* Quotations                                                              *)

\* The estimate is this version's, or the standing quotation rests on it.
MayIssue(k) ==
    /\ request.status \in {"estimate_ready", "quoted"}
    /\ estimates[k].live
    /\ \/ estimates[k].version = request.version
       \/ \E q \in Standing("issued") : quotes[q].estimate = k
    /\ Standing("accepted") = {}

BeginIssue(s, k) ==
    /\ Len(quotes) < MaxQuotes
    /\ MayIssue(k)
    /\ Begun(s, "issue", k, request.version)

\* The quotation of estimate k, or of no use when an amount is not positive.
QuoteOf(k, adjustment, fulfilment) ==
    LET price == estimates[k].price
        taxable == price.pre_tax + adjustment
        tax == TaxOn(taxable, Card[estimates[k].policy].tax_bps)
    IN  [estimate |-> k, status |-> "issued", adjustment |-> adjustment, tax |-> tax,
         lines |-> Lines(price, adjustment, tax, fulfilment),
         total |-> taxable + tax + fulfilment, live |-> TRUE]

Issued(k, adjustment, fulfilment) ==
    /\ estimates[k].price.pre_tax + adjustment >= 0
    /\ QuoteOf(k, adjustment, fulfilment).total > 0
    /\ quotes' = Append(Relabelled("superseded"), QuoteOf(k, adjustment, fulfilment))
    /\ request' = Advanced("quoted")

\* Faulty: the request's version is read, not compared.
CommitIssueBlind(s, adjustment, fulfilment) ==
    /\ tx[s].at = "issue"
    /\ Issued(tx[s].of, adjustment, fulfilment)
    /\ Done(s)
    /\ UNCHANGED <<asset, policy, estimates, orders, notices>>

CommitIssue(s, adjustment, fulfilment) ==
    /\ tx[s].at = "issue"
    /\ IF Unchanged(s)
       THEN /\ Issued(tx[s].of, adjustment, fulfilment)
            /\ Done(s)
            /\ UNCHANGED <<asset, policy, estimates, orders, notices>>
       ELSE Rollback(s)

BeginReject(s) ==
    /\ request.status \in {"analysis_ready", "analysis_failed", "estimate_ready", "quoted"}
    /\ Standing("accepted") = {}
    /\ Begun(s, "reject", 0, request.version)

CommitReject(s) ==
    /\ tx[s].at = "reject"
    /\ IF Unchanged(s)
       THEN /\ quotes' = Relabelled("rejected")
            /\ request' = Advanced("rejected")
            /\ Requested(RejectedNotice)
            /\ Done(s)
            /\ UNCHANGED <<asset, policy, estimates, orders, sender, submitted>>
       ELSE Rollback(s)

BeginAccept(s, q) ==
    /\ quotes[q].status = "issued"
    /\ quotes[q].live
    /\ Begun(s, "quote", q, 0)

\* The version is read after the quotation.
ReadRequest(s) ==
    /\ tx[s].at = "quote"
    /\ tx' = [tx EXCEPT ![s].at = "accept", ![s].version = request.version]
    /\ UNCHANGED <<request, asset, policy, estimates, quotes, orders, notices>>

Reconciles(q) == FoldFunction(+, 0, quotes[q].lines) = quotes[q].total

Accepted(q) ==
    /\ quotes' = [quotes EXCEPT ![q].status = "accepted"]
    /\ orders' = orders \cup {[quote |-> q, amount |-> quotes[q].total]}
    /\ request' = [request EXCEPT !.version = @ + 1]
    /\ Requested(AcceptedNotice)

\* Faulty: the comparison of the request's version is taken to be enough.
CommitAcceptAny(s) ==
    /\ tx[s].at = "accept"
    /\ IF Unchanged(s) /\ Reconciles(tx[s].of)
       THEN /\ Accepted(tx[s].of)
            /\ Done(s)
            /\ UNCHANGED <<asset, policy, estimates, sender, submitted>>
       ELSE Rollback(s)

\* The quotation must still be the issued one, and its lines add up.
CommitAccept(s) ==
    /\ tx[s].at = "accept"
    /\ IF Unchanged(s) /\ quotes[tx[s].of].status = "issued" /\ Reconciles(tx[s].of)
       THEN /\ Accepted(tx[s].of)
            /\ Done(s)
            /\ UNCHANGED <<asset, policy, estimates, sender, submitted>>
       ELSE Rollback(s)

\* An expiry is reached; the rows keep their status.  Nothing reads the expiry
\* of an estimate that is not the newest, or of a quotation that is not issued.
EstimateExpires(k) ==
    /\ k = Len(estimates)
    /\ estimates[k].live
    /\ estimates' = [estimates EXCEPT ![k].live = FALSE]
    /\ UNCHANGED <<request, asset, policy, quotes, orders, tx, notices>>

QuoteExpires(q) ==
    /\ quotes[q].status = "issued"
    /\ quotes[q].live
    /\ quotes' = [quotes EXCEPT ![q].live = FALSE]
    /\ UNCHANGED <<request, asset, policy, estimates, orders, tx, notices>>

-----------------------------------------------------------------------------

Drafting ==
    \/ CreateRequest
    \/ Submit
    \/ \E a \in Asset : \/ IssueUpload(a)
                        \/ \E object \in {"match", "other"} : PutObject(a, object)
                        \/ CompleteUpload(a)

Analysis ==
    \/ \E measured \in Measured : AnalysisSucceeds(measured)
    \/ AnalysisAwaitsProfile
    \/ \E culprits \in {{a} : a \in Active} \cup {Active}, run \in {"slicer_failed", "failed"} :
         AnalysisFails(culprits, run)
    \/ RetrySlicing

Rates ==
    \/ \E p \in Policy : CreatePolicy(p) \/ CreateEstimate(p) \/ FirstEstimate(p)
    \/ \E s \in Owner : (\E p \in Policy : BeginActivate(s, p)) \/ CommitActivate(s)

Offering ==
    \/ \E s \in Owner :
         \/ \E k \in DOMAIN estimates : BeginIssue(s, k)
         \/ \E adjustment \in Adjustment, fulfilment \in Fulfilment :
              CommitIssue(s, adjustment, fulfilment)
         \/ BeginReject(s)
         \/ CommitReject(s)
    \/ \E s \in Buyer : (\E q \in DOMAIN quotes : BeginAccept(s, q)) \/ ReadRequest(s) \/ CommitAccept(s)
    \/ \E s \in Session : tx[s] # Idle /\ Rollback(s)

Expiry ==
    \/ \E k \in DOMAIN estimates : EstimateExpires(k)
    \/ \E q \in DOMAIN quotes : QuoteExpires(q)

\* Bound: a notice shares nothing with the offer once it is requested, so its
\* delivery is followed from a few states only, and then alone.
Quiet == estimates = <<>> /\ ActivePolicies = {} /\ \A s \in Session : tx[s] = Idle

Delivering == \E n \in Notice : notice[n].status \notin {"none", "requested"}

Next ==
    \/ ~Delivering /\ (Drafting \/ Analysis \/ Rates \/ Offering \/ Expiry)
    \/ Quiet /\ NoticesNext /\ UNCHANGED offer

Spec == Init /\ [][Next]_vars

-----------------------------------------------------------------------------
(* Properties                                                              *)

\* Whatever the owner's tabs, the buyer's tabs and the worker do at the same
\* time, at most one quotation stands and at most one rate card is active; an
\* order exists exactly for the accepted quotation and asks for its total, and
\* a rejected request leaves nothing to accept.
OneOfferStands ==
    /\ Cardinality(Standing("issued") \cup Standing("accepted")) <= 1
    /\ Cardinality(ActivePolicies) <= 1
    /\ orders = {[quote |-> q, amount |-> quotes[q].total] : q \in Standing("accepted")}
    /\ request.status = "rejected" => Standing("issued") \cup Standing("accepted") = {}

\* What can be accepted, and what was, rests on the newest estimate.
OfferIsCurrent ==
    \A q \in Standing("issued") \cup Standing("accepted") :
        quotes[q].estimate = Len(estimates)

\* The lines of a standing quotation add up to its total, whatever was rounded
\* and adjusted on the way, and no line says less than the rate card asks:
\* otherwise acceptance would be refused for good.
LinesReconcile ==
    \A q \in DOMAIN quotes :
        LET k    == quotes[q].estimate
            card == Card[estimates[k].policy]
        IN  /\ Reconciles(q)
            /\ estimates[k].price.material * 1000 >= request.measured.filament_mg * card.material_rate
            /\ estimates[k].price.machine * 3600
                 >= request.measured.duration_seconds * card.machine_rate
            /\ estimates[k].price.pre_tax >= card.minimum_order
            /\ quotes[q].tax * 10000
                 >= (estimates[k].price.pre_tax + quotes[q].adjustment) * card.tax_bps

\* A request that was submitted has no upload under way, and only a request
\* whose every upload was received, analysed and sliced gets a price.
PricedModelsAreWhole ==
    /\ request.status \notin {"none", "draft"} =>
         /\ Known # {}
         /\ \A a \in Known : asset[a].status # "pending_upload"
    /\ estimates # <<>> => \A a \in Known : asset[a] = [status |-> "validated", object |-> "match"]
=============================================================================
