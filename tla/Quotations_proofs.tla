--------------------------- MODULE Quotations_proofs ---------------------------
(***************************************************************************)
(* Proofs about Quotations for any number of uploads, rate cards, tabs,    *)
(* estimates and quotations: one offer stands, on the newest estimate, its *)
(* lines add up to its total, what it prices was received, analysed and    *)
(* sliced, and the notice the end of the request leaves keeps its          *)
(* contract.                                                               *)
(***************************************************************************)
EXTENDS Quotations, Notices_proofs, SequenceTheorems, FiniteSetTheorems, WellFoundedInduction,
        TLAPS

-----------------------------------------------------------------------------
(* The arithmetic of a price, for every rate card and every measurement    *)

\* Rounding up never understates and overstates by less than one unit.
LEMMA CeilRatioBounds ==
    ASSUME NEW n \in Nat, NEW d \in {1000, 3600, 10000}
    PROVE  /\ CeilRatio(n, d) \in Nat
           /\ CeilRatio(n, d) * d >= n
           /\ CeilRatio(n, d) * d < n + d
<1>1. CASE d = 1000
  BY <1>1 DEF CeilRatio
<1>2. CASE d = 3600
  BY <1>2 DEF CeilRatio
<1>3. CASE d = 10000
  BY <1>3 DEF CeilRatio
<1> QED
  BY <1>1, <1>2, <1>3

LEMMA ProductIsNat == ASSUME NEW a \in Nat, NEW b \in Nat PROVE a * b \in Nat
  OBVIOUS

\* What is charged for material and machine time covers the rate card's price
\* of what was measured, and the excess is less than one paisa.
THEOREM ChargesCoverCosts ==
    ASSUME NEW x \in Measurement, NEW card \in RateCard
    PROVE  /\ MaterialCost(x, card) \in Nat
           /\ MaterialCost(x, card) * 1000 >= x.filament_mg * card.material_rate
           /\ MaterialCost(x, card) * 1000 < x.filament_mg * card.material_rate + 1000
           /\ MachineCost(x, card) \in Nat
           /\ MachineCost(x, card) * 3600 >= x.duration_seconds * card.machine_rate
           /\ MachineCost(x, card) * 3600 < x.duration_seconds * card.machine_rate + 3600
<1>1. /\ x.filament_mg * card.material_rate \in Nat
      /\ x.duration_seconds * card.machine_rate \in Nat
  <2>1. /\ x.filament_mg \in Nat /\ x.duration_seconds \in Nat
        /\ card.material_rate \in Nat /\ card.machine_rate \in Nat
    BY DEF Measurement, RateCard
  <2> QED
    BY <2>1, ProductIsNat
<1>2. \A n \in Nat : /\ CeilRatio(n, 1000) \in Nat
                      /\ CeilRatio(n, 1000) * 1000 >= n
                      /\ CeilRatio(n, 1000) * 1000 < n + 1000
  BY CeilRatioBounds
<1>3. \A n \in Nat : /\ CeilRatio(n, 3600) \in Nat
                      /\ CeilRatio(n, 3600) * 3600 >= n
                      /\ CeilRatio(n, 3600) * 3600 < n + 3600
  BY CeilRatioBounds
<1>4. /\ MaterialCost(x, card) = CeilRatio(x.filament_mg * card.material_rate, 1000)
      /\ MachineCost(x, card) = CeilRatio(x.duration_seconds * card.machine_rate, 3600)
  BY DEF MaterialCost, MachineCost
<1> DEFINE material == x.filament_mg * card.material_rate
           machine  == x.duration_seconds * card.machine_rate
<1> HIDE DEF material, machine
<1>5. /\ CeilRatio(material, 1000) \in Nat
      /\ CeilRatio(material, 1000) * 1000 >= material
      /\ CeilRatio(material, 1000) * 1000 < material + 1000
  BY <1>1, <1>2 DEF material
<1>6. /\ CeilRatio(machine, 3600) \in Nat
      /\ CeilRatio(machine, 3600) * 3600 >= machine
      /\ CeilRatio(machine, 3600) * 3600 < machine + 3600
  BY <1>1, <1>3 DEF machine
<1> QED
  BY <1>4, <1>5, <1>6 DEF material, machine

LEMMA TaxOnTyped ==
    ASSUME NEW amount \in Nat, NEW bps \in Nat
    PROVE  TaxOn(amount, bps) \in Nat /\ TaxOn(amount, bps) * 10000 >= amount * bps
<1> DEFINE n == amount * bps
<1>1. n \in Nat
  BY ProductIsNat
<1>2. TaxOn(amount, bps) = CeilRatio(n, 10000)
  BY DEF TaxOn
<1> HIDE DEF n
<1>3. TaxOn(amount, bps) \in Nat /\ TaxOn(amount, bps) * 10000 >= n
  BY <1>1, <1>2, CeilRatioBounds
<1> QED
  BY <1>3 DEF n

\* The components of an estimate are amounts, add up to the price before tax,
\* and the price is at least the minimum order.
THEOREM ComponentsAddUp ==
    ASSUME NEW x \in Measurement, NEW card \in RateCard
    PROVE  LET price == Breakdown(x, card)
           IN  /\ price \in [{"material", "machine", "setup", "contingency",
                              "minimum_adjustment", "pre_tax"} -> Nat]
               /\ price.pre_tax = price.material + price.machine + price.setup
                                  + price.contingency + price.minimum_adjustment
               /\ price.pre_tax >= card.minimum_order
<1> DEFINE subtotal    == MaterialCost(x, card) + MachineCost(x, card) + card.setup_fee
           contingency == CeilRatio(subtotal * card.contingency_bps, 10000)
           pre_tax     == AtLeast(subtotal + contingency, card.minimum_order)
<1>1. card.setup_fee \in Nat /\ card.contingency_bps \in Nat /\ card.minimum_order \in Nat
  <2>1. card.contingency_bps \in BasisPoints
    BY DEF RateCard
  <2>2. card.setup_fee \in Nat /\ card.minimum_order \in Nat
    BY DEF RateCard
  <2>3. BasisPoints \subseteq Nat
    BY DEF BasisPoints
  <2> HIDE DEF subtotal, contingency, pre_tax
  <2> QED
    BY <2>1, <2>2, <2>3
<1>2. MaterialCost(x, card) \in Nat /\ MachineCost(x, card) \in Nat /\ subtotal \in Nat
  <2>1. MaterialCost(x, card) \in Nat /\ MachineCost(x, card) \in Nat
    BY ChargesCoverCosts
  <2> QED
    BY <1>1, <2>1
<1>3. contingency \in Nat
  <2> DEFINE n == subtotal * card.contingency_bps
  <2>1. n \in Nat
    BY <1>1, <1>2, ProductIsNat
  <2> HIDE DEF n
  <2>2. CeilRatio(n, 10000) \in Nat
    BY <2>1, CeilRatioBounds
  <2> QED
    BY <2>2 DEF n
<1>4. /\ pre_tax \in Nat /\ pre_tax >= subtotal + contingency
      /\ pre_tax >= card.minimum_order
  <2> HIDE DEF subtotal, contingency
  <2> QED
    BY <1>1, <1>2, <1>3 DEF AtLeast
<1>5. Breakdown(x, card) =
        [material |-> MaterialCost(x, card), machine |-> MachineCost(x, card),
         setup |-> card.setup_fee, contingency |-> contingency,
         minimum_adjustment |-> pre_tax - (subtotal + contingency), pre_tax |-> pre_tax]
  BY DEF Breakdown
<1>6. pre_tax - (subtotal + contingency) \in Nat
  <2> HIDE DEF subtotal, contingency, pre_tax
  <2> QED
    BY <1>2, <1>3, <1>4
<1>7. pre_tax = MaterialCost(x, card) + MachineCost(x, card) + card.setup_fee
                + contingency + (pre_tax - (subtotal + contingency))
  <2>1. \A p, c, s \in Nat : p = s + c + (p - (s + c))
    OBVIOUS
  <2>2. pre_tax = subtotal + contingency + (pre_tax - (subtotal + contingency))
    <3> HIDE DEF subtotal, contingency, pre_tax
    <3> QED
      BY <1>2, <1>3, <1>4, <2>1
  <2> QED
    BY <2>2
<1> HIDE DEF subtotal, contingency, pre_tax
<1> QED
  BY <1>1, <1>2, <1>3, <1>4, <1>5, <1>6, <1>7

\* The lines of a quotation are whole amounts, and add up to the price before
\* tax, the owner's adjustment, the tax and the fulfilment charge.
THEOREM LinesAddUp ==
    ASSUME NEW x \in Measurement, NEW card \in RateCard, NEW adjustment \in Int,
           NEW tax \in Nat, NEW fulfilment \in Nat
    PROVE  LET price == Breakdown(x, card)
               lines == Lines(price, adjustment, tax, fulfilment)
           IN  /\ lines \in Seq(Int) /\ Len(lines) = 8
               /\ lines[1] + lines[2] + lines[3] + lines[4] + lines[5] + lines[6] + lines[7] + lines[8]
                    = price.pre_tax + adjustment + tax + fulfilment
<1> DEFINE price == Breakdown(x, card)
           lines == Lines(price, adjustment, tax, fulfilment)
<1>1. /\ price.material \in Nat /\ price.machine \in Nat /\ price.setup \in Nat
      /\ price.contingency \in Nat /\ price.minimum_adjustment \in Nat /\ price.pre_tax \in Nat
      /\ price.pre_tax = price.material + price.machine + price.setup
                         + price.contingency + price.minimum_adjustment
  BY ComponentsAddUp
<1> HIDE DEF price
<1>2. lines = <<price.material, price.machine, price.setup, price.contingency,
                price.minimum_adjustment, adjustment, tax, fulfilment>>
  BY DEF Lines
<1>3. lines \in Seq(Int) /\ Len(lines) = 8
  BY <1>1, <1>2
<1>4. /\ lines[1] = price.material /\ lines[2] = price.machine /\ lines[3] = price.setup
      /\ lines[4] = price.contingency /\ lines[5] = price.minimum_adjustment
      /\ lines[6] = adjustment /\ lines[7] = tax /\ lines[8] = fulfilment
  BY <1>2
<1> HIDE DEF lines
<1>5. lines[1] + lines[2] + lines[3] + lines[4] + lines[5] + lines[6] + lines[7] + lines[8]
        = price.pre_tax + adjustment + tax + fulfilment
  BY <1>1, <1>4
<1> QED
  BY <1>3, <1>5 DEF price, lines

-----------------------------------------------------------------------------
(* The inductive invariant                                                 *)

RequestShape == [status : RequestStatus, version : Nat, run : RunStatus, runs : Int,
                 measured : Measured \cup {Nothing}]

\* QuoteRow without the bounds of a run.
OfferRow == [estimate : Nat, status : QuoteStatus, adjustment : Int, tax : Int,
             lines : Seq(Int), total : Int, live : BOOLEAN]

Shape ==
    /\ request \in RequestShape
    /\ request.status = "none" => request.version = 0
    /\ estimates \in Seq(EstimateRow)
    /\ quotes \in Seq(OfferRow)
    /\ tx \in [Session -> Tx]

\* The newest estimate alone can be of the request's version: a later estimate
\* or any other change of the offer has incremented it.
VersionsGrow ==
    \A k \in 1..Len(estimates) :
        /\ estimates[k].version <= request.version
        /\ k < Len(estimates) => estimates[k].version < request.version

\* What a session concluded from its reads is still true if the version it
\* read is still the request's.
ReadsStillHold(s) ==
    LET t == tx[s]
    IN  /\ t.at \in {"issue", "reject", "accept"} => t.version <= request.version
        /\ t.at \in {"issue", "reject"} /\ t.version = request.version => Standing("accepted") = {}
        /\ t.at = "issue" /\ t.version = request.version
             => Len(estimates) > 0 /\ t.of = Len(estimates)
        /\ t.at \in {"quote", "accept"} => t.of \in 1..Len(quotes)

Offered == Standing("issued") \cup Standing("accepted")

\* OneOfferStands without cardinalities; before its first submission a request
\* offers nothing either.
AtMostOne ==
    /\ \A p, q \in Offered : p = q
    /\ \A p, q \in ActivePolicies : p = q
    /\ orders = {[quote |-> q, amount |-> quotes[q].total] : q \in Standing("accepted")}
    /\ request.status \in {"none", "rejected"} => Offered = {}

OfferInv ==
    /\ Shape
    /\ VersionsGrow
    /\ \A s \in Session : ReadsStillHold(s)
    /\ AtMostOne
    /\ OfferIsCurrent

-----------------------------------------------------------------------------
(* Rows                                                                    *)

LEMMA RowsTyped ==
    ASSUME Shape
    PROVE  /\ request.version \in Nat
           /\ Len(estimates) \in Nat /\ DOMAIN estimates = 1..Len(estimates)
           /\ \A k \in 1..Len(estimates) : estimates[k] \in EstimateRow
           /\ Len(quotes) \in Nat /\ DOMAIN quotes = 1..Len(quotes)
           /\ \A q \in 1..Len(quotes) : quotes[q] \in OfferRow
<1>1. request.version \in Nat
  BY DEF Shape, RequestShape
<1>2. estimates \in Seq(EstimateRow) /\ quotes \in Seq(OfferRow)
  BY DEF Shape
<1> QED
  BY <1>1, <1>2, LenProperties, ElementOfSeq

\* Relabelling changes the status of what was issued and nothing else.
LEMMA RelabelledRows ==
    ASSUME quotes \in Seq(OfferRow), NEW status \in QuoteStatus
    PROVE  /\ Relabelled(status) \in Seq(OfferRow)
           /\ Len(Relabelled(status)) = Len(quotes)
           /\ \A q \in 1..Len(quotes) :
                /\ Relabelled(status)[q].estimate = quotes[q].estimate
                /\ Relabelled(status)[q].total = quotes[q].total
                /\ Relabelled(status)[q].status
                     = IF quotes[q].status = "issued" THEN status ELSE quotes[q].status
<1>1. /\ Len(quotes) \in Nat /\ DOMAIN quotes = 1..Len(quotes)
      /\ \A q \in 1..Len(quotes) : quotes[q] \in OfferRow
  BY LenProperties, ElementOfSeq
<1>2. \A r \in OfferRow : /\ [r EXCEPT !.status = status] \in OfferRow
                          /\ [r EXCEPT !.status = status].estimate = r.estimate
                          /\ [r EXCEPT !.status = status].total = r.total
                          /\ [r EXCEPT !.status = status].status = status
  BY DEF OfferRow
<1> DEFINE row(q) == IF quotes[q].status = "issued"
                     THEN [quotes[q] EXCEPT !.status = status] ELSE quotes[q]
<1>3. Relabelled(status) = [q \in 1..Len(quotes) |-> row(q)]
  BY <1>1 DEF Relabelled
<1>4. \A q \in 1..Len(quotes) : /\ row(q) \in OfferRow
                                /\ row(q).estimate = quotes[q].estimate
                                /\ row(q).total = quotes[q].total
                                /\ row(q).status = IF quotes[q].status = "issued" THEN status
                                                   ELSE quotes[q].status
  BY <1>1, <1>2
<1> HIDE DEF row
<1>5. [q \in 1..Len(quotes) |-> row(q)] \in Seq(OfferRow)
  BY <1>1, <1>4
<1>6. Len([q \in 1..Len(quotes) |-> row(q)]) = Len(quotes)
  BY <1>1
<1> QED
  BY <1>3, <1>4, <1>5, <1>6

\* A quotation that is accepted or expires.
LEMMA RowUpdated ==
    ASSUME quotes \in Seq(OfferRow), NEW n \in 1..Len(quotes), NEW row \in OfferRow
    PROVE  /\ [quotes EXCEPT ![n] = row] \in Seq(OfferRow)
           /\ Len([quotes EXCEPT ![n] = row]) = Len(quotes)
           /\ \A q \in 1..Len(quotes) :
                [quotes EXCEPT ![n] = row][q] = IF q = n THEN row ELSE quotes[q]
  BY ExceptSeq

LEMMA RowAdded ==
    ASSUME NEW S, NEW rows \in Seq(S), NEW row \in S
    PROVE  /\ Append(rows, row) \in Seq(S)
           /\ Len(Append(rows, row)) = Len(rows) + 1
           /\ \A k \in 1..Len(rows) : Append(rows, row)[k] = rows[k]
           /\ Append(rows, row)[Len(rows) + 1] = row
  BY AppendProperties

LEMMA IdleTyped == Idle \in Tx /\ Idle.at = "idle"
  BY DEF Idle, Tx

-----------------------------------------------------------------------------
(* Sessions                                                                *)

\* No session has read anything new.
SessionsKept == tx' \in [Session -> Tx] /\ \A s \in Session : tx'[s] \in {tx[s], Idle}

LEMMA DoneKeeps ==
    ASSUME tx \in [Session -> Tx], NEW s
    PROVE  /\ Done(s) => SessionsKept
           /\ UNCHANGED tx => SessionsKept
  BY IdleTyped DEF Done, SessionsKept

\* What was read before the version was incremented can no longer be used.
LEMMA OldReadsAreVoid ==
    ASSUME Shape, SessionsKept, \A s \in Session : ReadsStillHold(s),
           request'.version \in Nat, request'.version > request.version,
           Len(quotes') \in Nat, Len(quotes') >= Len(quotes)
    PROVE  \A s \in Session : ReadsStillHold(s)'
<1> SUFFICES ASSUME NEW s \in Session PROVE ReadsStillHold(s)'
  OBVIOUS
<1>1. tx[s] \in Tx /\ request.version \in Nat /\ Len(quotes) \in Nat
  BY RowsTyped DEF Shape
<1>2. CASE tx'[s] = Idle
  BY <1>2, IdleTyped DEF ReadsStillHold
<1>3. CASE tx'[s] = tx[s]
  <2>1. tx[s].version \in Nat /\ tx[s].of \in Nat
    BY <1>1 DEF Tx
  <2>2. tx[s].at \in {"issue", "reject", "accept"} => tx[s].version <= request.version
    BY DEF ReadsStillHold
  <2>3. tx[s].at \in {"quote", "accept"} => tx[s].of \in 1..Len(quotes)
    BY DEF ReadsStillHold
  <2>4. tx[s].at \in {"issue", "reject", "accept"}
          => tx[s].version <= request'.version /\ tx[s].version # request'.version
    BY <1>1, <2>1, <2>2
  <2>5. tx[s].at \in {"quote", "accept"} => tx[s].of \in 1..Len(quotes')
    BY <1>1, <2>3
  <2> QED
    BY <1>3, <2>4, <2>5 DEF ReadsStillHold
<1> QED
  BY <1>2, <1>3 DEF SessionsKept

\* A step that leaves the version alone leaves what was read true.
LEMMA ReadsKept ==
    ASSUME SessionsKept, \A s \in Session : ReadsStillHold(s), request' = request,
           Len(estimates') = Len(estimates), Len(quotes') = Len(quotes),
           Standing("accepted")' = Standing("accepted")
    PROVE  \A s \in Session : ReadsStillHold(s)'
<1> SUFFICES ASSUME NEW s \in Session PROVE ReadsStillHold(s)'
  OBVIOUS
<1>1. CASE tx'[s] = Idle
  BY <1>1, IdleTyped DEF ReadsStillHold
<1>2. CASE tx'[s] = tx[s]
  BY <1>2 DEF ReadsStillHold
<1> QED
  BY <1>1, <1>2 DEF SessionsKept

-----------------------------------------------------------------------------
(* The steps that leave the offer alone                                    *)

LEMMA Initially == Init => OfferInv
<1> SUFFICES ASSUME Init PROVE OfferInv
  OBVIOUS
<1>1. request \in RequestShape /\ request.version = 0 /\ request.status = "none"
  BY DEF Init, RequestShape, RequestStatus, RunStatus
<1>2. /\ estimates = <<>> /\ estimates \in Seq(EstimateRow) /\ Len(estimates) = 0
      /\ quotes = <<>> /\ quotes \in Seq(OfferRow) /\ Len(quotes) = 0 /\ DOMAIN quotes = {}
  BY EmptySeq DEF Init
<1>3. tx \in [Session -> Tx] /\ \A s \in Session : tx[s].at = "idle"
  BY IdleTyped DEF Init
<1>4. Shape
  BY <1>1, <1>2, <1>3 DEF Shape
<1>5. VersionsGrow
  BY <1>2 DEF VersionsGrow
<1>6. \A s \in Session : ReadsStillHold(s)
  BY <1>3 DEF ReadsStillHold
<1>7. Standing("issued") = {} /\ Standing("accepted") = {} /\ ActivePolicies = {}
  BY <1>2 DEF Standing, ActivePolicies, Init
<1>8. AtMostOne /\ OfferIsCurrent
  BY <1>7 DEF AtMostOne, OfferIsCurrent, Offered, Init
<1> QED
  BY <1>4, <1>5, <1>6, <1>8 DEF OfferInv

\* Requests that read, fail or die, uploads, expiries of the clock outside
\* the offer and everything that happens to notices.
LEMMA OfferUntouched ==
    ASSUME OfferInv, UNCHANGED <<request, policy, estimates, quotes, orders>>,
           tx' \in [Session -> Tx], \A s \in Session : ReadsStillHold(s)'
    PROVE  OfferInv'
<1>1. Shape' /\ VersionsGrow'
  BY DEF OfferInv, Shape, VersionsGrow
<1>2. /\ Standing("issued")' = Standing("issued") /\ Standing("accepted")' = Standing("accepted")
      /\ ActivePolicies' = ActivePolicies
  BY DEF Standing, ActivePolicies
<1>3. AtMostOne' /\ OfferIsCurrent'
  BY <1>2 DEF OfferInv, AtMostOne, OfferIsCurrent, Offered
<1> QED
  BY <1>1, <1>3 DEF OfferInv

LEMMA SessionsLeave ==
    ASSUME OfferInv, UNCHANGED <<request, policy, estimates, quotes, orders>>, SessionsKept
    PROVE  OfferInv'
<1>1. Standing("accepted")' = Standing("accepted")
  BY DEF Standing
<1>2. \A s \in Session : ReadsStillHold(s)'
  BY <1>1, ReadsKept DEF OfferInv
<1> QED
  BY <1>2, OfferUntouched DEF SessionsKept

\* A session begins or goes on with what it has just read.
LEMMA SessionReads ==
    ASSUME OfferInv, UNCHANGED <<request, policy, estimates, quotes, orders>>,
           NEW s \in Session, NEW t \in Tx, tx' = [tx EXCEPT ![s] = t],
           t.version <= request.version \/ t.at = "quote" \/ t.at = "activate",
           t.at \in {"issue", "reject"} => Standing("accepted") = {},
           t.at = "issue" => Len(estimates) > 0 /\ t.of = Len(estimates),
           t.at \in {"quote", "accept"} => t.of \in 1..Len(quotes)
    PROVE  OfferInv'
<1>1. tx \in [Session -> Tx] /\ \A x \in Session : ReadsStillHold(x)
  BY DEF OfferInv, Shape
<1>2. Standing("accepted")' = Standing("accepted")
  BY DEF Standing
<1>3. tx' \in [Session -> Tx] /\ tx'[s] = t /\ \A x \in Session \ {s} : tx'[x] = tx[x]
  BY <1>1
<1>4. ReadsStillHold(s)'
  BY <1>2, <1>3 DEF ReadsStillHold
<1>5. \A x \in Session \ {s} : ReadsStillHold(x)'
  BY <1>1, <1>2, <1>3 DEF ReadsStillHold
<1> QED
  BY <1>3, <1>4, <1>5, OfferUntouched

LEMMA BeginIssueKeeps ==
    ASSUME OfferInv, NEW s \in Session, NEW k \in DOMAIN estimates, BeginIssue(s, k)
    PROVE  OfferInv'
<1>1. /\ request.version \in Nat /\ Len(estimates) \in Nat
      /\ k \in 1..Len(estimates) /\ DOMAIN quotes = 1..Len(quotes)
      /\ \A j \in 1..Len(estimates) : estimates[j].version \in Nat
  BY RowsTyped DEF OfferInv, EstimateRow
<1>2. k = Len(estimates)
  <2>1. CASE estimates[k].version = request.version
    BY <1>1, <2>1 DEF OfferInv, VersionsGrow
  <2>2. CASE \E q \in Standing("issued") : quotes[q].estimate = k
    BY <2>2 DEF OfferInv, OfferIsCurrent
  <2> QED
    BY <2>1, <2>2 DEF BeginIssue, MayIssue
<1> DEFINE t == [at |-> "issue", of |-> k, version |-> request.version]
<1>3. t \in Tx
  BY <1>1 DEF Tx
<1>4. /\ UNCHANGED <<request, policy, estimates, quotes, orders>> /\ tx' = [tx EXCEPT ![s] = t]
      /\ Standing("accepted") = {}
  BY DEF BeginIssue, Begun, MayIssue
<1>5. t.at = "issue" /\ t.of = k /\ t.version <= request.version /\ Len(estimates) > 0
  BY <1>1
<1> HIDE DEF t
<1> QED
  BY <1>2, <1>3, <1>4, <1>5, SessionReads

LEMMA BeginRejectKeeps ==
    ASSUME OfferInv, NEW s \in Session, BeginReject(s)
    PROVE  OfferInv'
<1> DEFINE t == [at |-> "reject", of |-> 0, version |-> request.version]
<1>1. request.version \in Nat
  BY RowsTyped DEF OfferInv
<1>2. t \in Tx
  BY <1>1 DEF Tx
<1>3. /\ UNCHANGED <<request, policy, estimates, quotes, orders>> /\ tx' = [tx EXCEPT ![s] = t]
      /\ Standing("accepted") = {}
  BY DEF BeginReject, Begun
<1>4. t.at = "reject" /\ t.version <= request.version
  BY <1>1
<1> HIDE DEF t
<1> QED
  BY <1>2, <1>3, <1>4, SessionReads

LEMMA BeginAcceptKeeps ==
    ASSUME OfferInv, NEW s \in Session, NEW q \in DOMAIN quotes, BeginAccept(s, q)
    PROVE  OfferInv'
<1> DEFINE t == [at |-> "quote", of |-> q, version |-> 0]
<1>1. q \in 1..Len(quotes) /\ Len(quotes) \in Nat
  BY RowsTyped DEF OfferInv
<1>2. t \in Tx
  BY <1>1 DEF Tx
<1>3. UNCHANGED <<request, policy, estimates, quotes, orders>> /\ tx' = [tx EXCEPT ![s] = t]
  BY DEF BeginAccept, Begun
<1> QED
  BY <1>1, <1>2, <1>3, SessionReads

LEMMA VersionRead ==
    ASSUME NEW r \in Tx, NEW n \in Nat
    PROVE  LET t == [r EXCEPT !.at = "accept", !.version = n]
           IN  t \in Tx /\ t.at = "accept" /\ t.of = r.of /\ t.version = n
<1> DEFINE u == [r EXCEPT !.at = "accept"]
           t == [r EXCEPT !.at = "accept", !.version = n]
<1>1. u \in Tx /\ u.at = "accept" /\ u.of = r.of
  BY DEF Tx
<1>2. t = [u EXCEPT !.version = n]
  OBVIOUS
<1> HIDE DEF u
<1>3. [u EXCEPT !.version = n] \in Tx
  BY <1>1 DEF Tx
<1>4. t.at = u.at /\ t.of = u.of /\ t.version = n
  BY <1>1, <1>2 DEF Tx
<1> QED
  BY <1>1, <1>2, <1>3, <1>4

LEMMA ReadRequestKeeps ==
    ASSUME OfferInv, NEW s \in Session, ReadRequest(s)
    PROVE  OfferInv'
<1> DEFINE t == [tx[s] EXCEPT !.at = "accept", !.version = request.version]
<1>1. tx \in [Session -> Tx] /\ tx[s] \in Tx /\ request.version \in Nat
  BY RowsTyped DEF OfferInv, Shape
<1>2. t \in Tx /\ t.at = "accept" /\ t.of = tx[s].of /\ t.version = request.version
  BY <1>1, VersionRead, Zenon
<1>3. UNCHANGED <<request, policy, estimates, quotes, orders>> /\ tx' = [tx EXCEPT ![s] = t]
  BY <1>1 DEF ReadRequest
<1>4. tx[s].of \in 1..Len(quotes)
  BY DEF OfferInv, ReadsStillHold, ReadRequest
<1> HIDE DEF t
<1>5. t.version <= request.version
  BY <1>1, <1>2
<1> QED
  BY <1>2, <1>3, <1>4, <1>5, SessionReads

LEMMA BeginActivateKeeps ==
    ASSUME OfferInv, NEW s \in Session, NEW p \in Policy, BeginActivate(s, p)
    PROVE  OfferInv'
<1> DEFINE found == IF ActivePolicies = {} THEN 0 ELSE CHOOSE c \in ActivePolicies : TRUE
           t == [at |-> "activate", of |-> p, version |-> found]
<1>1. Policy \subseteq Nat
  BY CardAssumption
<1>2. found \in Nat
  BY <1>1 DEF ActivePolicies
<1>3. UNCHANGED <<request, policy, estimates, quotes, orders>> /\ tx' = [tx EXCEPT ![s] = t]
  BY DEF BeginActivate, Begun
<1> HIDE DEF found
<1>4. t \in Tx
  BY <1>1, <1>2 DEF Tx
<1> QED
  BY <1>3, <1>4, SessionReads

-----------------------------------------------------------------------------
(* Rate cards                                                              *)

LEMMA PolicyKeeps ==
    ASSUME OfferInv, UNCHANGED <<request, estimates, quotes, orders>>, SessionsKept,
           \A p, q \in ActivePolicies' : p = q
    PROVE  OfferInv'
<1>1. /\ Standing("issued")' = Standing("issued") /\ Standing("accepted")' = Standing("accepted")
  BY DEF Standing
<1>2. \A s \in Session : ReadsStillHold(s)'
  BY <1>1, ReadsKept DEF OfferInv
<1>3. Shape' /\ VersionsGrow'
  BY DEF OfferInv, Shape, VersionsGrow, SessionsKept
<1>4. AtMostOne' /\ OfferIsCurrent'
  BY <1>1 DEF OfferInv, AtMostOne, OfferIsCurrent, Offered
<1> QED
  BY <1>2, <1>3, <1>4 DEF OfferInv

LEMMA CreatePolicyKeeps ==
    ASSUME OfferInv, NEW n \in Policy, CreatePolicy(n)
    PROVE  OfferInv'
<1>1. ActivePolicies' \subseteq ActivePolicies
  BY DEF CreatePolicy, ActivePolicies
<1>2. \A p, q \in ActivePolicies : p = q
  BY DEF OfferInv, AtMostOne
<1>3. SessionsKept
  BY DoneKeeps DEF CreatePolicy, OfferInv, Shape
<1> QED
  BY <1>1, <1>2, <1>3, PolicyKeeps DEF CreatePolicy

\* Nothing active is left when the new card becomes active.
LEMMA CommitActivateKeeps ==
    ASSUME OfferInv, NEW s \in Session, CommitActivate(s)
    PROVE  OfferInv'
<1>1. SessionsKept
  BY DoneKeeps DEF CommitActivate, Rollback, OfferInv, Shape
<1>2. CASE UNCHANGED policy
  BY <1>1, <1>2, SessionsLeave DEF CommitActivate, Rollback
<1>3. CASE policy' = [p \in Policy |-> IF p = tx[s].of THEN "active"
                                      ELSE IF p \in ActivePolicies THEN "retired"
                                      ELSE policy[p]]
  <2>1. \A p \in ActivePolicies' : p = tx[s].of
    BY <1>3 DEF ActivePolicies
  <2> QED
    BY <1>1, <2>1, PolicyKeeps DEF CommitActivate, Rollback
<1> QED
  BY <1>2, <1>3 DEF CommitActivate, Rollback

-----------------------------------------------------------------------------
(* The request goes on                                                     *)

LEMMA RequestAdvanced ==
    ASSUME request \in RequestShape, NEW status \in RequestStatus
    PROVE  /\ Advanced(status) \in RequestShape
           /\ Advanced(status).version = request.version + 1
           /\ Advanced(status).status = status
<1> DEFINE u == [request EXCEPT !.status = status]
<1>1. u \in RequestShape /\ u.version = request.version /\ u.status = status
  BY DEF RequestShape
<1>2. Advanced(status) = [u EXCEPT !.version = @ + 1]
  BY DEF Advanced
<1> HIDE DEF u
<1>3. [u EXCEPT !.version = @ + 1] \in RequestShape
  BY <1>1 DEF RequestShape
<1>4. [u EXCEPT !.version = @ + 1].version = u.version + 1
  BY <1>1 DEF RequestShape
<1>5. [u EXCEPT !.version = @ + 1].status = u.status
  BY <1>1 DEF RequestShape
<1> QED
  BY <1>1, <1>2, <1>3, <1>4, <1>5

\* The fields an analysis writes beside status and version.
LEMMA RunWritten ==
    ASSUME NEW r \in RequestShape, NEW run \in RunStatus
    PROVE  /\ [r EXCEPT !.run = run] \in RequestShape
           /\ [r EXCEPT !.run = run].version = r.version
           /\ [r EXCEPT !.run = run].status = r.status
  BY DEF RequestShape

LEMMA RunsCounted ==
    ASSUME NEW r \in RequestShape, NEW n \in Int
    PROVE  /\ [r EXCEPT !.runs = n] \in RequestShape
           /\ [r EXCEPT !.runs = n].version = r.version
           /\ [r EXCEPT !.runs = n].status = r.status
  BY DEF RequestShape

LEMMA MeasuredWritten ==
    ASSUME NEW r \in RequestShape, NEW measured \in Measured
    PROVE  /\ [r EXCEPT !.measured = measured] \in RequestShape
           /\ [r EXCEPT !.measured = measured].version = r.version
           /\ [r EXCEPT !.measured = measured].status = r.status
  BY DEF RequestShape

LEMMA RequestGoesOn ==
    ASSUME OfferInv, UNCHANGED <<policy, estimates, quotes, orders, tx>>,
           request' \in RequestShape, request'.status \notin {"none", "rejected"},
           request'.version > request.version
    PROVE  OfferInv'
<1>1. request.version \in Nat /\ request'.version \in Nat
  BY RowsTyped DEF OfferInv, RequestShape
<1>2. Len(quotes) \in Nat /\ \A k \in 1..Len(estimates) : estimates[k].version \in Nat
  BY RowsTyped DEF OfferInv, EstimateRow
<1>3. Shape'
  BY DEF OfferInv, Shape
<1>4. VersionsGrow'
  BY <1>1, <1>2 DEF OfferInv, VersionsGrow
<1>5. SessionsKept
  BY DoneKeeps DEF OfferInv, Shape
<1>6. Len(quotes') \in Nat /\ Len(quotes') >= Len(quotes)
  BY <1>2
<1>7. \A s \in Session : ReadsStillHold(s)'
  BY <1>1, <1>5, <1>6, OldReadsAreVoid DEF OfferInv
<1>8. /\ Standing("issued")' = Standing("issued") /\ Standing("accepted")' = Standing("accepted")
      /\ ActivePolicies' = ActivePolicies
  BY DEF Standing, ActivePolicies
<1>9. AtMostOne' /\ OfferIsCurrent'
  BY <1>8 DEF OfferInv, AtMostOne, OfferIsCurrent, Offered
<1> QED
  BY <1>3, <1>4, <1>7, <1>9 DEF OfferInv

LEMMA CreateRequestKeeps == ASSUME OfferInv, CreateRequest PROVE OfferInv'
<1> DEFINE u == [request EXCEPT !.status = "draft"]
<1>1. request \in RequestShape /\ request.version = 0
  BY DEF OfferInv, Shape, CreateRequest
<1>2. u \in RequestShape /\ u.status = "draft"
  BY <1>1 DEF RequestShape, RequestStatus
<1>3. request' = [u EXCEPT !.version = 1]
  BY DEF CreateRequest
<1> HIDE DEF u
<1>4. request' \in RequestShape /\ request'.version = 1 /\ request'.status = "draft"
  BY <1>2, <1>3 DEF RequestShape
<1> QED
  BY <1>1, <1>4, RequestGoesOn DEF CreateRequest

\* Submission and retry queue a run, a verdict ends one.
LEMMA QueuedRequest ==
    ASSUME OfferInv, NEW n \in Int,
           request' = [Advanced("analyzing") EXCEPT !.run = "queued", !.runs = n]
    PROVE  /\ request' \in RequestShape /\ request'.status = "analyzing"
           /\ request'.version > request.version
<1> DEFINE r == Advanced("analyzing")
           u == [r EXCEPT !.run = "queued"]
<1>1. request \in RequestShape /\ request.version \in Nat
  BY RowsTyped DEF OfferInv, Shape
<1>2. /\ r \in RequestShape /\ r.version = request.version + 1 /\ r.status = "analyzing"
  BY <1>1, RequestAdvanced DEF RequestStatus
<1>3. u \in RequestShape /\ u.version = r.version /\ u.status = r.status
  <2> HIDE DEF r
  <2> QED
    BY <1>2, RunWritten DEF RunStatus
<1>4. request' = [u EXCEPT !.runs = n]
  OBVIOUS
<1> HIDE DEF r, u
<1>5. request' \in RequestShape /\ request'.version = u.version /\ request'.status = u.status
  BY <1>3, <1>4, RunsCounted
<1> QED
  BY <1>1, <1>2, <1>3, <1>5

LEMMA QueuedKeeps ==
    ASSUME OfferInv, NEW n \in Int,
           request' = [Advanced("analyzing") EXCEPT !.run = "queued", !.runs = n],
           UNCHANGED <<policy, estimates, quotes, orders, tx>>
    PROVE  OfferInv'
<1>1. /\ request' \in RequestShape /\ request'.status = "analyzing"
      /\ request'.version > request.version
  BY QueuedRequest, Zenon
<1> QED
  BY <1>1, RequestGoesOn

LEMMA SubmitQueues ==
    ASSUME Submit
    PROVE  \E n \in Int : request' = [Advanced("analyzing") EXCEPT !.run = "queued", !.runs = n]
<1>1. request' = [Advanced("analyzing") EXCEPT !.run = "queued", !.runs = 1]
  BY DEF Submit
<1>2. 1 \in Int
  OBVIOUS
<1> QED
  BY <1>1, <1>2, Zenon

LEMMA RetryQueues ==
    ASSUME OfferInv, RetrySlicing
    PROVE  \E n \in Int : request' = [Advanced("analyzing") EXCEPT !.run = "queued", !.runs = n]
<1> DEFINE r == Advanced("analyzing")
<1>1. request \in RequestShape
  BY DEF OfferInv, Shape
<1>2. r \in RequestShape
  BY <1>1, RequestAdvanced DEF RequestStatus
<1>3. request' = [r EXCEPT !.run = "queued", !.runs = @ + 1]
  BY DEF RetrySlicing
<1>4. request' = [r EXCEPT !.run = "queued", !.runs = r.runs + 1]
  <2> HIDE DEF r
  <2> QED
    BY <1>2, <1>3 DEF RequestShape
<1>5. r.runs + 1 \in Int
  <2> HIDE DEF r
  <2> QED
    BY <1>2 DEF RequestShape
<1> QED
  BY <1>4, <1>5

LEMMA SubmitKeeps == ASSUME OfferInv, Submit PROVE OfferInv'
  BY SubmitQueues, QueuedKeeps DEF Submit

LEMMA RetrySlicingKeeps == ASSUME OfferInv, RetrySlicing PROVE OfferInv'
  BY RetryQueues, QueuedKeeps DEF RetrySlicing

LEMMA Successor == \A n \in Nat : n + 1 > n
  OBVIOUS

LEMMA VerdictRequest ==
    ASSUME OfferInv, NEW status \in RequestStatus \ {"none", "rejected"}, NEW run \in RunStatus,
           \/ request' = [Advanced(status) EXCEPT !.run = run]
           \/ \E measured \in Measured :
                request' = [Advanced(status) EXCEPT !.run = run, !.measured = measured]
    PROVE  /\ request' \in RequestShape /\ request'.status = status
           /\ request'.version > request.version
<1> DEFINE r == Advanced(status)
           u == [r EXCEPT !.run = run]
<1>1. request \in RequestShape /\ request.version \in Nat
  BY RowsTyped DEF OfferInv, Shape
<1>2. /\ r \in RequestShape /\ r.version = request.version + 1 /\ r.status = status
  BY <1>1, RequestAdvanced
<1>3. u \in RequestShape /\ u.version = r.version /\ u.status = r.status
  <2> HIDE DEF r
  <2> QED
    BY <1>2, RunWritten
<1>4. request' = u \/ \E measured \in Measured : request' = [u EXCEPT !.measured = measured]
  OBVIOUS
<1> HIDE DEF r, u
<1>5. request' \in RequestShape /\ request'.version = u.version /\ request'.status = u.status
  BY <1>3, <1>4, MeasuredWritten
<1>6. request'.version = request.version + 1 /\ request'.status = status
  BY <1>2, <1>3, <1>5, Zenon
<1>7. request'.version > request.version
  BY <1>1, <1>6, Successor, Zenon
<1> QED
  BY <1>5, <1>6, <1>7, Zenon

LEMMA VerdictKeeps ==
    ASSUME OfferInv, NEW status \in RequestStatus \ {"none", "rejected"}, NEW run \in RunStatus,
           \/ request' = [Advanced(status) EXCEPT !.run = run]
           \/ \E measured \in Measured :
                request' = [Advanced(status) EXCEPT !.run = run, !.measured = measured],
           UNCHANGED <<policy, estimates, quotes, orders, tx>>
    PROVE  OfferInv'
<1>1. /\ request' \in RequestShape /\ request'.status = status
      /\ request'.version > request.version
  BY VerdictRequest, Zenon
<1>2. request'.status \notin {"none", "rejected"}
  BY <1>1
<1> QED
  BY <1>1, <1>2, RequestGoesOn

LEMMA AnalysisKeeps ==
    ASSUME OfferInv, Analysis
    PROVE  OfferInv'
<1>1. ASSUME NEW measured \in Measured, AnalysisSucceeds(measured) PROVE OfferInv'
  BY <1>1, VerdictKeeps DEF AnalysisSucceeds, RequestStatus, RunStatus
<1>2. CASE AnalysisAwaitsProfile
  BY <1>2, VerdictKeeps DEF AnalysisAwaitsProfile, RequestStatus, RunStatus
<1>3. ASSUME NEW culprits, NEW run \in {"slicer_failed", "failed"}, AnalysisFails(culprits, run)
      PROVE  OfferInv'
  BY <1>3, VerdictKeeps DEF AnalysisFails, RequestStatus, RunStatus
<1> QED
  BY <1>1, <1>2, <1>3, RetrySlicingKeeps DEF Analysis

-----------------------------------------------------------------------------
(* Money keeps its type                                                    *)

LEMMA CardTyped ==
    ASSUME NEW p \in Policy
    PROVE  Card[p] \in RateCard /\ Card[p].tax_bps \in Int
<1>1. Card[p] \in RateCard
  BY CardAssumption
<1>2. Card[p].tax_bps \in BasisPoints
  BY <1>1 DEF RateCard
<1>3. BasisPoints \subseteq Int
  BY DEF BasisPoints
<1> QED
  BY <1>1, <1>2, <1>3, Zenon

LEMMA PriceTyped ==
    ASSUME request \in RequestShape, NEW p \in Policy
    PROVE  Breakdown(request.measured, Card[p])
             \in [{"material", "machine", "setup", "contingency", "minimum_adjustment",
                   "pre_tax"} -> Nat]
<1>1. request.measured \in Measurement
  BY MoneyAssumption DEF RequestShape, Nothing, Measurement
<1> QED
  BY <1>1, CardTyped, ComponentsAddUp

LEMMA TaxTyped ==
    ASSUME NEW amount \in Int, NEW bps \in Int
    PROVE  TaxOn(amount, bps) \in Int
<1> DEFINE n == amount * bps
<1>1. n \in Int
  OBVIOUS
<1> HIDE DEF n
<1>2. (n + 10000 - 1) \div 10000 \in Int
  BY <1>1
<1> QED
  BY <1>2 DEF TaxOn, CeilRatio, n

LEMMA QuoteTyped ==
    ASSUME Shape, NEW k \in 1..Len(estimates), NEW adjustment \in Adjustment,
           NEW fulfilment \in Fulfilment
    PROVE  /\ QuoteOf(k, adjustment, fulfilment) \in OfferRow
           /\ QuoteOf(k, adjustment, fulfilment).estimate = k
           /\ QuoteOf(k, adjustment, fulfilment).status = "issued"
<1> DEFINE price == estimates[k].price
           taxable == price.pre_tax + adjustment
           tax == TaxOn(taxable, Card[estimates[k].policy].tax_bps)
<1>1. estimates[k] \in EstimateRow /\ k \in Nat
  BY RowsTyped
<1>2. /\ price.material \in Int /\ price.machine \in Int /\ price.setup \in Int
      /\ price.contingency \in Int /\ price.minimum_adjustment \in Int /\ price.pre_tax \in Int
      /\ estimates[k].policy \in Policy
  BY <1>1 DEF EstimateRow
<1>3. adjustment \in Int /\ fulfilment \in Int
  BY MoneyAssumption
<1> HIDE DEF price
<1>4. taxable \in Int
  BY <1>2, <1>3
<1> HIDE DEF taxable
<1>5. tax \in Int
  BY <1>2, <1>4, CardTyped, TaxTyped
<1> HIDE DEF tax
<1>6. Lines(price, adjustment, tax, fulfilment) \in Seq(Int)
  BY <1>2, <1>3, <1>5 DEF Lines
<1>7. taxable + tax + fulfilment \in Int
  BY <1>3, <1>4, <1>5
<1>8. QuoteOf(k, adjustment, fulfilment)
        = [estimate |-> k, status |-> "issued", adjustment |-> adjustment, tax |-> tax,
           lines |-> Lines(price, adjustment, tax, fulfilment),
           total |-> taxable + tax + fulfilment, live |-> TRUE]
  BY DEF QuoteOf, price, taxable, tax
<1> DEFINE lines == Lines(price, adjustment, tax, fulfilment)
           total == taxable + tax + fulfilment
<1>9. lines \in Seq(Int) /\ total \in Int
  BY <1>6, <1>7
<1> HIDE DEF lines, total
<1>10. [estimate |-> k, status |-> "issued", adjustment |-> adjustment, tax |-> tax,
        lines |-> lines, total |-> total, live |-> TRUE] \in OfferRow
  BY <1>1, <1>3, <1>5, <1>9 DEF OfferRow, QuoteStatus
<1> QED
  BY <1>8, <1>10 DEF lines, total

-----------------------------------------------------------------------------
(* The offer changes                                                       *)

\* A new estimate: nothing was accepted, and what was issued is superseded.
LEMMA EstimatedKeeps ==
    ASSUME OfferInv, NEW p \in Policy, Standing("accepted") = {}, Estimated(p)
    PROVE  OfferInv'
<1> DEFINE row == [version |-> request.version + 1, policy |-> p, live |-> TRUE,
                   price |-> Breakdown(request.measured, Card[p])]
           n == Len(estimates)
<1>1. /\ request \in RequestShape /\ request.version \in Nat
      /\ estimates \in Seq(EstimateRow) /\ quotes \in Seq(OfferRow) /\ tx \in [Session -> Tx]
      /\ n \in Nat /\ Len(quotes) \in Nat /\ DOMAIN quotes = 1..Len(quotes)
      /\ \A k \in 1..n : estimates[k].version \in Nat
  BY RowsTyped DEF OfferInv, Shape, EstimateRow
<1>2. row \in EstimateRow /\ row.version = request.version + 1
  BY <1>1, PriceTyped DEF EstimateRow
<1>3. /\ request' \in RequestShape /\ request'.version = request.version + 1
      /\ request'.status = "estimate_ready"
  BY <1>1, RequestAdvanced DEF Estimated, RequestStatus
<1>4. /\ quotes' = Relabelled("superseded") /\ estimates' = Append(estimates, row)
      /\ UNCHANGED <<policy, orders, tx>>
  BY DEF Estimated
<1> HIDE DEF row
<1>5. /\ estimates' \in Seq(EstimateRow) /\ Len(estimates') = n + 1
      /\ \A k \in 1..n : estimates'[k] = estimates[k]
      /\ estimates'[n + 1] = row
  BY <1>1, <1>2, <1>4, RowAdded
<1>6. /\ quotes' \in Seq(OfferRow) /\ Len(quotes') = Len(quotes)
      /\ \A q \in 1..Len(quotes) :
           quotes'[q].status = IF quotes[q].status = "issued" THEN "superseded"
                               ELSE quotes[q].status
  BY <1>1, <1>4, RelabelledRows DEF QuoteStatus
<1> HIDE DEF n
<1>7. Shape'
  BY <1>1, <1>3, <1>4, <1>5, <1>6 DEF Shape
<1>8. VersionsGrow'
  <2> SUFFICES ASSUME NEW k \in 1..(n + 1)
               PROVE  /\ estimates'[k].version <= request'.version
                      /\ k < n + 1 => estimates'[k].version < request'.version
    BY <1>5 DEF VersionsGrow
  <2>1. CASE k = n + 1
    BY <1>1, <1>2, <1>3, <1>5, <2>1
  <2>2. CASE k \in 1..n
    <3>1. estimates[k].version <= request.version
      BY <2>2 DEF OfferInv, VersionsGrow, n
    <3> QED
      BY <1>1, <1>3, <1>5, <2>2, <3>1
  <2> QED
    BY <1>1, <2>1, <2>2
<1>9. SessionsKept
  BY <1>1, <1>4, DoneKeeps
<1>10. \A s \in Session : ReadsStillHold(s)'
  <2>1. Shape /\ \A s \in Session : ReadsStillHold(s)
    BY DEF OfferInv
  <2>2. request'.version \in Nat /\ request'.version > request.version
        /\ Len(quotes') \in Nat /\ Len(quotes') >= Len(quotes)
    BY <1>1, <1>3, <1>6
  <2> QED
    BY <1>9, <2>1, <2>2, OldReadsAreVoid
<1>11. DOMAIN quotes' = 1..Len(quotes)
  BY <1>6, LenProperties
<1>12. Standing("issued")' = {} /\ Standing("accepted")' = {}
  BY <1>1, <1>6, <1>11 DEF Standing
<1>13. orders = {} /\ ActivePolicies' = ActivePolicies
  BY <1>4 DEF OfferInv, AtMostOne, ActivePolicies
<1>14. AtMostOne' /\ OfferIsCurrent'
  BY <1>3, <1>4, <1>12, <1>13 DEF OfferInv, AtMostOne, OfferIsCurrent, Offered
<1> QED
  BY <1>7, <1>8, <1>10, <1>14 DEF OfferInv

LEMMA CreateEstimateKeeps ==
    ASSUME OfferInv, NEW p \in Policy, CreateEstimate(p)
    PROVE  OfferInv'
  BY EstimatedKeeps DEF CreateEstimate

\* A new quotation takes the place of the one that was issued.
LEMMA CommitIssueKeeps ==
    ASSUME OfferInv, NEW s \in Session, NEW adjustment \in Adjustment,
           NEW fulfilment \in Fulfilment, CommitIssue(s, adjustment, fulfilment)
    PROVE  OfferInv'
<1> DEFINE k == tx[s].of
           row == QuoteOf(k, adjustment, fulfilment)
           old == Relabelled("superseded")
           n == Len(quotes)
<1>1. /\ Shape /\ VersionsGrow /\ tx \in [Session -> Tx] /\ quotes \in Seq(OfferRow)
      /\ request \in RequestShape /\ request.version \in Nat
      /\ n \in Nat /\ DOMAIN quotes = 1..n /\ Len(estimates) \in Nat
      /\ \A j \in 1..Len(estimates) : estimates[j].version \in Nat
  BY RowsTyped DEF OfferInv, Shape, EstimateRow
<1>2. CASE ~Unchanged(s)
  <2>1. SessionsKept
    BY <1>1, <1>2, DoneKeeps DEF CommitIssue, Rollback
  <2> QED
    BY <1>2, <2>1, SessionsLeave DEF CommitIssue, Rollback
<1>3. CASE Unchanged(s)
  <2>1. /\ Issued(k, adjustment, fulfilment) /\ Done(s)
        /\ UNCHANGED <<policy, estimates, orders>>
    BY <1>3 DEF CommitIssue
  <2>2. Standing("accepted") = {} /\ k = Len(estimates) /\ k \in 1..Len(estimates)
    BY <1>1, <1>3 DEF CommitIssue, OfferInv, ReadsStillHold, Unchanged
  <2> HIDE DEF k
  <2>3. row \in OfferRow /\ row.estimate = k /\ row.status = "issued"
    BY <1>1, <2>2, QuoteTyped
  <2>4. quotes' = Append(old, row) /\ request' = Advanced("quoted")
    BY <2>1 DEF Issued
  <2> HIDE DEF row
  <2>5. /\ old \in Seq(OfferRow) /\ Len(old) = n
        /\ \A q \in 1..n : old[q].status = IF quotes[q].status = "issued" THEN "superseded"
                                           ELSE quotes[q].status
    BY <1>1, RelabelledRows DEF QuoteStatus
  <2> HIDE DEF old
  <2>6. /\ quotes' \in Seq(OfferRow) /\ Len(quotes') = n + 1
        /\ \A q \in 1..n : quotes'[q] = old[q]
        /\ quotes'[n + 1] = row
    BY <2>3, <2>4, <2>5, RowAdded
  <2>7. /\ request' \in RequestShape /\ request'.version = request.version + 1
        /\ request'.status = "quoted"
    BY <1>1, <2>4, RequestAdvanced DEF RequestStatus
  <2>8. SessionsKept
    BY <1>1, <2>1, DoneKeeps
  <2>9. Shape'
    BY <1>1, <2>1, <2>6, <2>7, <2>8 DEF Shape, SessionsKept
  <2>10. VersionsGrow'
    BY <1>1, <2>1, <2>7 DEF VersionsGrow
  <2>11. request'.version > request.version /\ Len(quotes') \in Nat /\ Len(quotes') >= n
    BY <1>1, <2>6, <2>7
  <2>12. \A x \in Session : ReadsStillHold(x)'
    BY <1>1, <2>7, <2>8, <2>11, OldReadsAreVoid DEF OfferInv
  <2>13. DOMAIN quotes' = 1..(n + 1)
    BY <2>6, LenProperties
  <2> HIDE DEF n
  <2>14. \A q \in 1..n : quotes[q].status # "accepted"
    BY <1>1, <2>2 DEF Standing
  <2>15. Standing("issued")' = {n + 1} /\ Standing("accepted")' = {}
    <3>1. \A q \in 1..n : quotes'[q].status \notin {"issued", "accepted"}
      BY <2>5, <2>6, <2>14
    <3>2. quotes'[n + 1].status = "issued"
      BY <2>3, <2>6
    <3>3. 1..(n + 1) = 1..n \cup {n + 1}
      BY <1>1
    <3> QED
      BY <2>13, <3>1, <3>2, <3>3 DEF Standing
  <2>16. orders' = {} /\ ActivePolicies' = ActivePolicies
    BY <2>1, <2>2 DEF OfferInv, AtMostOne, ActivePolicies
  <2>17. AtMostOne'
    BY <2>7, <2>15, <2>16 DEF OfferInv, AtMostOne, Offered
  <2>18. OfferIsCurrent'
    BY <2>1, <2>2, <2>3, <2>6, <2>15 DEF OfferIsCurrent
  <2> QED
    BY <2>9, <2>10, <2>12, <2>17, <2>18 DEF OfferInv
<1> QED
  BY <1>2, <1>3

\* A rejection is of a request that nothing was accepted from.
LEMMA CommitRejectKeeps ==
    ASSUME OfferInv, NEW s \in Session, CommitReject(s)
    PROVE  OfferInv'
<1> DEFINE n == Len(quotes)
<1>1. /\ Shape /\ VersionsGrow /\ tx \in [Session -> Tx] /\ quotes \in Seq(OfferRow)
      /\ request \in RequestShape /\ request.version \in Nat
      /\ n \in Nat /\ DOMAIN quotes = 1..n /\ Len(estimates) \in Nat
      /\ \A j \in 1..Len(estimates) : estimates[j].version \in Nat
  BY RowsTyped DEF OfferInv, Shape, EstimateRow
<1>2. CASE ~Unchanged(s)
  <2>1. SessionsKept
    BY <1>1, <1>2, DoneKeeps DEF CommitReject, Rollback
  <2> QED
    BY <1>2, <2>1, SessionsLeave DEF CommitReject, Rollback
<1>3. CASE Unchanged(s)
  <2>1. /\ quotes' = Relabelled("rejected") /\ request' = Advanced("rejected") /\ Done(s)
        /\ UNCHANGED <<policy, estimates, orders>>
    BY <1>3 DEF CommitReject
  <2>2. Standing("accepted") = {}
    BY <1>3 DEF CommitReject, OfferInv, ReadsStillHold, Unchanged
  <2>3. /\ quotes' \in Seq(OfferRow) /\ Len(quotes') = n
        /\ \A q \in 1..n : quotes'[q].status = IF quotes[q].status = "issued" THEN "rejected"
                                               ELSE quotes[q].status
    BY <1>1, <2>1, RelabelledRows DEF QuoteStatus
  <2>4. /\ request' \in RequestShape /\ request'.version = request.version + 1
        /\ request'.status = "rejected"
    BY <1>1, <2>1, RequestAdvanced DEF RequestStatus
  <2>5. SessionsKept
    BY <1>1, <2>1, DoneKeeps
  <2>6. Shape'
    BY <1>1, <2>1, <2>3, <2>4, <2>5 DEF Shape, SessionsKept
  <2>7. VersionsGrow'
    BY <1>1, <2>1, <2>4 DEF VersionsGrow
  <2>8. request'.version > request.version /\ Len(quotes') \in Nat /\ Len(quotes') >= n
    BY <1>1, <2>3, <2>4
  <2>9. \A x \in Session : ReadsStillHold(x)'
    BY <1>1, <2>4, <2>5, <2>8, OldReadsAreVoid DEF OfferInv
  <2>10. DOMAIN quotes' = 1..n
    BY <2>3, LenProperties
  <2>11. Standing("issued")' = {} /\ Standing("accepted")' = {}
    BY <1>1, <2>2, <2>3, <2>10 DEF Standing
  <2>12. orders' = {} /\ ActivePolicies' = ActivePolicies
    BY <2>1, <2>2 DEF OfferInv, AtMostOne, ActivePolicies
  <2>13. AtMostOne' /\ OfferIsCurrent'
    BY <2>11, <2>12 DEF OfferInv, AtMostOne, OfferIsCurrent, Offered
  <2> QED
    BY <2>6, <2>7, <2>9, <2>13 DEF OfferInv
<1> QED
  BY <1>2, <1>3

\* What is accepted was the one standing offer.
LEMMA CommitAcceptKeeps ==
    ASSUME OfferInv, NEW s \in Session, CommitAccept(s)
    PROVE  OfferInv'
<1> DEFINE k == tx[s].of
           n == Len(quotes)
           row == [quotes[k] EXCEPT !.status = "accepted"]
<1>1. /\ Shape /\ VersionsGrow /\ tx \in [Session -> Tx] /\ quotes \in Seq(OfferRow)
      /\ request \in RequestShape /\ request.version \in Nat
      /\ n \in Nat /\ DOMAIN quotes = 1..n /\ Len(estimates) \in Nat
      /\ \A j \in 1..Len(estimates) : estimates[j].version \in Nat
      /\ \A q \in 1..n : quotes[q] \in OfferRow
  BY RowsTyped DEF OfferInv, Shape, EstimateRow
<1>2. CASE ~(Unchanged(s) /\ quotes[k].status = "issued" /\ Reconciles(k))
  <2>1. SessionsKept
    BY <1>1, <1>2, DoneKeeps DEF CommitAccept, Rollback
  <2> QED
    BY <1>2, <2>1, SessionsLeave DEF CommitAccept, Rollback
<1>3. CASE Unchanged(s) /\ quotes[k].status = "issued" /\ Reconciles(k)
  <2>1. Accepted(k) /\ Done(s) /\ UNCHANGED <<policy, estimates>>
    BY <1>3 DEF CommitAccept
  <2>2. k \in 1..n
    BY DEF CommitAccept, OfferInv, ReadsStillHold
  <2> HIDE DEF k
  <2>3. k \in Standing("issued")
    BY <1>1, <1>3, <2>2 DEF Standing
  <2>4. /\ row \in OfferRow /\ row.status = "accepted" /\ row.estimate = quotes[k].estimate
        /\ row.total = quotes[k].total
    BY <1>1, <2>2 DEF OfferRow, QuoteStatus
  <2>5. quotes' = [quotes EXCEPT ![k] = row]
    BY <1>1, <2>1, <2>2 DEF Accepted
  <2>6. /\ orders' = orders \cup {[quote |-> k, amount |-> quotes[k].total]}
        /\ request' = [request EXCEPT !.version = @ + 1]
    BY <2>1 DEF Accepted
  <2> HIDE DEF row, n
  <2>7. /\ quotes' \in Seq(OfferRow) /\ Len(quotes') = n
        /\ \A q \in 1..n : quotes'[q] = IF q = k THEN row ELSE quotes[q]
    BY <1>1, <2>2, <2>4, <2>5, RowUpdated DEF n
  <2>8. /\ request' \in RequestShape /\ request'.version = request.version + 1
        /\ request'.status = request.status
    BY <1>1, <2>6 DEF RequestShape
  <2>9. SessionsKept
    BY <1>1, <2>1, DoneKeeps
  <2>10. \A q \in Offered : q = k
    BY <2>3 DEF OfferInv, AtMostOne, Offered
  <2>11. request.status \notin {"none", "rejected"}
    BY <2>3 DEF OfferInv, AtMostOne, Offered
  <2>12. Shape'
    BY <1>1, <2>1, <2>7, <2>8, <2>9, <2>11 DEF Shape, SessionsKept
  <2>13. VersionsGrow'
    BY <1>1, <2>1, <2>8 DEF VersionsGrow
  <2>14. request'.version > request.version /\ Len(quotes') \in Nat /\ Len(quotes') >= n
    BY <1>1, <2>7, <2>8
  <2>15. \A x \in Session : ReadsStillHold(x)'
    BY <1>1, <2>8, <2>9, <2>14, OldReadsAreVoid DEF OfferInv, n
  <2>16. DOMAIN quotes' = 1..n
    BY <2>7, LenProperties
  <2>17. Standing("accepted") = {} /\ Standing("issued") = {k}
    BY <1>3, <2>3, <2>10 DEF Standing, Offered
  <2>18. Standing("issued")' = {} /\ Standing("accepted")' = {k}
    BY <1>1, <2>2, <2>4, <2>7, <2>16, <2>17 DEF Standing
  <2>19. orders' = {[quote |-> k, amount |-> quotes'[k].total]}
    BY <2>2, <2>4, <2>6, <2>7, <2>17 DEF OfferInv, AtMostOne
  <2>20. ActivePolicies' = ActivePolicies
    BY <2>1 DEF ActivePolicies
  <2>21. AtMostOne'
    BY <2>8, <2>11, <2>18, <2>19, <2>20 DEF OfferInv, AtMostOne, Offered
  <2>22. quotes[k].estimate = Len(estimates)
    BY <2>3 DEF OfferInv, OfferIsCurrent
  <2>23. OfferIsCurrent'
    BY <2>1, <2>2, <2>4, <2>7, <2>18, <2>22 DEF OfferIsCurrent
  <2> QED
    BY <2>12, <2>13, <2>15, <2>21, <2>23 DEF OfferInv
<1> QED
  BY <1>2, <1>3

\* An expiry changes no status and no version.
LEMMA EstimateExpiresKeeps ==
    ASSUME OfferInv, NEW k \in DOMAIN estimates, EstimateExpires(k)
    PROVE  OfferInv'
<1> DEFINE row == [estimates[k] EXCEPT !.live = FALSE]
           n == Len(estimates)
<1>1. /\ Shape /\ VersionsGrow /\ tx \in [Session -> Tx] /\ estimates \in Seq(EstimateRow)
      /\ n \in Nat /\ k \in 1..n /\ \A j \in 1..n : estimates[j] \in EstimateRow
  BY RowsTyped DEF OfferInv, Shape
<1>2. row \in EstimateRow /\ row.version = estimates[k].version
  BY <1>1 DEF EstimateRow
<1>3. /\ estimates' = [estimates EXCEPT ![k] = row]
      /\ UNCHANGED <<request, policy, quotes, orders, tx>>
  BY <1>1 DEF EstimateExpires
<1> HIDE DEF row
<1>4. /\ estimates' \in Seq(EstimateRow) /\ Len(estimates') = n
      /\ \A j \in 1..n : estimates'[j] = IF j = k THEN row ELSE estimates[j]
  BY <1>1, <1>2, <1>3, ExceptSeq
<1>5. Shape'
  BY <1>1, <1>3, <1>4 DEF Shape
<1>6. \A j \in 1..n : estimates'[j].version = estimates[j].version
  BY <1>2, <1>4
<1>7. VersionsGrow'
  BY <1>1, <1>3, <1>4, <1>6 DEF VersionsGrow
<1>8. /\ Standing("issued")' = Standing("issued") /\ Standing("accepted")' = Standing("accepted")
      /\ ActivePolicies' = ActivePolicies
  BY <1>3 DEF Standing, ActivePolicies
<1>9. SessionsKept
  BY <1>1, <1>3, DoneKeeps
<1>10. \A s \in Session : ReadsStillHold(s)'
  BY <1>3, <1>4, <1>8, <1>9, ReadsKept DEF OfferInv
<1>11. AtMostOne' /\ OfferIsCurrent'
  BY <1>3, <1>4, <1>8 DEF OfferInv, AtMostOne, OfferIsCurrent, Offered
<1> QED
  BY <1>5, <1>7, <1>10, <1>11 DEF OfferInv

LEMMA QuoteExpiresKeeps ==
    ASSUME OfferInv, NEW k \in DOMAIN quotes, QuoteExpires(k)
    PROVE  OfferInv'
<1> DEFINE row == [quotes[k] EXCEPT !.live = FALSE]
           n == Len(quotes)
<1>1. /\ Shape /\ VersionsGrow /\ tx \in [Session -> Tx] /\ quotes \in Seq(OfferRow)
      /\ n \in Nat /\ DOMAIN quotes = 1..n /\ k \in 1..n
      /\ \A q \in 1..n : quotes[q] \in OfferRow
  BY RowsTyped DEF OfferInv, Shape
<1>2. /\ row \in OfferRow /\ row.status = quotes[k].status /\ row.total = quotes[k].total
      /\ row.estimate = quotes[k].estimate
  BY <1>1 DEF OfferRow
<1>3. /\ quotes' = [quotes EXCEPT ![k] = row]
      /\ UNCHANGED <<request, policy, estimates, orders, tx>>
  BY <1>1 DEF QuoteExpires
<1> HIDE DEF row
<1>4. /\ quotes' \in Seq(OfferRow) /\ Len(quotes') = n
      /\ \A q \in 1..n : quotes'[q] = IF q = k THEN row ELSE quotes[q]
  BY <1>1, <1>2, <1>3, RowUpdated
<1>5. Shape' /\ VersionsGrow'
  BY <1>1, <1>3, <1>4 DEF Shape, VersionsGrow
<1>6. \A q \in 1..n : /\ quotes'[q].status = quotes[q].status
                      /\ quotes'[q].total = quotes[q].total
                      /\ quotes'[q].estimate = quotes[q].estimate
  BY <1>2, <1>4
<1>7. DOMAIN quotes' = 1..n
  BY <1>4, LenProperties
<1>8. /\ Standing("issued")' = Standing("issued") /\ Standing("accepted")' = Standing("accepted")
      /\ ActivePolicies' = ActivePolicies
  BY <1>1, <1>3, <1>6, <1>7 DEF Standing, ActivePolicies
<1>9. SessionsKept
  BY <1>1, <1>3, DoneKeeps
<1>10. \A s \in Session : ReadsStillHold(s)'
  BY <1>3, <1>4, <1>8, <1>9, ReadsKept DEF OfferInv
<1>11. \A q \in Standing("issued") \cup Standing("accepted") : q \in 1..n
  BY <1>1 DEF Standing
<1>12. {[quote |-> q, amount |-> quotes'[q].total] : q \in Standing("accepted")}
         = {[quote |-> q, amount |-> quotes[q].total] : q \in Standing("accepted")}
  BY <1>6, <1>11
<1>13. AtMostOne'
  BY <1>3, <1>8, <1>12 DEF OfferInv, AtMostOne, Offered
<1>14. OfferIsCurrent'
  BY <1>3, <1>6, <1>8, <1>11 DEF OfferInv, OfferIsCurrent
<1> QED
  BY <1>5, <1>10, <1>13, <1>14 DEF OfferInv

-----------------------------------------------------------------------------
(* Every step                                                              *)

LEMMA StepKeepsOffer == OfferInv /\ [Next]_vars => OfferInv'
<1> SUFFICES ASSUME OfferInv, [Next]_vars PROVE OfferInv'
  OBVIOUS
<1>1. tx \in [Session -> Tx]
  BY DEF OfferInv, Shape
<1>2. ASSUME UNCHANGED <<request, policy, estimates, quotes, orders, tx>> PROVE OfferInv'
  BY <1>1, <1>2, DoneKeeps, SessionsLeave
<1>3. CASE UNCHANGED vars
  BY <1>2, <1>3 DEF vars, offer
<1>4. CASE Quiet /\ NoticesNext /\ UNCHANGED offer
  BY <1>2, <1>4 DEF offer
<1>5. CASE Drafting
  <2>1. ASSUME NEW a \in Asset, IssueUpload(a) PROVE OfferInv'
    BY <1>2, <2>1 DEF IssueUpload
  <2>2. ASSUME NEW a \in Asset, NEW object, PutObject(a, object) PROVE OfferInv'
    BY <1>2, <2>2 DEF PutObject
  <2>3. ASSUME NEW a \in Asset, CompleteUpload(a) PROVE OfferInv'
    BY <1>2, <2>3 DEF CompleteUpload
  <2> QED
    BY <1>5, <2>1, <2>2, <2>3, CreateRequestKeeps, SubmitKeeps DEF Drafting
<1>6. CASE Analysis
  BY <1>6, AnalysisKeeps
<1>7. CASE Rates
  <2>1. ASSUME NEW p \in Policy, FirstEstimate(p) PROVE OfferInv'
    BY <2>1, CreateEstimateKeeps DEF FirstEstimate
  <2> QED
    BY <1>7, <2>1, CreatePolicyKeeps, CreateEstimateKeeps, BeginActivateKeeps, CommitActivateKeeps
    DEF Rates, Session
<1>8. CASE Offering
  <2>1. ASSUME NEW s \in Session, Rollback(s) PROVE OfferInv'
    BY <1>1, <2>1, DoneKeeps, SessionsLeave DEF Rollback
  <2>2. CASE \E s \in Owner :
               \/ \E k \in DOMAIN estimates : BeginIssue(s, k)
               \/ \E adjustment \in Adjustment, fulfilment \in Fulfilment :
                    CommitIssue(s, adjustment, fulfilment)
               \/ BeginReject(s)
               \/ CommitReject(s)
    BY <2>2, BeginIssueKeeps, CommitIssueKeeps, BeginRejectKeeps, CommitRejectKeeps DEF Session
  <2>3. CASE \E s \in Buyer : \/ \E q \in DOMAIN quotes : BeginAccept(s, q)
                              \/ ReadRequest(s)
                              \/ CommitAccept(s)
    BY <2>3, BeginAcceptKeeps, ReadRequestKeeps, CommitAcceptKeeps DEF Session
  <2> QED
    BY <1>8, <2>1, <2>2, <2>3 DEF Offering
<1>9. CASE Expiry
  BY <1>9, EstimateExpiresKeeps, QuoteExpiresKeeps DEF Expiry
<1> QED
  BY <1>3, <1>4, <1>5, <1>6, <1>7, <1>8, <1>9 DEF Next

\* What sessions concluded stays true for as long as they may still write it.
THEOREM OfferHolds == Spec => []OfferInv
  BY Initially, StepKeepsOffer, PTL DEF Spec

LEMMA AtMostOneCounted ==
    ASSUME NEW S, \A x, y \in S : x = y
    PROVE  Cardinality(S) <= 1
<1>1. CASE S = {}
  BY <1>1, FS_EmptySet
<1>2. CASE S # {}
  <2>1. PICK x \in S : TRUE
    BY <1>2
  <2>2. S = {x}
    BY <2>1
  <2> QED
    BY <2>2, FS_Singleton
<1> QED
  BY <1>1, <1>2

\* Whatever the owner's tabs, the buyer's tabs and the worker do at the same
\* time: one standing offer, one active card, one order for what was accepted.
THEOREM OneOffer == Spec => []OneOfferStands
<1>1. OfferInv => OneOfferStands
  <2> SUFFICES ASSUME OfferInv PROVE OneOfferStands
    OBVIOUS
  <2>1. Cardinality(Offered) <= 1 /\ Cardinality(ActivePolicies) <= 1
    BY AtMostOneCounted DEF OfferInv, AtMostOne
  <2> QED
    BY <2>1 DEF OfferInv, AtMostOne, OneOfferStands, Offered
<1> QED
  BY <1>1, OfferHolds, PTL

\* What can be accepted, and what was, rests on the newest estimate.
THEOREM OfferCurrent == Spec => []OfferIsCurrent
<1>1. OfferInv => OfferIsCurrent
  BY DEF OfferInv
<1> QED
  BY <1>1, OfferHolds, PTL

-----------------------------------------------------------------------------
(* The notice the end of the request leaves                                *)

\* Nothing is told before the request is rejected or ordered.
ToldAtTheEnd ==
    \A n \in Notice : notice[n].status # "none" => request.status = "rejected" \/ orders # {}

\* A session that may still write has not missed a rejection.
RejectionSeen ==
    \A s \in Session :
        tx[s].at \in {"issue", "reject"} /\ tx[s].version = request.version
            => request.status # "rejected"

ToldInv == OfferInv /\ NoticesInv /\ ToldAtTheEnd /\ RejectionSeen

\* What a step may do to the request: a rejection is final.
RequestOutlives ==
    \/ request' = request
    \/ request.status # "rejected" /\ request'.status # "rejected"
    \/ request'.status = "rejected" /\ request'.version > request.version

\* What it may do to sessions that issue and reject.
SessionsSee ==
    \A s \in Session :
        tx'[s].at \in {"issue", "reject"}
            => tx'[s] = tx[s] \/ (request' = request /\ request.status # "rejected")

OfficeStep == RequestOutlives /\ SessionsSee /\ orders \subseteq orders'

LEMMA KeptSee == SessionsKept => SessionsSee
  BY IdleTyped DEF SessionsKept, SessionsSee

LEMMA BegunSee ==
    ASSUME tx \in [Session -> Tx], UNCHANGED <<request, orders>>, NEW s \in Session, NEW t,
           tx' = [tx EXCEPT ![s] = t],
           t.at \in {"issue", "reject"} => request.status # "rejected"
    PROVE  OfficeStep
  BY DEF OfficeStep, RequestOutlives, SessionsSee

LEMMA StillStep ==
    ASSUME SessionsKept, UNCHANGED <<request, orders>>
    PROVE  OfficeStep
  BY KeptSee DEF OfficeStep, RequestOutlives

LEMMA LivingStep ==
    ASSUME SessionsKept, orders \subseteq orders',
           request.status # "rejected", request'.status # "rejected"
    PROVE  OfficeStep
  BY KeptSee DEF OfficeStep, RequestOutlives

LEMMA AnalysisStep ==
    ASSUME OfferInv, Analysis
    PROVE  OfficeStep
<1>1. SessionsKept /\ UNCHANGED orders /\ request.status # "rejected"
  <2>1. UNCHANGED <<orders, tx>> /\ request.status # "rejected"
    BY DEF Analysis, AnalysisSucceeds, AnalysisAwaitsProfile, AnalysisFails, RetrySlicing
  <2> QED
    BY <2>1, DoneKeeps DEF OfferInv, Shape
<1>2. ASSUME NEW measured \in Measured, AnalysisSucceeds(measured)
      PROVE  request'.status = "analysis_ready"
  BY <1>2, VerdictRequest DEF AnalysisSucceeds, RequestStatus, RunStatus
<1>3. CASE AnalysisAwaitsProfile
  <2>1. request'.status = "analysis_ready"
    BY <1>3, VerdictRequest DEF AnalysisAwaitsProfile, RequestStatus, RunStatus
  <2> QED
    BY <1>1, <2>1, LivingStep
<1>4. ASSUME NEW culprits, NEW run \in {"slicer_failed", "failed"}, AnalysisFails(culprits, run)
      PROVE  request'.status = "analysis_failed"
  BY <1>4, VerdictRequest DEF AnalysisFails, RequestStatus, RunStatus
<1>5. CASE RetrySlicing
  <2>1. request'.status = "analyzing"
    BY <1>5, RetryQueues, QueuedRequest
  <2> QED
    BY <1>1, <2>1, LivingStep
<1>6. CASE request'.status # "rejected"
  BY <1>1, <1>6, LivingStep
<1> QED
  BY <1>2, <1>3, <1>4, <1>5, <1>6 DEF Analysis

LEMMA DraftingStep ==
    ASSUME OfferInv, Drafting
    PROVE  OfficeStep
<1>1. SessionsKept
  <2>1. UNCHANGED tx
    BY DEF Drafting, CreateRequest, Submit, IssueUpload, PutObject, CompleteUpload
  <2> QED
    BY <2>1, DoneKeeps DEF OfferInv, Shape
<1>2. CASE CreateRequest
  <2>1. request'.status = "draft"
    <3>1. request \in RequestShape
      BY DEF OfferInv, Shape
    <3> DEFINE u == [request EXCEPT !.status = "draft"]
    <3>2. u \in RequestShape /\ u.status = "draft"
      BY <3>1 DEF RequestShape, RequestStatus
    <3>3. request' = [u EXCEPT !.version = 1]
      BY <1>2 DEF CreateRequest
    <3> HIDE DEF u
    <3> QED
      BY <3>2, <3>3 DEF RequestShape
  <2> QED
    BY <1>1, <1>2, <2>1, LivingStep DEF CreateRequest
<1>3. CASE Submit
  <2>1. request'.status = "analyzing"
    BY <1>3, SubmitQueues, QueuedRequest
  <2> QED
    BY <1>1, <1>3, <2>1, LivingStep DEF Submit
<1>4. CASE UNCHANGED <<request, orders>>
  BY <1>1, <1>4, StillStep
<1> QED
  BY <1>2, <1>3, <1>4 DEF Drafting, IssueUpload, PutObject, CompleteUpload

LEMMA RatesStep ==
    ASSUME OfferInv, Rates
    PROVE  OfficeStep
<1>1. request \in RequestShape /\ tx \in [Session -> Tx]
  BY DEF OfferInv, Shape
<1>2. ASSUME NEW p \in Policy, CreateEstimate(p) PROVE OfficeStep
  <2>1. request'.status = "estimate_ready"
    BY <1>1, <1>2, RequestAdvanced DEF CreateEstimate, Estimated, RequestStatus
  <2>2. SessionsKept
    BY <1>1, <1>2, DoneKeeps DEF CreateEstimate, Estimated
  <2> QED
    BY <1>2, <2>1, <2>2, LivingStep DEF CreateEstimate, Estimated
<1>3. ASSUME NEW s \in Owner, NEW p \in Policy, BeginActivate(s, p) PROVE OfficeStep
  <2> DEFINE found == IF ActivePolicies = {} THEN 0 ELSE CHOOSE c \in ActivePolicies : TRUE
             t == [at |-> "activate", of |-> p, version |-> found]
  <2>1. UNCHANGED <<request, orders>> /\ tx' = [tx EXCEPT ![s] = t]
    BY <1>3 DEF BeginActivate, Begun
  <2> QED
    BY <1>1, <2>1, BegunSee DEF Session
<1>4. ASSUME NEW s \in Owner, CommitActivate(s) PROVE OfficeStep
  <2>1. Done(s) /\ UNCHANGED <<request, orders>>
    BY <1>4 DEF CommitActivate, Rollback
  <2> QED
    BY <1>1, <2>1, DoneKeeps, StillStep
<1>5. ASSUME NEW p \in Policy, CreatePolicy(p) PROVE OfficeStep
  BY <1>1, <1>5, DoneKeeps, StillStep DEF CreatePolicy
<1> QED
  BY <1>2, <1>3, <1>4, <1>5 DEF Rates, FirstEstimate

LEMMA OfferingStep ==
    ASSUME OfferInv, RejectionSeen, Offering
    PROVE  OfficeStep
<1>1. /\ request \in RequestShape /\ tx \in [Session -> Tx] /\ request.version \in Nat
  BY RowsTyped DEF OfferInv, Shape
<1>2. ASSUME NEW s \in Session, Rollback(s) PROVE OfficeStep
  BY <1>1, <1>2, DoneKeeps, StillStep DEF Rollback
<1>3. ASSUME NEW s \in Session, NEW k \in DOMAIN estimates, BeginIssue(s, k) PROVE OfficeStep
  <2> DEFINE t == [at |-> "issue", of |-> k, version |-> request.version]
  <2>1. /\ UNCHANGED <<request, orders>> /\ tx' = [tx EXCEPT ![s] = t]
        /\ request.status # "rejected"
    BY <1>3 DEF BeginIssue, Begun, MayIssue
  <2> QED
    BY <1>1, <2>1, BegunSee
<1>4. ASSUME NEW s \in Session, NEW adjustment, NEW fulfilment,
             CommitIssue(s, adjustment, fulfilment)
      PROVE  OfficeStep
  <2>1. CASE Unchanged(s)
    <3>1. request.status # "rejected"
      BY <1>4, <2>1 DEF CommitIssue, RejectionSeen, Unchanged
    <3>2. Issued(tx[s].of, adjustment, fulfilment) /\ Done(s) /\ UNCHANGED orders
      BY <1>4, <2>1 DEF CommitIssue
    <3>3. request'.status = "quoted"
      BY <1>1, <3>2, RequestAdvanced DEF Issued, RequestStatus
    <3> QED
      BY <1>1, <3>1, <3>2, <3>3, DoneKeeps, LivingStep
  <2>2. CASE ~Unchanged(s)
    BY <1>2, <1>4, <2>2 DEF CommitIssue
  <2> QED
    BY <2>1, <2>2
<1>5. ASSUME NEW s \in Session, BeginReject(s) PROVE OfficeStep
  <2> DEFINE t == [at |-> "reject", of |-> 0, version |-> request.version]
  <2>1. /\ UNCHANGED <<request, orders>> /\ tx' = [tx EXCEPT ![s] = t]
        /\ request.status # "rejected"
    BY <1>5 DEF BeginReject, Begun
  <2> QED
    BY <1>1, <2>1, BegunSee
<1>6. ASSUME NEW s \in Session, CommitReject(s) PROVE OfficeStep
  <2>1. CASE Unchanged(s)
    <3>1. request' = Advanced("rejected") /\ Done(s) /\ UNCHANGED orders
      BY <1>6, <2>1 DEF CommitReject
    <3>2. request'.status = "rejected" /\ request'.version > request.version
      BY <1>1, <3>1, RequestAdvanced, Successor DEF RequestStatus
    <3> QED
      BY <1>1, <3>1, <3>2, DoneKeeps, KeptSee DEF OfficeStep, RequestOutlives
  <2>2. CASE ~Unchanged(s)
    BY <1>2, <1>6, <2>2 DEF CommitReject
  <2> QED
    BY <2>1, <2>2
<1>7. ASSUME NEW s \in Session, NEW q \in DOMAIN quotes, BeginAccept(s, q) PROVE OfficeStep
  <2> DEFINE t == [at |-> "quote", of |-> q, version |-> 0]
  <2>1. UNCHANGED <<request, orders>> /\ tx' = [tx EXCEPT ![s] = t]
    BY <1>7 DEF BeginAccept, Begun
  <2> QED
    BY <1>1, <2>1, BegunSee
<1>8. ASSUME NEW s \in Session, ReadRequest(s) PROVE OfficeStep
  <2> DEFINE t == [tx[s] EXCEPT !.at = "accept", !.version = request.version]
  <2>1. t.at = "accept"
    BY <1>1, VersionRead
  <2>2. UNCHANGED <<request, orders>> /\ tx' = [tx EXCEPT ![s] = t]
    BY <1>1, <1>8 DEF ReadRequest
  <2> HIDE DEF t
  <2> QED
    BY <1>1, <2>1, <2>2, BegunSee
<1>9. ASSUME NEW s \in Session, CommitAccept(s) PROVE OfficeStep
  <2> DEFINE q == tx[s].of
  <2>1. CASE Unchanged(s) /\ quotes[q].status = "issued" /\ Reconciles(q)
    <3>1. Accepted(q) /\ Done(s)
      BY <1>9, <2>1 DEF CommitAccept
    <3>2. request' = [request EXCEPT !.version = @ + 1] /\ orders \subseteq orders'
      BY <3>1 DEF Accepted
    <3>3. request'.status = request.status /\ request'.version > request.version
      BY <1>1, <3>2 DEF RequestShape
    <3> QED
      BY <1>1, <3>1, <3>2, <3>3, DoneKeeps, KeptSee DEF OfficeStep, RequestOutlives
  <2>2. CASE ~(Unchanged(s) /\ quotes[q].status = "issued" /\ Reconciles(q))
    BY <1>2, <1>9, <2>2 DEF CommitAccept
  <2> QED
    BY <2>1, <2>2
<1>10. CASE \E s \in Owner :
               \/ \E k \in DOMAIN estimates : BeginIssue(s, k)
               \/ \E adjustment \in Adjustment, fulfilment \in Fulfilment :
                    CommitIssue(s, adjustment, fulfilment)
               \/ BeginReject(s)
               \/ CommitReject(s)
  BY <1>3, <1>4, <1>5, <1>6, <1>10 DEF Session
<1>11. CASE \E s \in Buyer : \/ \E q \in DOMAIN quotes : BeginAccept(s, q)
                             \/ ReadRequest(s)
                             \/ CommitAccept(s)
  BY <1>7, <1>8, <1>9, <1>11 DEF Session
<1> QED
  BY <1>2, <1>10, <1>11 DEF Offering

LEMMA EveryOfficeStep ==
    ASSUME OfferInv, RejectionSeen, [Next]_vars
    PROVE  OfficeStep
<1>1. tx \in [Session -> Tx]
  BY DEF OfferInv, Shape
<1>2. ASSUME UNCHANGED <<request, orders, tx>> PROVE OfficeStep
  BY <1>1, <1>2, DoneKeeps, StillStep
<1>3. CASE UNCHANGED vars \/ (Quiet /\ NoticesNext /\ UNCHANGED offer)
  BY <1>2, <1>3 DEF vars, offer
<1>4. CASE Expiry
  BY <1>2, <1>4 DEF Expiry, EstimateExpires, QuoteExpires
<1> QED
  BY <1>3, <1>4, DraftingStep, AnalysisStep, RatesStep, OfferingStep DEF Next

LEMMA RejectionStaysSeen ==
    ASSUME OfferInv, RejectionSeen, OfficeStep
    PROVE  RejectionSeen'
<1> SUFFICES ASSUME NEW s \in Session, tx'[s].at \in {"issue", "reject"},
                    tx'[s].version = request'.version, request'.status = "rejected"
             PROVE  FALSE
  BY DEF RejectionSeen
<1>1. CASE request' = request
  BY <1>1 DEF RejectionSeen, OfficeStep, SessionsSee
<1>2. CASE request' # request /\ request'.version > request.version
  <2>1. tx'[s] = tx[s]
    BY <1>2 DEF OfficeStep, SessionsSee
  <2>2. tx[s].version <= request.version
    BY <2>1 DEF OfferInv, ReadsStillHold
  <2>3. tx[s].version \in Nat /\ request.version \in Nat
    BY RowsTyped DEF OfferInv, Shape, Tx
  <2> QED
    BY <1>2, <2>1, <2>2, <2>3
<1> QED
  BY <1>1, <1>2 DEF OfficeStep, RequestOutlives

\* The transaction that ends the request asks for the notice, for the first time.
EndTold ==
    /\ \E n \in Notice : notice[n].status = "none" /\ Requested(n)
    /\ UNCHANGED <<sender, submitted>>
    /\ request'.status = "rejected" \/ orders' # {}

LEMMA NoticeSteps ==
    ASSUME OfferInv, ToldAtTheEnd, RejectionSeen, [Next]_vars
    PROVE  UNCHANGED notices \/ (NoticesNext /\ UNCHANGED offer) \/ EndTold
<1>1. ASSUME NEW s \in Session, Rollback(s) PROVE UNCHANGED notices
  BY <1>1 DEF Rollback
<1>2. ASSUME NEW s \in Session, CommitReject(s) PROVE EndTold \/ UNCHANGED notices
  <2>1. CASE Unchanged(s)
    <3>1. Requested(RejectedNotice) /\ UNCHANGED <<sender, submitted>>
          /\ request' = Advanced("rejected")
      BY <1>2, <2>1 DEF CommitReject
    <3>2. request.status # "rejected"
      BY <1>2, <2>1 DEF CommitReject, RejectionSeen, Unchanged
    <3>3. Standing("accepted") = {}
      BY <1>2, <2>1 DEF CommitReject, OfferInv, ReadsStillHold, Unchanged
    <3>4. orders = {}
      BY <3>3 DEF OfferInv, AtMostOne
    <3>5. RejectedNotice \in Notice
      BY LastNoticeAssumption
    <3>6. notice[RejectedNotice].status = "none"
      BY <3>2, <3>4, <3>5 DEF ToldAtTheEnd
    <3>7. request'.status = "rejected"
      BY <3>1, RequestAdvanced DEF OfferInv, Shape, RequestStatus
    <3> QED
      BY <3>1, <3>5, <3>6, <3>7 DEF EndTold
  <2>2. CASE ~Unchanged(s)
    BY <1>1, <1>2, <2>2 DEF CommitReject
  <2> QED
    BY <2>1, <2>2
<1>3. ASSUME NEW s \in Session, CommitAccept(s) PROVE EndTold \/ UNCHANGED notices
  <2> DEFINE q == tx[s].of
  <2>1. CASE Unchanged(s) /\ quotes[q].status = "issued" /\ Reconciles(q)
    <3>1. Accepted(q) /\ UNCHANGED <<sender, submitted>>
      BY <1>3, <2>1 DEF CommitAccept
    <3>2. q \in Standing("issued")
      BY <1>3, <2>1, RowsTyped DEF CommitAccept, OfferInv, ReadsStillHold, Standing
    <3>3. request.status # "rejected"
      BY <3>2 DEF OfferInv, AtMostOne, Offered
    <3>4. Standing("accepted") = {}
      <4>1. \A p \in Standing("accepted") : p = q
        BY <3>2 DEF OfferInv, AtMostOne, Offered
      <4> QED
        BY <2>1, <4>1 DEF Standing
    <3>5. orders = {}
      BY <3>4 DEF OfferInv, AtMostOne
    <3>6. AcceptedNotice \in Notice
      BY LastNoticeAssumption
    <3>7. notice[AcceptedNotice].status = "none"
      BY <3>3, <3>5, <3>6 DEF ToldAtTheEnd
    <3>8. Requested(AcceptedNotice) /\ orders' # {}
      BY <3>1 DEF Accepted
    <3> QED
      BY <3>1, <3>6, <3>7, <3>8 DEF EndTold
  <2>2. CASE ~(Unchanged(s) /\ quotes[q].status = "issued" /\ Reconciles(q))
    BY <1>1, <1>3, <2>2 DEF CommitAccept
  <2> QED
    BY <2>1, <2>2
<1>4. CASE Drafting \/ Analysis \/ Rates \/ Expiry
  <2>1. CASE Drafting
    BY <2>1 DEF Drafting, CreateRequest, Submit, IssueUpload, PutObject, CompleteUpload
  <2>2. CASE Analysis
    BY <2>2 DEF Analysis, AnalysisSucceeds, AnalysisAwaitsProfile, AnalysisFails, RetrySlicing
  <2>3. CASE Rates
    BY <1>1, <2>3 DEF Rates, CreatePolicy, CreateEstimate, FirstEstimate, Estimated,
       BeginActivate, Begun, CommitActivate, Session
  <2>4. CASE Expiry
    BY <2>4 DEF Expiry, EstimateExpires, QuoteExpires
  <2> QED
    BY <1>4, <2>1, <2>2, <2>3, <2>4
<1>5. CASE Offering
  <2>1. CASE \E s \in Owner :
               \/ \E k \in DOMAIN estimates : BeginIssue(s, k)
               \/ \E adjustment \in Adjustment, fulfilment \in Fulfilment :
                    CommitIssue(s, adjustment, fulfilment)
               \/ BeginReject(s)
               \/ CommitReject(s)
    <3>1. ASSUME NEW s \in Session, NEW adjustment, NEW fulfilment,
                 CommitIssue(s, adjustment, fulfilment)
          PROVE  UNCHANGED notices
      BY <1>1, <3>1 DEF CommitIssue
    <3>2. ASSUME NEW s, NEW k, BeginIssue(s, k) \/ BeginReject(s) PROVE UNCHANGED notices
      BY <3>2 DEF BeginIssue, BeginReject, Begun
    <3> QED
      BY <1>2, <2>1, <3>1, <3>2 DEF Session
  <2>2. CASE \E s \in Buyer : \/ \E q \in DOMAIN quotes : BeginAccept(s, q)
                              \/ ReadRequest(s)
                              \/ CommitAccept(s)
    <3>1. ASSUME NEW s, NEW q, BeginAccept(s, q) PROVE UNCHANGED notices
      BY <3>1 DEF BeginAccept, Begun
    <3>2. ASSUME NEW s, ReadRequest(s) PROVE UNCHANGED notices
      BY <3>2 DEF ReadRequest
    <3> QED
      BY <1>3, <2>2, <3>1, <3>2 DEF Session
  <2> QED
    BY <1>1, <1>5, <2>1, <2>2 DEF Offering
<1>6. CASE UNCHANGED vars
  BY <1>6 DEF vars, notices
<1> QED
  BY <1>4, <1>5, <1>6 DEF Next

LEMMA ToldStep == ToldInv /\ [Next]_vars => ToldInv' /\ [Contract!Next]_Told
<1> SUFFICES ASSUME ToldInv, [Next]_vars PROVE ToldInv' /\ (Contract!Next \/ UNCHANGED Told)
  OBVIOUS
<1>1. OfferInv /\ NoticesInv /\ ToldAtTheEnd /\ RejectionSeen
  BY DEF ToldInv
<1>2. OfferInv'
  BY <1>1, StepKeepsOffer
<1>3. OfficeStep
  BY <1>1, EveryOfficeStep
<1>4. RejectionSeen'
  BY <1>1, <1>3, RejectionStaysSeen
<1>5. /\ request.status = "rejected" => request'.status = "rejected"
      /\ orders # {} => orders' # {}
  BY <1>3 DEF OfficeStep, RequestOutlives
<1>6. CASE UNCHANGED notices
  <2>1. NoticesInv'
    BY <1>1, <1>6, SenderStops, NothingWritten DEF notices
  <2>2. ToldAtTheEnd'
    BY <1>1, <1>5, <1>6 DEF ToldAtTheEnd, notices
  <2>3. UNCHANGED Told
    BY <1>6, SameOutcomes, NothingSent DEF notices, Told
  <2> QED
    BY <1>2, <1>4, <2>1, <2>2, <2>3 DEF ToldInv
<1>7. CASE NoticesNext /\ UNCHANGED offer
  <2>1. NoticesInv'
    BY <1>1, <1>7, NoticesStepKeeps
  <2>2. ToldAtTheEnd'
    BY <1>1, <1>7, NoneStaysNone DEF ToldAtTheEnd, offer
  <2>3. Contract!Next \/ UNCHANGED Told
    BY <1>1, <1>7, NoticesStepTold
  <2> QED
    BY <1>2, <1>4, <2>1, <2>2, <2>3 DEF ToldInv
<1>8. CASE EndTold
  <2>1. PICK n \in Notice : notice[n].status = "none" /\ Requested(n)
    BY <1>8 DEF EndTold
  <2>2. NoticesInv'
    BY <1>1, <1>8, <2>1, RequestedKeeps DEF EndTold
  <2>3. ToldAtTheEnd'
    BY <1>8 DEF ToldAtTheEnd, EndTold
  <2>4. Contract!Request(n)
    BY <1>1, <1>8, <2>1, RequestedTold DEF EndTold
  <2> QED
    BY <1>2, <1>4, <2>2, <2>3, <2>4 DEF ToldInv, Contract!Next
<1> QED
  BY <1>1, <1>6, <1>7, <1>8, NoticeSteps

LEMMA ToldInitially == Init => ToldInv /\ Contract!Init
<1> SUFFICES ASSUME Init PROVE ToldInv /\ Contract!Init
  OBVIOUS
<1>1. OfferInv
  BY Initially
<1>2. NoticesInv /\ Contract!Init
  BY NoticesInitially, NoticesInitiallyTold DEF Init
<1>3. ToldAtTheEnd
  BY DEF Init, NoticesInit, ToldAtTheEnd
<1>4. RejectionSeen
  BY DEF Init, RejectionSeen
<1> QED
  BY <1>1, <1>2, <1>3, <1>4 DEF ToldInv

\* The notice of a rejection or an order keeps its contract: it is requested
\* once, its outcome is decided once per round, "sent" is final and true, and
\* the mail server takes at most MaxAttempts messages per round.
THEOREM NoticesKeepContract == Spec => ImplementsNoticeContract
<1>1. Init => ToldInv /\ Contract!Init
  BY ToldInitially
<1>2. ToldInv /\ [Next]_vars => ToldInv'
  BY ToldStep
<1>3. ToldInv /\ [Next]_vars => [Contract!Next]_Told
  BY ToldStep
<1> QED
  BY <1>1, <1>2, <1>3, PTL
  DEF Spec, ImplementsNoticeContract, Contract!Spec, Told, Outcomes, Messages, Retries

-----------------------------------------------------------------------------
(* The lines of a quotation add up                                         *)

\* Acceptance adds the lines up with a fold, in whatever order it takes them.
\* Eight summands are what the fold of eight lines gives for every subset.
Part(f, s, i) == IF i \in s THEN f[i] ELSE 0

SumOver(f, s) ==
    Part(f, s, 1) + Part(f, s, 2) + Part(f, s, 3) + Part(f, s, 4)
      + Part(f, s, 5) + Part(f, s, 6) + Part(f, s, 7) + Part(f, s, 8)

Added(r, f) ==
    r = [s \in SUBSET (1..8) |-> IF s = {} THEN 0
                                 ELSE LET x == CHOOSE x \in s : TRUE IN f[x] + r[s \ {x}]]

LEMMA OneSummandMore ==
    ASSUME NEW f, \A i \in 1..8 : f[i] \in Int, NEW s \in SUBSET (1..8), NEW x \in s
    PROVE  SumOver(f, s) = f[x] + SumOver(f, s \ {x})
<1>1. \A i \in 1..8 : Part(f, s \ {x}, i) = IF i = x THEN 0 ELSE Part(f, s, i)
  BY DEF Part
<1>2. \A i \in 1..8 : Part(f, s, i) \in Int
  BY DEF Part
<1>3. Part(f, s, x) = f[x]
  BY DEF Part
<1>4. x \in 1..8 /\ f[x] \in Int
  OBVIOUS
<1>5. x = 1 \/ x = 2 \/ x = 3 \/ x = 4 \/ x = 5 \/ x = 6 \/ x = 7 \/ x = 8
  BY <1>4
<1> QED
  BY <1>1, <1>2, <1>3, <1>4, <1>5 DEF SumOver

LEMMA SumsAreAdded ==
    ASSUME NEW f, \A i \in 1..8 : f[i] \in Int
    PROVE  Added([s \in SUBSET (1..8) |-> SumOver(f, s)], f)
<1> DEFINE g == [s \in SUBSET (1..8) |-> SumOver(f, s)]
<1>1. ASSUME NEW s \in SUBSET (1..8), s # {}
      PROVE  LET x == CHOOSE x \in s : TRUE IN g[s] = f[x] + g[s \ {x}]
  <2> DEFINE x == CHOOSE x \in s : TRUE
  <2>1. x \in s
    BY <1>1
  <2> HIDE DEF x
  <2>2. g[s] = f[x] + g[s \ {x}]
    BY <2>1, OneSummandMore
  <2> QED
    BY <2>2 DEF x
<1>2. g[{}] = 0
  BY DEF SumOver, Part
<1>3. \A s \in SUBSET (1..8) :
        g[s] = IF s = {} THEN 0 ELSE LET x == CHOOSE x \in s : TRUE IN f[x] + g[s \ {x}]
  BY <1>1, <1>2
<1> DEFINE h == [s \in SUBSET (1..8) |->
                   IF s = {} THEN 0 ELSE LET x == CHOOSE x \in s : TRUE IN f[x] + g[s \ {x}]]
<1>4. DOMAIN g = SUBSET (1..8) /\ DOMAIN h = SUBSET (1..8) /\ g = [s \in DOMAIN g |-> g[s]]
  OBVIOUS
<1>5. \A s \in SUBSET (1..8) : g[s] = h[s]
  BY <1>3
<1>6. g = h
  <2> HIDE DEF g
  <2> QED
    BY <1>4, <1>5
<1> HIDE DEF g
<1>7. Added(g, f)
  BY <1>6 DEF Added
<1> QED
  BY <1>7 DEF g

LEMMA FoldOfEight ==
    ASSUME NEW f, DOMAIN f = 1..8, \A i \in 1..8 : f[i] \in Int
    PROVE  FoldFunction(+, 0, f) = f[1] + f[2] + f[3] + f[4] + f[5] + f[6] + f[7] + f[8]
<1>1. FoldFunction(+, 0, f) = (CHOOSE r : Added(r, f))[1..8]
  BY Zenon DEF FoldFunction, FoldFunctionOnSet, MapThenFoldSet, Added
<1>2. \E r : Added(r, f)
  BY SumsAreAdded
<1>3. PICK r : r = CHOOSE q : Added(q, f)
  OBVIOUS
<1>4. Added(r, f)
  BY <1>2, <1>3
<1>5. /\ r[{}] = 0
      /\ \A s \in SUBSET (1..8) : s # {} => \E x \in s : r[s] = f[x] + r[s \ {x}]
  <2>1. \A s \in SUBSET (1..8) :
          r[s] = IF s = {} THEN 0 ELSE LET x == CHOOSE x \in s : TRUE IN f[x] + r[s \ {x}]
    BY <1>4 DEF Added
  <2> QED
    BY <2>1
<1> DEFINE Wrong == {s \in SUBSET (1..8) : r[s] # SumOver(f, s)}
<1>6. Wrong = {}
  <2> SUFFICES ASSUME Wrong # {} PROVE FALSE
    OBVIOUS
  <2>1. Wrong \subseteq FiniteSubsetsOf(1..8)
    <3>1. IsFiniteSet(1..8)
      <4>1. 1 \in Int /\ 8 \in Int
        OBVIOUS
      <4> QED
        BY <4>1, FS_Interval, Zenon
    <3>2. \A s \in SUBSET (1..8) : IsFiniteSet(s)
      BY <3>1, FS_Subset
    <3> QED
      BY <3>2 DEF FiniteSubsetsOf
  <2>2. PICK s \in Wrong : \A y \in Wrong : ~(<<y, s>> \in StrictSubsetOrdering(1..8))
    <3> HIDE DEF Wrong
    <3> QED
      BY <2>1, FS_StrictSubsetOrderingWellFounded, WFMin
  <2>3. s # {}
    <3>1. SumOver(f, {}) = 0
      BY DEF SumOver, Part
    <3> QED
      BY <1>5, <2>2, <3>1
  <2>4. PICK x \in s : r[s] = f[x] + r[s \ {x}]
    BY <1>5, <2>2, <2>3
  <2>5. s \ {x} \in SUBSET (1..8) /\ <<s \ {x}, s>> \in StrictSubsetOrdering(1..8)
    BY <2>2, <2>4 DEF StrictSubsetOrdering
  <2>6. r[s \ {x}] = SumOver(f, s \ {x})
    BY <2>2, <2>5
  <2> QED
    BY <2>2, <2>4, <2>6, OneSummandMore
<1>7. r[1..8] = SumOver(f, 1..8)
  BY <1>6
<1>8. SumOver(f, 1..8) = f[1] + f[2] + f[3] + f[4] + f[5] + f[6] + f[7] + f[8]
  BY DEF SumOver, Part
<1> QED
  BY <1>1, <1>3, <1>7, <1>8

-----------------------------------------------------------------------------
(* Rows that other rows rest on                                            *)

Submitted == request.status \notin {"none", "draft"}

Uploads == [status : AssetStatus, object : {"none", "match", "other"}]

\* What was received is the object that was announced, also when a slicer
\* refused it: only such uploads are taken up again.
ObjectsMatch ==
    \A a \in Asset : asset[a].status \in {"quarantined", "validated", "slicer_rejected"}
        => asset[a].object = "match"

\* PricedModelsAreWhole with what it rests on: a priced request is never
\* analysed again.
UploadsWhole ==
    /\ asset \in [Asset -> Uploads]
    /\ ObjectsMatch
    /\ Submitted => Known # {} /\ \A a \in Known : asset[a].status # "pending_upload"
    /\ estimates # <<>> =>
         /\ request.status \in {"estimate_ready", "quoted", "rejected"}
         /\ \A a \in Known : asset[a].status = "validated"

\* Who issues or rejects found a request that was submitted.
Whole ==
    /\ UploadsWhole
    /\ \A s \in Session : tx[s].at \in {"issue", "reject"} => Submitted

Total(lines) == FoldFunction(+, 0, lines)

Covers(tax, amount, bps) == tax * 10000 >= amount * bps

TaxCovers(row, known) ==
    Covers(row.tax, known.price.pre_tax + row.adjustment, Card[known.policy].tax_bps)

\* A quotation adds up and covers the tax on the estimate it rests on.
Fits(row, known) ==
    /\ row.estimate \in 1..Len(known)
    /\ row.tax \in Nat /\ row.total \in Nat \ {0}
    /\ Total(row.lines) = row.total
    /\ TaxCovers(row, known[row.estimate])

Sums ==
    /\ \A k \in 1..Len(estimates) :
         estimates[k].price = Breakdown(request.measured, Card[estimates[k].policy])
    /\ \A q \in 1..Len(quotes) : Fits(quotes[q], estimates)

\* The bounds, and room for the quotation that a session may still issue.
Bounds ==
    /\ request.runs \in 0..MaxRuns
    /\ policy \in [Policy -> {"none", "draft", "active", "retired"}]
    /\ Len(estimates) <= MaxEstimates /\ Len(quotes) <= MaxQuotes
    /\ \A s \in Session :
         tx[s].at = "issue" /\ tx[s].version = request.version => Len(quotes) < MaxQuotes

WholeInv == OfferInv /\ Whole /\ Sums /\ Bounds

-----------------------------------------------------------------------------
(* What a step may do                                                      *)

\* A session that goes on to issue or reject found a request that was
\* submitted, and room for its quotation, and is the only one that moves.
SessionsBegin ==
    \A s \in Session :
        tx'[s].at \in {"issue", "reject"}
            => \/ tx'[s] = tx[s]
               \/ /\ UNCHANGED <<request, quotes>> /\ Submitted
                  /\ tx'[s].at = "issue" => Len(quotes) < MaxQuotes

\* A quotation is added under a new version only.
VersionsMark == \/ UNCHANGED request /\ Len(quotes') = Len(quotes)
                \/ request'.version > request.version

PaceStep == SessionsBegin /\ VersionsMark /\ (Submitted => Submitted')

LEMMA KeptBegin == SessionsKept => SessionsBegin
  BY IdleTyped DEF SessionsKept, SessionsBegin

LEMMA BegunBegin ==
    ASSUME tx \in [Session -> Tx], UNCHANGED <<request, quotes>>, NEW s \in Session, NEW t,
           tx' = [tx EXCEPT ![s] = t],
           t.at \in {"issue", "reject"} => Submitted,
           t.at = "issue" => Len(quotes) < MaxQuotes
    PROVE  PaceStep
  BY DEF PaceStep, SessionsBegin, VersionsMark, Submitted

LEMMA StillPace ==
    ASSUME SessionsKept, UNCHANGED request, Len(quotes') = Len(quotes)
    PROVE  PaceStep
  BY KeptBegin DEF PaceStep, VersionsMark, Submitted

LEMMA OnwardPace ==
    ASSUME SessionsKept, request'.version > request.version,
           request'.status \notin {"none", "draft"} \/ ~Submitted
    PROVE  PaceStep
  BY KeptBegin DEF PaceStep, VersionsMark, Submitted

LEMMA DraftingPace ==
    ASSUME OfferInv, Drafting
    PROVE  PaceStep
<1>1. SessionsKept
  <2>1. UNCHANGED tx
    BY DEF Drafting, CreateRequest, Submit, IssueUpload, PutObject, CompleteUpload
  <2> QED
    BY <2>1, DoneKeeps DEF OfferInv, Shape
<1>2. CASE CreateRequest
  <2> DEFINE u == [request EXCEPT !.status = "draft"]
  <2>1. request \in RequestShape /\ request.version = 0
    BY <1>2 DEF OfferInv, Shape, CreateRequest
  <2>2. u \in RequestShape
    BY <2>1 DEF RequestShape, RequestStatus
  <2>3. request' = [u EXCEPT !.version = 1]
    BY <1>2 DEF CreateRequest
  <2> HIDE DEF u
  <2>4. request'.version = 1
    BY <2>2, <2>3 DEF RequestShape
  <2> QED
    BY <1>1, <1>2, <2>1, <2>4, OnwardPace DEF CreateRequest, Submitted
<1>3. CASE Submit
  <2>1. request'.status = "analyzing" /\ request'.version > request.version
    BY <1>3, SubmitQueues, QueuedRequest
  <2> QED
    BY <1>1, <2>1, OnwardPace
<1>4. CASE UNCHANGED <<request, quotes>>
  BY <1>1, <1>4, StillPace
<1> QED
  BY <1>2, <1>3, <1>4 DEF Drafting, IssueUpload, PutObject, CompleteUpload

LEMMA AnalysisPace ==
    ASSUME OfferInv, Analysis
    PROVE  PaceStep
<1>1. SessionsKept
  <2>1. UNCHANGED tx
    BY DEF Analysis, AnalysisSucceeds, AnalysisAwaitsProfile, AnalysisFails, RetrySlicing
  <2> QED
    BY <2>1, DoneKeeps DEF OfferInv, Shape
<1>2. ASSUME NEW measured \in Measured, AnalysisSucceeds(measured)
      PROVE  request'.status = "analysis_ready" /\ request'.version > request.version
  BY <1>2, VerdictRequest DEF AnalysisSucceeds, RequestStatus, RunStatus
<1>3. CASE AnalysisAwaitsProfile
  <2>1. request'.status = "analysis_ready" /\ request'.version > request.version
    BY <1>3, VerdictRequest DEF AnalysisAwaitsProfile, RequestStatus, RunStatus
  <2> QED
    BY <1>1, <2>1, OnwardPace
<1>4. ASSUME NEW culprits, NEW run \in {"slicer_failed", "failed"}, AnalysisFails(culprits, run)
      PROVE  request'.status = "analysis_failed" /\ request'.version > request.version
  BY <1>4, VerdictRequest DEF AnalysisFails, RequestStatus, RunStatus
<1>5. CASE RetrySlicing
  <2>1. request'.status = "analyzing" /\ request'.version > request.version
    BY <1>5, RetryQueues, QueuedRequest
  <2> QED
    BY <1>1, <2>1, OnwardPace
<1>6. CASE /\ request'.status \in {"analysis_ready", "analysis_failed"}
           /\ request'.version > request.version
  BY <1>1, <1>6, OnwardPace
<1> QED
  BY <1>2, <1>3, <1>4, <1>5, <1>6 DEF Analysis

LEMMA RatesPace ==
    ASSUME OfferInv, Rates
    PROVE  PaceStep
<1>1. request \in RequestShape /\ request.version \in Nat /\ tx \in [Session -> Tx]
  BY RowsTyped DEF OfferInv, Shape
<1>2. ASSUME NEW p \in Policy, CreateEstimate(p) PROVE PaceStep
  <2>1. request'.status = "estimate_ready" /\ request'.version = request.version + 1
    BY <1>1, <1>2, RequestAdvanced DEF CreateEstimate, Estimated, RequestStatus
  <2>2. SessionsKept
    BY <1>1, <1>2, DoneKeeps DEF CreateEstimate, Estimated
  <2> QED
    BY <1>1, <2>1, <2>2, OnwardPace
<1>3. ASSUME NEW s \in Owner, NEW p \in Policy, BeginActivate(s, p) PROVE PaceStep
  <2> DEFINE found == IF ActivePolicies = {} THEN 0 ELSE CHOOSE c \in ActivePolicies : TRUE
             t == [at |-> "activate", of |-> p, version |-> found]
  <2>1. UNCHANGED <<request, quotes>> /\ tx' = [tx EXCEPT ![s] = t]
    BY <1>3 DEF BeginActivate, Begun
  <2> QED
    BY <1>1, <2>1, BegunBegin DEF Session
<1>4. ASSUME NEW s \in Owner, CommitActivate(s) PROVE PaceStep
  <2>1. Done(s) /\ UNCHANGED <<request, quotes>>
    BY <1>4 DEF CommitActivate, Rollback
  <2> QED
    BY <1>1, <2>1, DoneKeeps, StillPace
<1>5. ASSUME NEW p \in Policy, CreatePolicy(p) PROVE PaceStep
  BY <1>1, <1>5, DoneKeeps, StillPace DEF CreatePolicy
<1> QED
  BY <1>2, <1>3, <1>4, <1>5 DEF Rates, FirstEstimate

LEMMA OfferingPace ==
    ASSUME OfferInv, Whole, Offering
    PROVE  PaceStep
<1>1. /\ request \in RequestShape /\ tx \in [Session -> Tx] /\ request.version \in Nat
  BY RowsTyped DEF OfferInv, Shape
<1>2. ASSUME NEW s \in Session, Rollback(s) PROVE PaceStep
  BY <1>1, <1>2, DoneKeeps, StillPace DEF Rollback
<1>3. ASSUME NEW s \in Session, NEW k \in DOMAIN estimates, BeginIssue(s, k) PROVE PaceStep
  <2> DEFINE t == [at |-> "issue", of |-> k, version |-> request.version]
  <2>1. /\ UNCHANGED <<request, quotes>> /\ tx' = [tx EXCEPT ![s] = t]
        /\ Submitted /\ Len(quotes) < MaxQuotes
    BY <1>3 DEF BeginIssue, Begun, MayIssue, Submitted
  <2> QED
    BY <1>1, <2>1, BegunBegin
<1>4. ASSUME NEW s \in Session, NEW adjustment, NEW fulfilment,
             CommitIssue(s, adjustment, fulfilment)
      PROVE  PaceStep
  <2>1. CASE Unchanged(s)
    <3>1. request' = Advanced("quoted") /\ Done(s)
      BY <1>4, <2>1 DEF CommitIssue, Issued
    <3>2. request'.status = "quoted" /\ request'.version = request.version + 1
      BY <1>1, <3>1, RequestAdvanced DEF RequestStatus
    <3> QED
      BY <1>1, <3>1, <3>2, DoneKeeps, OnwardPace
  <2>2. CASE ~Unchanged(s)
    BY <1>2, <1>4, <2>2 DEF CommitIssue
  <2> QED
    BY <2>1, <2>2
<1>5. ASSUME NEW s \in Session, BeginReject(s) PROVE PaceStep
  <2> DEFINE t == [at |-> "reject", of |-> 0, version |-> request.version]
  <2>1. /\ UNCHANGED <<request, quotes>> /\ tx' = [tx EXCEPT ![s] = t] /\ Submitted
    BY <1>5 DEF BeginReject, Begun, Submitted
  <2> QED
    BY <1>1, <2>1, BegunBegin
<1>6. ASSUME NEW s \in Session, CommitReject(s) PROVE PaceStep
  <2>1. CASE Unchanged(s)
    <3>1. request' = Advanced("rejected") /\ Done(s)
      BY <1>6, <2>1 DEF CommitReject
    <3>2. request'.status = "rejected" /\ request'.version = request.version + 1
      BY <1>1, <3>1, RequestAdvanced DEF RequestStatus
    <3> QED
      BY <1>1, <3>1, <3>2, DoneKeeps, OnwardPace
  <2>2. CASE ~Unchanged(s)
    BY <1>2, <1>6, <2>2 DEF CommitReject
  <2> QED
    BY <2>1, <2>2
<1>7. ASSUME NEW s \in Session, NEW q \in DOMAIN quotes, BeginAccept(s, q) PROVE PaceStep
  <2> DEFINE t == [at |-> "quote", of |-> q, version |-> 0]
  <2>1. UNCHANGED <<request, quotes>> /\ tx' = [tx EXCEPT ![s] = t]
    BY <1>7 DEF BeginAccept, Begun
  <2> QED
    BY <1>1, <2>1, BegunBegin
<1>8. ASSUME NEW s \in Session, ReadRequest(s) PROVE PaceStep
  <2> DEFINE t == [tx[s] EXCEPT !.at = "accept", !.version = request.version]
  <2>1. t.at = "accept"
    BY <1>1, VersionRead
  <2>2. UNCHANGED <<request, quotes>> /\ tx' = [tx EXCEPT ![s] = t]
    BY <1>1, <1>8 DEF ReadRequest
  <2> HIDE DEF t
  <2> QED
    BY <1>1, <2>1, <2>2, BegunBegin
<1>9. ASSUME NEW s \in Session, CommitAccept(s) PROVE PaceStep
  <2> DEFINE q == tx[s].of
  <2>1. CASE Unchanged(s) /\ quotes[q].status = "issued" /\ Reconciles(q)
    <3>1. request' = [request EXCEPT !.version = @ + 1] /\ Done(s)
      BY <1>9, <2>1 DEF CommitAccept, Accepted
    <3>2. request'.status = request.status /\ request'.version > request.version
      BY <1>1, <3>1 DEF RequestShape
    <3> QED
      BY <1>1, <3>1, <3>2, DoneKeeps, OnwardPace DEF Submitted
  <2>2. CASE ~(Unchanged(s) /\ quotes[q].status = "issued" /\ Reconciles(q))
    BY <1>2, <1>9, <2>2 DEF CommitAccept
  <2> QED
    BY <2>1, <2>2
<1>10. CASE \E s \in Owner :
               \/ \E k \in DOMAIN estimates : BeginIssue(s, k)
               \/ \E adjustment \in Adjustment, fulfilment \in Fulfilment :
                    CommitIssue(s, adjustment, fulfilment)
               \/ BeginReject(s)
               \/ CommitReject(s)
  BY <1>3, <1>4, <1>5, <1>6, <1>10 DEF Session
<1>11. CASE \E s \in Buyer : \/ \E q \in DOMAIN quotes : BeginAccept(s, q)
                             \/ ReadRequest(s)
                             \/ CommitAccept(s)
  BY <1>7, <1>8, <1>9, <1>11 DEF Session
<1> QED
  BY <1>2, <1>10, <1>11 DEF Offering

LEMMA EveryPace ==
    ASSUME OfferInv, Whole, [Next]_vars
    PROVE  PaceStep
<1>1. tx \in [Session -> Tx]
  BY DEF OfferInv, Shape
<1>2. ASSUME UNCHANGED <<request, quotes, tx>> PROVE PaceStep
  BY <1>1, <1>2, DoneKeeps, StillPace
<1>3. CASE UNCHANGED vars \/ (Quiet /\ NoticesNext /\ UNCHANGED offer)
  BY <1>2, <1>3 DEF vars, offer
<1>4. ASSUME NEW k \in DOMAIN estimates, EstimateExpires(k) PROVE PaceStep
  BY <1>2, <1>4 DEF EstimateExpires
<1>5. ASSUME NEW q \in DOMAIN quotes, QuoteExpires(q) PROVE PaceStep
  <2> DEFINE row == [quotes[q] EXCEPT !.live = FALSE]
  <2>1. quotes \in Seq(OfferRow) /\ q \in 1..Len(quotes) /\ quotes[q] \in OfferRow
    BY RowsTyped DEF OfferInv, Shape
  <2>2. row \in OfferRow
    BY <2>1 DEF OfferRow
  <2>3. quotes' = [quotes EXCEPT ![q] = row] /\ UNCHANGED <<request, tx>>
    BY <1>5, <2>1 DEF QuoteExpires
  <2> HIDE DEF row
  <2>4. Len(quotes') = Len(quotes)
    BY <2>1, <2>2, <2>3, RowUpdated
  <2> QED
    BY <1>1, <2>3, <2>4, DoneKeeps, StillPace
<1> QED
  BY <1>3, <1>4, <1>5, DraftingPace, AnalysisPace, RatesPace, OfferingPace DEF Next, Expiry

\* The parts of the invariant about sessions follow from that alone.
LEMMA SessionsStayBounded ==
    ASSUME OfferInv, OfferInv', Whole, Bounds, PaceStep
    PROVE  /\ \A s \in Session : tx'[s].at \in {"issue", "reject"} => Submitted'
           /\ \A s \in Session :
                tx'[s].at = "issue" /\ tx'[s].version = request'.version => Len(quotes') < MaxQuotes
<1>1. ASSUME NEW s \in Session, tx'[s].at \in {"issue", "reject"} PROVE Submitted'
  BY <1>1 DEF PaceStep, SessionsBegin, Whole
<1>2. ASSUME NEW s \in Session, tx'[s].at = "issue", tx'[s].version = request'.version
      PROVE  Len(quotes') < MaxQuotes
  <2>1. CASE tx'[s] = tx[s] /\ UNCHANGED request /\ Len(quotes') = Len(quotes)
    BY <1>2, <2>1 DEF Bounds
  <2>2. CASE tx'[s] = tx[s] /\ request'.version > request.version
    <3>1. tx[s].version <= request.version
      BY <1>2, <2>2 DEF OfferInv, ReadsStillHold
    <3>2. request.version \in Nat /\ tx[s].version \in Nat
      BY RowsTyped DEF OfferInv, Shape, Tx
    <3> QED
      BY <1>2, <2>2, <3>1, <3>2
  <2>3. CASE tx'[s] # tx[s]
    BY <1>2, <2>3 DEF PaceStep, SessionsBegin
  <2> QED
    BY <2>1, <2>2, <2>3 DEF PaceStep, VersionsMark
<1> QED
  BY <1>1, <1>2

-----------------------------------------------------------------------------
(* Uploads                                                                 *)

Marked(r, status) == [r EXCEPT !.status = status]

LEMMA MarkedUpload ==
    ASSUME NEW r \in Uploads
    PROVE  \A status \in AssetStatus : /\ Marked(r, status) \in Uploads
                                       /\ Marked(r, status).status = status
                                       /\ Marked(r, status).object = r.object
  BY DEF Uploads, Marked

LEMMA StoredUpload ==
    ASSUME NEW r \in Uploads
    PROVE  \A object \in {"match", "other"} : /\ [r EXCEPT !.object = object] \in Uploads
                                             /\ [r EXCEPT !.object = object].status = r.status
  BY DEF Uploads

\* Steps that leave the uploads alone.
LEMMA UploadsRest ==
    ASSUME UploadsWhole, UNCHANGED asset, estimates' # <<>> => estimates # <<>>,
           Submitted' => Submitted,
           estimates # <<>> => request'.status \in {"estimate_ready", "quoted", "rejected"}
    PROVE  UploadsWhole'
<1>1. Known' = Known /\ ObjectsMatch'
  BY DEF Known, UploadsWhole, ObjectsMatch
<1> QED
  BY <1>1 DEF UploadsWhole

LEMMA UploadsUntouched ==
    ASSUME UploadsWhole, UNCHANGED <<asset, request, estimates>>
    PROVE  UploadsWhole'
  BY UploadsRest DEF Submitted, UploadsWhole

\* Until the analysis has ended there is no estimate.
LEMMA NoPriceYet ==
    ASSUME UploadsWhole, Drafting \/ Analysis
    PROVE  estimates = <<>> /\ UNCHANGED <<estimates, quotes>>
<1>1. ASSUME request.status \notin {"estimate_ready", "quoted", "rejected"}
      PROVE  estimates = <<>>
  BY <1>1 DEF UploadsWhole
<1>2. ASSUME NEW a \in Asset, asset[a].status = "pending_upload" PROVE estimates = <<>>
  BY <1>2 DEF UploadsWhole, Submitted, Known
<1>3. CASE Drafting
  BY <1>1, <1>2, <1>3 DEF Drafting, CreateRequest, Submit, IssueUpload, PutObject, CompleteUpload
<1>4. CASE Analysis
  BY <1>1, <1>4 DEF Analysis, AnalysisSucceeds, AnalysisAwaitsProfile, AnalysisFails, RetrySlicing
<1> QED
  BY <1>3, <1>4

\* One upload changes before the submission.
LEMMA OneUploadChanges ==
    ASSUME UploadsWhole, estimates = <<>>, ~Submitted, UNCHANGED <<request, estimates>>,
           NEW a \in Asset, NEW row \in Uploads, asset' = [asset EXCEPT ![a] = row],
           row.status \in {"quarantined", "validated", "slicer_rejected"} => row.object = "match"
    PROVE  UploadsWhole'
<1>1. asset' \in [Asset -> Uploads]
  BY DEF UploadsWhole
<1>2. ObjectsMatch'
  BY DEF UploadsWhole, ObjectsMatch
<1> QED
  BY <1>1, <1>2 DEF UploadsWhole, Submitted

LEMMA DraftingUploads ==
    ASSUME OfferInv, UploadsWhole, Drafting
    PROVE  UploadsWhole'
<1>1. estimates = <<>> /\ UNCHANGED estimates
  BY NoPriceYet
<1>2. asset \in [Asset -> Uploads] /\ \A a \in Asset : asset[a] \in Uploads
  BY DEF UploadsWhole
<1>3. CASE CreateRequest
  <2>1. request'.status = "draft"
    <3> DEFINE u == [request EXCEPT !.status = "draft"]
    <3>1. u \in RequestShape /\ u.status = "draft"
      BY DEF OfferInv, Shape, RequestShape, RequestStatus
    <3>2. request' = [u EXCEPT !.version = 1]
      BY <1>3 DEF CreateRequest
    <3> HIDE DEF u
    <3> QED
      BY <3>1, <3>2 DEF RequestShape
  <2> QED
    BY <1>1, <1>3, <2>1, UploadsRest DEF CreateRequest, Submitted
<1>4. CASE Submit
  <2>1. request'.status = "analyzing"
    BY <1>4, SubmitQueues, QueuedRequest
  <2>2. Known' = Known /\ ObjectsMatch' /\ asset' = asset
    BY <1>4 DEF Submit, Known, UploadsWhole, ObjectsMatch
  <2>3. Known # {} /\ \A a \in Known : asset[a].status # "pending_upload"
    BY <1>4 DEF Submit, Active
  <2> QED
    BY <1>1, <1>2, <2>2, <2>3 DEF UploadsWhole
<1>5. ASSUME NEW a \in Asset, IssueUpload(a) PROVE UploadsWhole'
  <2> DEFINE row == Marked(asset[a], "pending_upload")
  <2>1. "pending_upload" \in AssetStatus
    BY DEF AssetStatus
  <2>2. row \in Uploads /\ row.status = "pending_upload"
    BY <1>2, <2>1, MarkedUpload
  <2>3. asset' = [asset EXCEPT ![a] = row] /\ UNCHANGED request /\ ~Submitted
    BY <1>2, <1>5 DEF IssueUpload, Submitted, Marked
  <2> HIDE DEF row
  <2> QED
    BY <1>1, <2>2, <2>3, OneUploadChanges
<1>6. ASSUME NEW a \in Asset, asset[a].status = "pending_upload" PROVE ~Submitted
  BY <1>6 DEF UploadsWhole, Known
<1>7. ASSUME NEW a \in Asset, NEW object \in {"match", "other"}, PutObject(a, object)
      PROVE  UploadsWhole'
  <2> DEFINE row == [asset[a] EXCEPT !.object = object]
  <2>1. row \in Uploads /\ row.status = "pending_upload"
    BY <1>2, <1>7, StoredUpload DEF PutObject
  <2>2. asset' = [asset EXCEPT ![a] = row] /\ UNCHANGED request
    BY <1>2, <1>7 DEF PutObject
  <2>3. ~Submitted
    BY <1>6, <1>7 DEF PutObject
  <2> HIDE DEF row
  <2> QED
    BY <1>1, <2>1, <2>2, <2>3, OneUploadChanges
<1>8. ASSUME NEW a \in Asset, CompleteUpload(a) PROVE UploadsWhole'
  <2> DEFINE row == IF asset[a].object = "match" THEN Marked(asset[a], "quarantined")
                    ELSE [status |-> "rejected", object |-> "none"]
  <2>1. /\ row \in Uploads
        /\ row.status \in {"quarantined", "validated", "slicer_rejected"} => row.object = "match"
    <3>1. CASE asset[a].object = "match"
      <4>1. "quarantined" \in AssetStatus
        BY DEF AssetStatus
      <4>2. /\ Marked(asset[a], "quarantined") \in Uploads
            /\ Marked(asset[a], "quarantined").object = asset[a].object
        BY <1>2, <4>1, MarkedUpload
      <4> QED
        BY <3>1, <4>2
    <3>2. CASE asset[a].object # "match"
      BY <3>2 DEF Uploads, AssetStatus
    <3> QED
      BY <3>1, <3>2
  <2>2. asset' = [asset EXCEPT ![a] = row] /\ UNCHANGED request
    BY <1>2, <1>8 DEF CompleteUpload, Marked
  <2>3. ~Submitted
    BY <1>6, <1>8 DEF CompleteUpload
  <2> HIDE DEF row
  <2> QED
    BY <1>1, <2>1, <2>2, <2>3, OneUploadChanges
<1> QED
  BY <1>3, <1>4, <1>5, <1>7, <1>8 DEF Drafting

\* An analysis relabels uploads that are known and received.
LEMMA UploadsRelabelled ==
    ASSUME UploadsWhole, Submitted, estimates' = <<>>,
           asset' = [a \in Asset |-> asset'[a]],
           \A a \in Asset :
              \/ asset'[a] = asset[a]
              \/ /\ asset[a].status # "none"
                 /\ \E status \in {"quarantined", "validated", "slicer_rejected", "rejected"} :
                      /\ asset'[a] = Marked(asset[a], status)
                      /\ status # "rejected" => asset[a].object = "match"
    PROVE  UploadsWhole'
<1>1. asset \in [Asset -> Uploads] /\ \A a \in Asset : asset[a] \in Uploads
  BY DEF UploadsWhole
<1>2. \A a \in Asset : /\ asset'[a] \in Uploads
                       /\ asset'[a].status = "none" <=> asset[a].status = "none"
                       /\ asset'[a].status = "pending_upload" => asset[a].status = "pending_upload"
                       /\ asset'[a].status \in {"quarantined", "validated", "slicer_rejected"}
                            => asset'[a].object = "match"
  <2> SUFFICES ASSUME NEW a \in Asset
               PROVE  /\ asset'[a] \in Uploads
                      /\ asset'[a].status = "none" <=> asset[a].status = "none"
                      /\ asset'[a].status = "pending_upload" => asset[a].status = "pending_upload"
                      /\ asset'[a].status \in {"quarantined", "validated", "slicer_rejected"}
                           => asset'[a].object = "match"
    OBVIOUS
  <2>1. CASE asset'[a] = asset[a]
    BY <1>1, <2>1 DEF UploadsWhole, ObjectsMatch
  <2>2. CASE /\ asset[a].status # "none"
             /\ \E status \in {"quarantined", "validated", "slicer_rejected", "rejected"} :
                  /\ asset'[a] = Marked(asset[a], status)
                  /\ status # "rejected" => asset[a].object = "match"
    <3>1. PICK status \in {"quarantined", "validated", "slicer_rejected", "rejected"} :
                  /\ asset'[a] = Marked(asset[a], status)
                  /\ status # "rejected" => asset[a].object = "match"
      BY <2>2
    <3>2. status \in AssetStatus
      BY DEF AssetStatus
    <3>3. asset'[a] \in Uploads /\ asset'[a].status = status /\ asset'[a].object = asset[a].object
      BY <1>1, <3>1, <3>2, MarkedUpload
    <3> QED
      BY <2>2, <3>1, <3>3
  <2> QED
    BY <2>1, <2>2
<1>3. asset' \in [Asset -> Uploads]
  BY <1>2
<1>4. Known' = Known
  BY <1>2, <1>3 DEF Known
<1>5. ObjectsMatch'
  BY <1>2, <1>3 DEF ObjectsMatch
<1>6. Known # {} /\ \A a \in Known : asset'[a].status # "pending_upload"
  BY <1>2, <1>3 DEF UploadsWhole, Known
<1> QED
  BY <1>3, <1>4, <1>5, <1>6 DEF UploadsWhole

LEMMA AnalysisUploads ==
    ASSUME UploadsWhole, Analysis
    PROVE  UploadsWhole'
<1>1. estimates' = <<>>
  BY NoPriceYet
<1>2. Submitted
  BY DEF Analysis, AnalysisSucceeds, AnalysisAwaitsProfile, AnalysisFails, RetrySlicing, Submitted
<1>3. /\ asset \in [Asset -> Uploads] /\ ObjectsMatch
      /\ \A a \in Asset : asset[a] \in Uploads
                          /\ asset[a].status \in AssetStatus \ {"pending_upload"}
  BY <1>2 DEF UploadsWhole, Known, Uploads, AssetStatus
<1>4. CASE Rated("validated")
  <2> DEFINE row(a) == IF asset[a].status = "quarantined" THEN Marked(asset[a], "validated")
                       ELSE asset[a]
  <2>1. asset' = [a \in Asset |-> asset'[a]] /\ \A a \in Asset : asset'[a] = row(a)
    BY <1>4 DEF Rated, Marked
  <2>2. \A a \in Asset :
           \/ asset'[a] = asset[a]
           \/ /\ asset[a].status # "none"
              /\ \E status \in {"quarantined", "validated", "slicer_rejected", "rejected"} :
                   /\ asset'[a] = Marked(asset[a], status)
                   /\ status # "rejected" => asset[a].object = "match"
    BY <1>3, <2>1 DEF ObjectsMatch
  <2> HIDE DEF row
  <2> QED
    BY <1>1, <1>2, <2>1, <2>2, UploadsRelabelled
<1>5. ASSUME NEW culprits \in SUBSET Active, NEW run, AnalysisFails(culprits, run)
      PROVE  UploadsWhole'
  <2> DEFINE label == IF run = "slicer_failed" THEN "slicer_rejected" ELSE "rejected"
             row(a) == IF a \in culprits THEN Marked(asset[a], label) ELSE asset[a]
  <2>1. asset' = [a \in Asset |-> asset'[a]] /\ \A a \in Asset : asset'[a] = row(a)
    BY <1>5 DEF AnalysisFails, Marked
  <2>2. \A a \in culprits : /\ a \in Asset /\ asset[a].status # "none"
                            /\ asset[a].object = "match"
    BY <1>3 DEF Active, Known, ObjectsMatch, AssetStatus
  <2>3. label \in {"slicer_rejected", "rejected"}
    OBVIOUS
  <2> HIDE DEF label
  <2>4. \A a \in Asset :
           \/ asset'[a] = asset[a]
           \/ /\ asset[a].status # "none"
              /\ \E status \in {"quarantined", "validated", "slicer_rejected", "rejected"} :
                   /\ asset'[a] = Marked(asset[a], status)
                   /\ status # "rejected" => asset[a].object = "match"
    BY <2>1, <2>2, <2>3
  <2> HIDE DEF row
  <2> QED
    BY <1>1, <1>2, <2>1, <2>4, UploadsRelabelled
<1>6. CASE RetrySlicing
  <2> DEFINE row(a) == IF a \in Known THEN Marked(asset[a], "quarantined") ELSE asset[a]
  <2>1. asset' = [a \in Asset |-> asset'[a]] /\ \A a \in Asset : asset'[a] = row(a)
    BY <1>6 DEF RetrySlicing, Marked
  <2>2. \A a \in Known : /\ a \in Asset /\ asset[a].status # "none"
                         /\ asset[a].object = "match"
    BY <1>3, <1>6 DEF RetrySlicing, Known, ObjectsMatch, AssetStatus
  <2>3. \A a \in Asset :
           \/ asset'[a] = asset[a]
           \/ /\ asset[a].status # "none"
              /\ \E status \in {"quarantined", "validated", "slicer_rejected", "rejected"} :
                   /\ asset'[a] = Marked(asset[a], status)
                   /\ status # "rejected" => asset[a].object = "match"
    BY <2>1, <2>2
  <2> HIDE DEF row
  <2> QED
    BY <1>1, <1>2, <2>1, <2>3, UploadsRelabelled
<1>7. \A a \in Active : {a} \subseteq Active
  OBVIOUS
<1> QED
  BY <1>4, <1>5, <1>6, <1>7 DEF Analysis, AnalysisSucceeds, AnalysisAwaitsProfile

LEMMA CreateEstimateUploads ==
    ASSUME OfferInv, UploadsWhole, NEW p \in Policy, CreateEstimate(p)
    PROVE  UploadsWhole'
<1>1. request'.status = "estimate_ready"
  BY RequestAdvanced DEF CreateEstimate, Estimated, OfferInv, Shape, RequestStatus
<1>2. Submitted /\ UNCHANGED asset /\ \A a \in Known : asset[a].status = "validated"
  BY DEF CreateEstimate, Estimated, Submitted, Covered
<1>3. Known' = Known /\ ObjectsMatch'
  BY <1>2 DEF Known, UploadsWhole, ObjectsMatch
<1> QED
  BY <1>1, <1>2, <1>3 DEF UploadsWhole

LEMMA StepKeepsUploads ==
    ASSUME OfferInv, Whole, [Next]_vars
    PROVE  UploadsWhole'
<1>1. UploadsWhole /\ request \in RequestShape
  BY DEF Whole, OfferInv, Shape
<1>2. CASE UNCHANGED vars \/ (Quiet /\ NoticesNext /\ UNCHANGED offer)
  BY <1>1, <1>2, UploadsUntouched DEF vars, offer
<1>3. CASE Drafting
  BY <1>1, <1>3, DraftingUploads
<1>4. CASE Analysis
  BY <1>1, <1>4, AnalysisUploads
<1>5. CASE Rates
  <2>1. ASSUME UNCHANGED <<asset, request, estimates>> PROVE UploadsWhole'
    BY <1>1, <2>1, UploadsUntouched
  <2> QED
    BY <1>1, <1>5, <2>1, CreateEstimateUploads
    DEF Rates, FirstEstimate, CreatePolicy, BeginActivate, Begun, CommitActivate, Rollback
<1>6. ASSUME NEW s \in Session, Rollback(s) PROVE UploadsWhole'
  BY <1>1, <1>6, UploadsUntouched DEF Rollback
<1>7. ASSUME NEW s \in Session, NEW adjustment, NEW fulfilment,
             CommitIssue(s, adjustment, fulfilment)
      PROVE  UploadsWhole'
  <2>1. CASE Unchanged(s)
    <3>1. request'.status = "quoted" /\ UNCHANGED <<asset, estimates>> /\ Submitted
      BY <1>1, <1>7, <2>1, RequestAdvanced DEF CommitIssue, Issued, RequestStatus, Whole
    <3> QED
      BY <1>1, <3>1, UploadsRest
  <2>2. CASE ~Unchanged(s)
    BY <1>6, <1>7, <2>2 DEF CommitIssue
  <2> QED
    BY <2>1, <2>2
<1>8. ASSUME NEW s \in Session, CommitReject(s) PROVE UploadsWhole'
  <2>1. CASE Unchanged(s)
    <3>1. request'.status = "rejected" /\ UNCHANGED <<asset, estimates>> /\ Submitted
      BY <1>1, <1>8, <2>1, RequestAdvanced DEF CommitReject, RequestStatus, Whole
    <3> QED
      BY <1>1, <3>1, UploadsRest
  <2>2. CASE ~Unchanged(s)
    BY <1>6, <1>8, <2>2 DEF CommitReject
  <2> QED
    BY <2>1, <2>2
<1>9. ASSUME NEW s \in Session, CommitAccept(s) PROVE UploadsWhole'
  <2>1. CASE request' = [request EXCEPT !.version = @ + 1] /\ UNCHANGED <<asset, estimates>>
    <3>1. request'.status = request.status
      BY <1>1, <2>1 DEF RequestShape
    <3> QED
      BY <1>1, <2>1, <3>1, UploadsRest DEF Submitted, UploadsWhole
  <2> QED
    BY <1>6, <1>9, <2>1 DEF CommitAccept, Accepted
<1>10. CASE Offering
  <2>1. ASSUME UNCHANGED <<asset, request, estimates>> PROVE UploadsWhole'
    BY <1>1, <2>1, UploadsUntouched
  <2>2. CASE \E s \in Owner :
               \/ \E k \in DOMAIN estimates : BeginIssue(s, k)
               \/ \E adjustment \in Adjustment, fulfilment \in Fulfilment :
                    CommitIssue(s, adjustment, fulfilment)
               \/ BeginReject(s)
               \/ CommitReject(s)
    BY <1>7, <1>8, <2>1, <2>2 DEF Session, BeginIssue, BeginReject, Begun
  <2>3. CASE \E s \in Buyer : \/ \E q \in DOMAIN quotes : BeginAccept(s, q)
                              \/ ReadRequest(s)
                              \/ CommitAccept(s)
    BY <1>9, <2>1, <2>3 DEF Session, BeginAccept, Begun, ReadRequest
  <2> QED
    BY <1>6, <1>10, <2>2, <2>3 DEF Offering
<1>11. CASE Expiry
  <2>1. ASSUME NEW k \in DOMAIN estimates, EstimateExpires(k) PROVE UploadsWhole'
    <3>1. estimates # <<>> /\ UNCHANGED <<asset, request>>
      BY <2>1, RowsTyped DEF EstimateExpires, OfferInv
    <3> QED
      BY <1>1, <3>1, UploadsRest DEF Submitted, UploadsWhole
  <2>2. ASSUME NEW q \in DOMAIN quotes, QuoteExpires(q) PROVE UploadsWhole'
    BY <1>1, <2>2, UploadsUntouched DEF QuoteExpires
  <2> QED
    BY <1>11, <2>1, <2>2 DEF Expiry
<1> QED
  BY <1>2, <1>3, <1>4, <1>5, <1>10, <1>11 DEF Next

-----------------------------------------------------------------------------
(* Sums                                                                    *)

SamePrice(e, f) == f.price = e.price /\ f.policy = e.policy

SameSums(r, t) ==
    /\ t.estimate = r.estimate /\ t.adjustment = r.adjustment
    /\ t.tax = r.tax /\ t.lines = r.lines /\ t.total = r.total

LEMMA LabelKeepsSums ==
    ASSUME NEW r \in OfferRow
    PROVE  /\ \A status \in QuoteStatus : SameSums(r, [r EXCEPT !.status = status])
           /\ SameSums(r, [r EXCEPT !.live = FALSE])
           /\ SameSums(r, r)
  BY DEF OfferRow, SameSums

LEMMA RelabelledSums ==
    ASSUME quotes \in Seq(OfferRow), NEW status \in QuoteStatus
    PROVE  \A q \in 1..Len(quotes) : SameSums(quotes[q], Relabelled(status)[q])
<1>1. DOMAIN quotes = 1..Len(quotes) /\ \A q \in 1..Len(quotes) : quotes[q] \in OfferRow
  BY LenProperties, ElementOfSeq
<1> SUFFICES ASSUME NEW q \in 1..Len(quotes) PROVE SameSums(quotes[q], Relabelled(status)[q])
  OBVIOUS
<1>2. Relabelled(status)[q] = IF quotes[q].status = "issued"
                              THEN [quotes[q] EXCEPT !.status = status] ELSE quotes[q]
  BY <1>1 DEF Relabelled
<1>3. CASE quotes[q].status = "issued"
  <2>1. Relabelled(status)[q] = [quotes[q] EXCEPT !.status = status]
    BY <1>2, <1>3
  <2> QED
    BY <1>1, <2>1, LabelKeepsSums
<1>4. CASE quotes[q].status # "issued"
  <2>1. Relabelled(status)[q] = quotes[q]
    BY <1>2, <1>4
  <2> QED
    BY <1>1, <2>1, LabelKeepsSums
<1> QED
  BY <1>3, <1>4

\* A quotation still fits when later estimates are added.
LEMMA FitsStill ==
    ASSUME NEW r, NEW t, NEW known, NEW later, Fits(r, known), SameSums(r, t),
           Len(known) \in Nat, Len(later) \in Nat, Len(later) >= Len(known),
           \A k \in 1..Len(known) : SamePrice(known[k], later[k])
    PROVE  Fits(t, later)
<1>1. r.estimate \in 1..Len(known)
  BY DEF Fits
<1>2. t.estimate \in 1..Len(later)
  BY <1>1 DEF SameSums
<1>3. TaxCovers(t, later[t.estimate])
  BY <1>1 DEF Fits, SameSums, SamePrice, TaxCovers
<1> QED
  BY <1>2, <1>3 DEF Fits, SameSums

LEMMA QuotesFitStill ==
    ASSUME Sums, Len(quotes') = Len(quotes), Len(estimates) \in Nat,
           \A q \in 1..Len(quotes) : SameSums(quotes[q], quotes'[q]),
           Len(estimates') \in Nat, Len(estimates') >= Len(estimates),
           \A k \in 1..Len(estimates) : SamePrice(estimates[k], estimates'[k])
    PROVE  \A q \in 1..Len(quotes') : Fits(quotes'[q], estimates')
<1> SUFFICES ASSUME NEW q \in 1..Len(quotes) PROVE Fits(quotes'[q], estimates')
  OBVIOUS
<1>1. Fits(quotes[q], estimates) /\ SameSums(quotes[q], quotes'[q])
  BY DEF Sums
<1> QED
  BY <1>1, FitsStill

LEMMA PricesStay ==
    ASSUME Sums, Len(estimates') = Len(estimates), request'.measured = request.measured,
           \A k \in 1..Len(estimates) : SamePrice(estimates[k], estimates'[k])
    PROVE  \A k \in 1..Len(estimates') :
             estimates'[k].price = Breakdown(request'.measured, Card[estimates'[k].policy])
  BY DEF Sums, SamePrice

\* Steps that leave estimates and quotations alone.
LEMMA SumsRest ==
    ASSUME Sums, UNCHANGED <<estimates, quotes>>,
           request'.measured = request.measured \/ Len(estimates) = 0
    PROVE  Sums'
<1>1. \A k \in 1..Len(estimates) :
        estimates[k].price = Breakdown(request'.measured, Card[estimates[k].policy])
  BY DEF Sums
<1> QED
  BY <1>1 DEF Sums

LEMMA MeasuredStays ==
    ASSUME request \in RequestShape
    PROVE  /\ \A status \in RequestStatus : /\ Advanced(status).measured = request.measured
                                            /\ Advanced(status).runs = request.runs
           /\ [request EXCEPT !.version = @ + 1].measured = request.measured
           /\ [request EXCEPT !.version = @ + 1].runs = request.runs
  BY DEF RequestShape, Advanced

LEMMA CreateEstimateSums ==
    ASSUME OfferInv, Sums, NEW p \in Policy, CreateEstimate(p)
    PROVE  Sums'
<1> DEFINE row == [version |-> request.version + 1, policy |-> p, live |-> TRUE,
                   price |-> Breakdown(request.measured, Card[p])]
           n == Len(estimates)
<1>1. /\ request \in RequestShape /\ request.version \in Nat
      /\ estimates \in Seq(EstimateRow) /\ quotes \in Seq(OfferRow) /\ n \in Nat
  BY RowsTyped DEF OfferInv, Shape
<1>2. row \in EstimateRow /\ row.policy = p /\ row.price = Breakdown(request.measured, Card[p])
  BY <1>1, PriceTyped DEF EstimateRow
<1>3. /\ request' = Advanced("estimate_ready") /\ quotes' = Relabelled("superseded")
      /\ estimates' = Append(estimates, row)
  BY DEF CreateEstimate, Estimated
<1> HIDE DEF row
<1>4. request'.measured = request.measured
  BY <1>1, <1>3, MeasuredStays DEF RequestStatus
<1>5. /\ Len(estimates') = n + 1 /\ estimates'[n + 1] = row
      /\ \A k \in 1..n : estimates'[k] = estimates[k]
  BY <1>1, <1>2, <1>3, RowAdded
<1>6. Len(quotes') = Len(quotes) /\ \A q \in 1..Len(quotes) : SameSums(quotes[q], quotes'[q])
  BY <1>1, <1>3, RelabelledRows, RelabelledSums DEF QuoteStatus
<1> HIDE DEF n
<1>7. \A k \in 1..n : SamePrice(estimates[k], estimates'[k])
  BY <1>5 DEF SamePrice
<1>8. \A q \in 1..Len(quotes') : Fits(quotes'[q], estimates')
  BY <1>1, <1>5, <1>6, <1>7, QuotesFitStill DEF n
<1>9. ASSUME NEW k \in 1..(n + 1)
      PROVE  estimates'[k].price = Breakdown(request'.measured, Card[estimates'[k].policy])
  <2>1. CASE k = n + 1
    BY <1>2, <1>4, <1>5, <2>1
  <2>2. CASE k \in 1..n
    BY <1>4, <1>5, <2>2 DEF Sums, n
  <2> QED
    BY <1>1, <2>1, <2>2
<1> QED
  BY <1>5, <1>8, <1>9 DEF Sums

LEMMA TaxCovered ==
    ASSUME NEW amount \in Nat, NEW bps \in Nat
    PROVE  TaxOn(amount, bps) \in Nat /\ Covers(TaxOn(amount, bps), amount, bps)
  BY TaxOnTyped DEF Covers

Priced(price) == \E x \in Measurement, card \in RateCard : price = Breakdown(x, card)

\* What is issued adds up, whatever was rounded and adjusted on the way.
LEMMA TotalOfLines ==
    ASSUME NEW price, Priced(price), NEW adjustment \in Int, NEW tax \in Nat,
           NEW fulfilment \in Nat
    PROVE  Total(Lines(price, adjustment, tax, fulfilment))
             = price.pre_tax + adjustment + tax + fulfilment
<1>1. PICK lines : lines = Lines(price, adjustment, tax, fulfilment)
  OBVIOUS
<1>2. PICK x \in Measurement, card \in RateCard : price = Breakdown(x, card)
  BY DEF Priced
<1>3. /\ lines \in Seq(Int) /\ Len(lines) = 8
      /\ lines[1] + lines[2] + lines[3] + lines[4] + lines[5] + lines[6] + lines[7] + lines[8]
           = price.pre_tax + adjustment + tax + fulfilment
  BY <1>1, <1>2, LinesAddUp
<1>4. DOMAIN lines = 1..8 /\ \A i \in 1..8 : lines[i] \in Int
  BY <1>3, LenProperties, ElementOfSeq
<1>5. Total(lines)
        = lines[1] + lines[2] + lines[3] + lines[4] + lines[5] + lines[6] + lines[7] + lines[8]
  BY <1>4, FoldOfEight, Zenon DEF Total
<1> QED
  BY <1>1, <1>3, <1>5, Zenon

LEMMA TaxOfCard ==
    ASSUME NEW card \in RateCard, NEW amount \in Nat
    PROVE  /\ TaxOn(amount, card.tax_bps) \in Nat
           /\ Covers(TaxOn(amount, card.tax_bps), amount, card.tax_bps)
<1>1. PICK bps : bps = card.tax_bps
  OBVIOUS
<1>2. bps \in Nat
  <2>1. bps \in BasisPoints
    BY <1>1 DEF RateCard
  <2>2. \A b \in BasisPoints : b \in Nat
    BY DEF BasisPoints
  <2> QED
    BY <2>1, <2>2
<1>3. TaxOn(amount, bps) \in Nat /\ Covers(TaxOn(amount, bps), amount, bps)
  BY <1>2, TaxCovered
<1> QED
  BY <1>1, <1>3, Zenon

LEMMA QuoteFits ==
    ASSUME OfferInv, Sums, NEW k \in 1..Len(estimates), NEW adjustment \in Adjustment,
           NEW fulfilment \in Fulfilment, estimates[k].price.pre_tax + adjustment >= 0,
           QuoteOf(k, adjustment, fulfilment).total > 0
    PROVE  Fits(QuoteOf(k, adjustment, fulfilment), estimates)
<1>1. PICK x : x = request.measured
  OBVIOUS
<1>2. PICK card : card = Card[estimates[k].policy]
  OBVIOUS
<1>3. PICK price : price = estimates[k].price
  OBVIOUS
<1>4. PICK taxable : taxable = price.pre_tax + adjustment
  OBVIOUS
<1>5. PICK tax : tax = TaxOn(taxable, card.tax_bps)
  OBVIOUS
<1>6. PICK lines : lines = Lines(price, adjustment, tax, fulfilment)
  OBVIOUS
<1>7. PICK row : row = QuoteOf(k, adjustment, fulfilment)
  OBVIOUS
<1>8. /\ estimates[k] \in EstimateRow /\ request \in RequestShape
      /\ adjustment \in Int /\ fulfilment \in Nat
  BY RowsTyped, MoneyAssumption DEF OfferInv, Shape
<1>9. x \in Measurement
  BY <1>1, <1>8, MoneyAssumption DEF RequestShape, Nothing, Measurement
<1>10. card \in RateCard
  BY <1>2, <1>8, CardTyped DEF EstimateRow
<1>11. price = Breakdown(x, card)
  BY <1>1, <1>2, <1>3 DEF Sums
<1>12. price.pre_tax \in Nat
  BY <1>3, <1>8 DEF EstimateRow
<1>13. taxable \in Nat
  BY <1>3, <1>4, <1>8, <1>12
<1>14. tax \in Nat /\ Covers(tax, taxable, card.tax_bps)
  BY <1>5, <1>10, <1>13, TaxOfCard, Zenon
<1>15. Total(lines) = taxable + tax + fulfilment /\ Total(lines) \in Nat
  <2>1. Priced(price)
    BY <1>9, <1>10, <1>11 DEF Priced
  <2>2. adjustment \in Int /\ fulfilment \in Nat /\ tax \in Nat
    BY <1>8, <1>14
  <2>3. Total(Lines(price, adjustment, tax, fulfilment))
          = price.pre_tax + adjustment + tax + fulfilment
    BY <2>1, <2>2, TotalOfLines, Zenon
  <2>4. Total(lines) = price.pre_tax + adjustment + tax + fulfilment
    BY <1>6, <2>3, Zenon
  <2>5. PICK p : p = price.pre_tax
    OBVIOUS
  <2>6. p \in Nat /\ taxable = p + adjustment
    BY <1>4, <1>12, <2>5, Zenon
  <2>7. /\ p + adjustment + tax + fulfilment = taxable + tax + fulfilment
        /\ taxable + tax + fulfilment \in Nat
    <3>1. taxable \in Nat /\ tax \in Nat /\ fulfilment \in Nat
      BY <1>13, <2>2
    <3>2. \A a, b, c \in Nat : a + b + c \in Nat
      OBVIOUS
    <3>3. taxable + tax + fulfilment \in Nat
      BY <3>1, <3>2, Zenon
    <3> QED
      BY <2>6, <3>3, Zenon
  <2> QED
    BY <2>4, <2>5, <2>7, Zenon
<1>16. row = [estimate |-> k, status |-> "issued", adjustment |-> adjustment, tax |-> tax,
              lines |-> lines, total |-> taxable + tax + fulfilment, live |-> TRUE]
  BY <1>2, <1>3, <1>4, <1>5, <1>6, <1>7, Zenon DEF QuoteOf
<1>17. PICK total : total = taxable + tax + fulfilment
  OBVIOUS
<1>18. row = [estimate |-> k, status |-> "issued", adjustment |-> adjustment, tax |-> tax,
              lines |-> lines, total |-> total, live |-> TRUE]
  BY <1>16, <1>17, Zenon
<1>19. /\ row.estimate = k /\ row.adjustment = adjustment /\ row.tax = tax
       /\ row.lines = lines /\ row.total = total
  BY <1>18
<1>20. Total(row.lines) = row.total /\ row.total \in Nat \ {0}
  <2>1. Total(lines) = total /\ total \in Nat
    BY <1>15, <1>17, Zenon
  <2>2. total > 0
    BY <1>7, <1>19
  <2> QED
    BY <1>19, <2>1, <2>2
<1>21. TaxCovers(row, estimates[k])
  BY <1>2, <1>3, <1>4, <1>14, <1>19, Zenon DEF TaxCovers
<1>22. Fits(row, estimates)
  BY <1>14, <1>19, <1>20, <1>21 DEF Fits
<1> QED
  BY <1>7, <1>22

LEMMA CommitIssueSums ==
    ASSUME OfferInv, Sums, NEW s \in Session, NEW adjustment \in Adjustment,
           NEW fulfilment \in Fulfilment, CommitIssue(s, adjustment, fulfilment), Unchanged(s)
    PROVE  Sums'
<1>1. PICK k : k = tx[s].of
  OBVIOUS
<1> DEFINE row == QuoteOf(k, adjustment, fulfilment)
           old == Relabelled("superseded")
           n == Len(quotes)
<1>2. /\ request \in RequestShape /\ quotes \in Seq(OfferRow) /\ n \in Nat
      /\ Shape /\ Len(estimates) \in Nat
  BY RowsTyped DEF OfferInv, Shape
<1>3. k \in 1..Len(estimates)
  BY <1>1, <1>2 DEF CommitIssue, OfferInv, ReadsStillHold, Unchanged
<1>4. /\ Issued(k, adjustment, fulfilment) /\ UNCHANGED estimates
  BY <1>1 DEF CommitIssue
<1>5. Fits(row, estimates) /\ row \in OfferRow
  BY <1>2, <1>3, <1>4, QuoteFits, QuoteTyped DEF Issued
<1>6. quotes' = Append(old, row) /\ request' = Advanced("quoted")
  BY <1>4 DEF Issued
<1> HIDE DEF row
<1>7. old \in Seq(OfferRow) /\ Len(old) = n /\ \A q \in 1..n : SameSums(quotes[q], old[q])
  BY <1>2, RelabelledRows, RelabelledSums DEF QuoteStatus
<1> HIDE DEF old
<1>8. Len(quotes') = n + 1 /\ quotes'[n + 1] = row /\ \A q \in 1..n : quotes'[q] = old[q]
  BY <1>5, <1>6, <1>7, RowAdded
<1>9. request'.measured = request.measured
  BY <1>2, <1>6, MeasuredStays DEF RequestStatus
<1> HIDE DEF n
<1>10. ASSUME NEW q \in 1..(n + 1) PROVE Fits(quotes'[q], estimates')
  <2>1. CASE q = n + 1
    BY <1>4, <1>5, <1>8, <2>1
  <2>2. CASE q \in 1..n
    <3>1. Fits(quotes[q], estimates) /\ SameSums(quotes[q], quotes'[q])
      BY <1>7, <1>8, <2>2 DEF Sums, n
    <3>2. \A j \in 1..Len(estimates) : SamePrice(estimates[j], estimates'[j])
      BY <1>4 DEF SamePrice
    <3> QED
      BY <1>2, <1>4, <3>1, <3>2, FitsStill
  <2> QED
    BY <1>2, <2>1, <2>2 DEF n
<1> QED
  BY <1>4, <1>8, <1>9, <1>10 DEF Sums

LEMMA CommitRejectSums ==
    ASSUME OfferInv, Sums, NEW s \in Session, CommitReject(s), Unchanged(s)
    PROVE  Sums'
<1>1. /\ request \in RequestShape /\ quotes \in Seq(OfferRow) /\ Len(estimates) \in Nat
  BY RowsTyped DEF OfferInv, Shape
<1>2. /\ quotes' = Relabelled("rejected") /\ request' = Advanced("rejected")
      /\ UNCHANGED estimates
  BY DEF CommitReject
<1>3. Len(quotes') = Len(quotes) /\ \A q \in 1..Len(quotes) : SameSums(quotes[q], quotes'[q])
  BY <1>1, <1>2, RelabelledRows, RelabelledSums DEF QuoteStatus
<1>4. \A k \in 1..Len(estimates) : SamePrice(estimates[k], estimates'[k])
  BY <1>2 DEF SamePrice
<1>5. request'.measured = request.measured
  BY <1>1, <1>2, MeasuredStays DEF RequestStatus
<1>6. \A q \in 1..Len(quotes') : Fits(quotes'[q], estimates')
  BY <1>1, <1>2, <1>3, <1>4, QuotesFitStill
<1>7. \A k \in 1..Len(estimates') :
        estimates'[k].price = Breakdown(request'.measured, Card[estimates'[k].policy])
  BY <1>2, <1>4, <1>5, PricesStay
<1> QED
  BY <1>6, <1>7 DEF Sums

\* One quotation is accepted, or expires.
LEMMA OneQuoteSums ==
    ASSUME OfferInv, Sums, NEW q \in 1..Len(quotes), NEW row \in OfferRow,
           SameSums(quotes[q], row), quotes' = [quotes EXCEPT ![q] = row],
           UNCHANGED estimates, request'.measured = request.measured
    PROVE  Sums'
<1>1. quotes \in Seq(OfferRow) /\ Len(estimates) \in Nat
      /\ \A p \in 1..Len(quotes) : quotes[p] \in OfferRow
  BY RowsTyped DEF OfferInv, Shape
<1>2. /\ Len(quotes') = Len(quotes)
      /\ \A p \in 1..Len(quotes) : quotes'[p] = IF p = q THEN row ELSE quotes[p]
  BY <1>1, RowUpdated
<1>3. \A p \in 1..Len(quotes) : SameSums(quotes[p], quotes'[p])
  BY <1>1, <1>2, LabelKeepsSums
<1>4. \A k \in 1..Len(estimates) : SamePrice(estimates[k], estimates'[k])
  BY DEF SamePrice
<1>5. \A p \in 1..Len(quotes') : Fits(quotes'[p], estimates')
  BY <1>1, <1>2, <1>3, <1>4, QuotesFitStill
<1>6. \A k \in 1..Len(estimates') :
        estimates'[k].price = Breakdown(request'.measured, Card[estimates'[k].policy])
  BY <1>4, PricesStay
<1> QED
  BY <1>5, <1>6 DEF Sums

LEMMA CommitAcceptSums ==
    ASSUME OfferInv, Sums, NEW s \in Session, tx[s].at = "accept", Accepted(tx[s].of),
           UNCHANGED estimates
    PROVE  Sums'
<1>1. PICK q : q = tx[s].of
  OBVIOUS
<1> DEFINE row == [quotes[q] EXCEPT !.status = "accepted"]
<1>2. q \in 1..Len(quotes) /\ request \in RequestShape
  BY <1>1 DEF OfferInv, ReadsStillHold, Shape
<1>3. quotes[q] \in OfferRow
  BY <1>2, RowsTyped DEF OfferInv
<1>4. "accepted" \in QuoteStatus
  BY DEF QuoteStatus
<1>5. row \in OfferRow
  BY <1>3, <1>4 DEF OfferRow
<1>6. SameSums(quotes[q], row)
  BY <1>3, <1>4, LabelKeepsSums
<1>7. DOMAIN quotes = 1..Len(quotes)
  BY RowsTyped DEF OfferInv
<1>8. quotes' = [quotes EXCEPT ![q] = row] /\ request' = [request EXCEPT !.version = @ + 1]
  BY <1>1, <1>2, <1>7 DEF Accepted
<1>9. request'.measured = request.measured
  BY <1>2, <1>8, MeasuredStays
<1> HIDE DEF row
<1> QED
  BY <1>2, <1>5, <1>6, <1>8, <1>9, OneQuoteSums

LEMMA ExpirySums ==
    ASSUME OfferInv, Sums, Expiry
    PROVE  Sums'
<1>1. /\ estimates \in Seq(EstimateRow) /\ quotes \in Seq(OfferRow)
      /\ Len(estimates) \in Nat /\ Len(quotes) \in Nat
      /\ DOMAIN estimates = 1..Len(estimates) /\ DOMAIN quotes = 1..Len(quotes)
      /\ \A k \in 1..Len(estimates) : estimates[k] \in EstimateRow
      /\ \A q \in 1..Len(quotes) : quotes[q] \in OfferRow
  BY RowsTyped DEF OfferInv, Shape
<1>2. ASSUME NEW k \in 1..Len(estimates), EstimateExpires(k) PROVE Sums'
  <2> DEFINE row == [estimates[k] EXCEPT !.live = FALSE]
  <2>1. estimates' = [estimates EXCEPT ![k] = row] /\ UNCHANGED <<request, quotes>>
    BY <1>1, <1>2 DEF EstimateExpires
  <2>2. row \in EstimateRow /\ SamePrice(estimates[k], row)
    BY <1>1 DEF EstimateRow, SamePrice
  <2> HIDE DEF row
  <2>3. /\ Len(estimates') = Len(estimates)
        /\ \A j \in 1..Len(estimates) : estimates'[j] = IF j = k THEN row ELSE estimates[j]
    BY <1>1, <2>1, <2>2, ExceptSeq
  <2>4. \A j \in 1..Len(estimates) : SamePrice(estimates[j], estimates'[j])
    BY <2>2, <2>3 DEF SamePrice
  <2>5. \A q \in 1..Len(quotes) : SameSums(quotes[q], quotes'[q])
    BY <1>1, <2>1, LabelKeepsSums
  <2>6. \A q \in 1..Len(quotes') : Fits(quotes'[q], estimates')
    <3>1. /\ Len(quotes') = Len(quotes) /\ Len(estimates') \in Nat
          /\ Len(estimates') >= Len(estimates)
      BY <1>1, <2>1, <2>3
    <3> QED
      BY <1>1, <2>4, <2>5, <3>1, QuotesFitStill
  <2>7. \A j \in 1..Len(estimates') :
          estimates'[j].price = Breakdown(request'.measured, Card[estimates'[j].policy])
    BY <2>1, <2>3, <2>4, PricesStay
  <2> QED
    BY <2>6, <2>7 DEF Sums
<1>3. ASSUME NEW q \in 1..Len(quotes), QuoteExpires(q) PROVE Sums'
  <2> DEFINE row == [quotes[q] EXCEPT !.live = FALSE]
  <2>1. quotes' = [quotes EXCEPT ![q] = row] /\ UNCHANGED <<request, estimates>>
    BY <1>1, <1>3 DEF QuoteExpires
  <2>2. row \in OfferRow
    BY <1>1 DEF OfferRow
  <2>3. SameSums(quotes[q], row)
    BY <1>1, LabelKeepsSums
  <2> HIDE DEF row
  <2> QED
    BY <2>1, <2>2, <2>3, OneQuoteSums
<1> QED
  BY <1>1, <1>2, <1>3 DEF Expiry

LEMMA StepKeepsSums ==
    ASSUME OfferInv, UploadsWhole, Sums, [Next]_vars
    PROVE  Sums'
<1>1. CASE UNCHANGED <<request, estimates, quotes>>
  BY <1>1, SumsRest
<1>2. CASE Drafting \/ Analysis
  <2>1. estimates = <<>> /\ UNCHANGED <<estimates, quotes>>
    BY <1>2, NoPriceYet
  <2> QED
    BY <2>1, SumsRest
<1>3. CASE Rates
  <2>1. ASSUME NEW s \in Owner, CommitActivate(s) PROVE UNCHANGED <<request, estimates, quotes>>
    BY <2>1 DEF CommitActivate, Rollback
  <2>2. ASSUME NEW s \in Owner, NEW p \in Policy, BeginActivate(s, p) \/ CreatePolicy(p)
        PROVE  UNCHANGED <<request, estimates, quotes>>
    BY <2>2 DEF BeginActivate, Begun, CreatePolicy
  <2>3. ASSUME NEW p \in Policy, CreatePolicy(p) PROVE UNCHANGED <<request, estimates, quotes>>
    BY <2>3 DEF CreatePolicy
  <2> QED
    BY <1>1, <1>3, <2>1, <2>2, <2>3, CreateEstimateSums DEF Rates, FirstEstimate
<1>4. CASE Offering
  <2>1. ASSUME NEW s \in Session, Rollback(s) PROVE Sums'
    BY <1>1, <2>1 DEF Rollback
  <2>2. ASSUME NEW s \in Session, NEW adjustment \in Adjustment, NEW fulfilment \in Fulfilment,
               CommitIssue(s, adjustment, fulfilment)
        PROVE  Sums'
    BY <2>1, <2>2, CommitIssueSums DEF CommitIssue
  <2>3. ASSUME NEW s \in Session, CommitReject(s) PROVE Sums'
    BY <2>1, <2>3, CommitRejectSums DEF CommitReject
  <2>4. ASSUME NEW s \in Session, CommitAccept(s) PROVE Sums'
    BY <2>1, <2>4, CommitAcceptSums DEF CommitAccept
  <2>5. CASE \E s \in Owner :
               \/ \E k \in DOMAIN estimates : BeginIssue(s, k)
               \/ \E adjustment \in Adjustment, fulfilment \in Fulfilment :
                    CommitIssue(s, adjustment, fulfilment)
               \/ BeginReject(s)
               \/ CommitReject(s)
    BY <1>1, <2>2, <2>3, <2>5 DEF Session, BeginIssue, BeginReject, Begun
  <2>6. CASE \E s \in Buyer : \/ \E q \in DOMAIN quotes : BeginAccept(s, q)
                              \/ ReadRequest(s)
                              \/ CommitAccept(s)
    BY <1>1, <2>4, <2>6 DEF Session, BeginAccept, Begun, ReadRequest
  <2> QED
    BY <1>4, <2>1, <2>5, <2>6 DEF Offering
<1>5. CASE Expiry
  BY <1>5, ExpirySums
<1> QED
  BY <1>1, <1>2, <1>3, <1>4, <1>5 DEF Next, vars, offer

-----------------------------------------------------------------------------
(* Bounds                                                                  *)

\* Besides drafting and analysis a step only moves the status and the version.
LEMMA RequestWritten ==
    ASSUME [Next]_vars
    PROVE  \/ Drafting
           \/ Analysis
           \/ request' = request
           \/ \E status \in RequestStatus : request' = Advanced(status)
           \/ request' = [request EXCEPT !.version = @ + 1]
<1>1. ASSUME NEW s \in Session, Rollback(s) PROVE request' = request
  BY <1>1 DEF Rollback
<1>2. CASE Rates
  <2>1. ASSUME NEW p \in Policy, CreateEstimate(p) PROVE request' = Advanced("estimate_ready")
    BY <2>1 DEF CreateEstimate, Estimated
  <2>2. ASSUME NEW s \in Owner, NEW p \in Policy,
               BeginActivate(s, p) \/ CommitActivate(s) \/ CreatePolicy(p)
        PROVE  request' = request
    BY <2>2 DEF BeginActivate, Begun, CommitActivate, Rollback, CreatePolicy
  <2>3. ASSUME NEW s \in Owner, CommitActivate(s) PROVE request' = request
    BY <2>3 DEF CommitActivate, Rollback
  <2>4. ASSUME NEW p \in Policy, CreatePolicy(p) PROVE request' = request
    BY <2>4 DEF CreatePolicy
  <2> QED
    BY <1>2, <2>1, <2>2, <2>3, <2>4 DEF Rates, FirstEstimate, RequestStatus
<1>3. CASE Offering
  <2>1. ASSUME NEW s, NEW adjustment, NEW fulfilment, CommitIssue(s, adjustment, fulfilment)
        PROVE  request' = request \/ request' = Advanced("quoted")
    BY <2>1 DEF CommitIssue, Issued, Rollback
  <2>2. ASSUME NEW s, CommitReject(s)
        PROVE  request' = request \/ request' = Advanced("rejected")
    BY <2>2 DEF CommitReject, Rollback
  <2>3. ASSUME NEW s, CommitAccept(s)
        PROVE  request' = request \/ request' = [request EXCEPT !.version = @ + 1]
    BY <2>3 DEF CommitAccept, Accepted, Rollback
  <2>4. ASSUME NEW s, NEW k, BeginIssue(s, k) \/ BeginAccept(s, k) PROVE request' = request
    BY <2>4 DEF BeginIssue, BeginAccept, Begun
  <2>5. ASSUME NEW s, BeginReject(s) \/ ReadRequest(s) PROVE request' = request
    BY <2>5 DEF BeginReject, ReadRequest, Begun
  <2>6. "quoted" \in RequestStatus /\ "rejected" \in RequestStatus
    BY DEF RequestStatus
  <2> QED
    BY <1>1, <1>3, <2>1, <2>2, <2>3, <2>4, <2>5, <2>6 DEF Offering
<1>4. CASE Expiry
  BY <1>4 DEF Expiry, EstimateExpires, QuoteExpires
<1> QED
  BY <1>2, <1>3, <1>4 DEF Next, vars, offer

LEMMA RunsWritten ==
    ASSUME NEW r \in RequestShape
    PROVE  /\ \A run \in RunStatus : [r EXCEPT !.run = run] \in RequestShape
           /\ \A run \in RunStatus : [r EXCEPT !.run = run].runs = r.runs
           /\ \A measured \in Measured : [r EXCEPT !.measured = measured].runs = r.runs
           /\ \A n \in Int : [r EXCEPT !.runs = n].runs = n
  BY DEF RequestShape

\* An analysis is queued again below the bound only.
LEMMA RunsStayBounded ==
    ASSUME OfferInv, request.runs \in 0..MaxRuns, [Next]_vars
    PROVE  request'.runs \in 0..MaxRuns
<1>1. request \in RequestShape /\ MaxRuns \in Nat \ {0}
  BY BoundAssumption DEF OfferInv, Shape
<1>2. ASSUME NEW status \in RequestStatus, NEW run \in RunStatus
      PROVE  /\ [Advanced(status) EXCEPT !.run = run] \in RequestShape
             /\ [Advanced(status) EXCEPT !.run = run].runs = request.runs
  <2>1. Advanced(status) \in RequestShape /\ Advanced(status).runs = request.runs
    BY <1>1, RequestAdvanced, MeasuredStays
  <2> QED
    BY <2>1, RunsWritten
<1>3. CASE CreateRequest
  <2> DEFINE u == [request EXCEPT !.status = "draft"]
  <2>1. u \in RequestShape /\ u.runs = request.runs
    BY <1>1 DEF RequestShape, RequestStatus
  <2>2. request' = [u EXCEPT !.version = 1]
    BY <1>3 DEF CreateRequest
  <2> HIDE DEF u
  <2> QED
    BY <2>1, <2>2 DEF RequestShape
<1>4. ASSUME NEW n \in Int, request' = [Advanced("analyzing") EXCEPT !.run = "queued", !.runs = n]
      PROVE  request'.runs = n
  <2>1. PICK r : r = [Advanced("analyzing") EXCEPT !.run = "queued"]
    OBVIOUS
  <2>2. r \in RequestShape
    BY <1>2, <2>1 DEF RequestStatus, RunStatus
  <2>3. request' = [r EXCEPT !.runs = n]
    BY <1>4, <2>1
  <2> QED
    BY <2>2, <2>3, RunsWritten
<1>5. CASE Submit
  <2>1. request' = [Advanced("analyzing") EXCEPT !.run = "queued", !.runs = 1]
    BY <1>5 DEF Submit
  <2>2. 1 \in Int /\ 1 \in 0..MaxRuns
    BY <1>1
  <2>3. request'.runs = 1
    BY <1>4, <2>1, <2>2, Zenon
  <2> QED
    BY <2>2, <2>3
<1>6. CASE RetrySlicing
  <2>1. PICK r : r = Advanced("analyzing")
    OBVIOUS
  <2>2. r \in RequestShape /\ r.runs = request.runs
    BY <1>1, <2>1, RequestAdvanced, MeasuredStays DEF RequestStatus
  <2>3. request' = [r EXCEPT !.run = "queued", !.runs = @ + 1]
    BY <1>6, <2>1 DEF RetrySlicing
  <2>4. request' = [r EXCEPT !.run = "queued", !.runs = request.runs + 1]
    BY <2>2, <2>3 DEF RequestShape
  <2>5. request.runs + 1 \in 0..MaxRuns /\ request.runs + 1 \in Int
    BY <1>1, <1>6 DEF RetrySlicing
  <2>6. request'.runs = request.runs + 1
    BY <1>4, <2>1, <2>4, <2>5, Zenon
  <2> QED
    BY <2>5, <2>6
<1>7. ASSUME NEW measured \in Measured, AnalysisSucceeds(measured) PROVE request'.runs = request.runs
  <2>1. PICK r : r = [Advanced("analysis_ready") EXCEPT !.run = "succeeded"]
    OBVIOUS
  <2>2. r \in RequestShape /\ r.runs = request.runs
    BY <1>2, <2>1 DEF RequestStatus, RunStatus
  <2>3. request' = [r EXCEPT !.measured = measured]
    BY <1>7, <2>1 DEF AnalysisSucceeds
  <2> QED
    BY <2>2, <2>3, RunsWritten
<1>8. ASSUME AnalysisAwaitsProfile PROVE request'.runs = request.runs
  <2>1. request' = [Advanced("analysis_ready") EXCEPT !.run = "awaiting_profile"]
    BY <1>8 DEF AnalysisAwaitsProfile
  <2> QED
    BY <1>2, <2>1 DEF RequestStatus, RunStatus
<1>9. ASSUME NEW culprits, NEW run \in {"slicer_failed", "failed"}, AnalysisFails(culprits, run)
      PROVE  request'.runs = request.runs
  <2>1. request' = [Advanced("analysis_failed") EXCEPT !.run = run]
    BY <1>9 DEF AnalysisFails
  <2> QED
    BY <1>2, <2>1 DEF RequestStatus, RunStatus
<1>10. CASE Drafting
  <2>1. CASE UNCHANGED request
    BY <2>1
  <2> QED
    BY <1>3, <1>5, <1>10, <2>1 DEF Drafting, IssueUpload, PutObject, CompleteUpload
<1>11. CASE Analysis
  BY <1>6, <1>7, <1>8, <1>9, <1>11 DEF Analysis
<1> QED
  BY <1>1, <1>10, <1>11, RequestWritten, MeasuredStays

\* Rate cards, estimates and quotations stay within their bounds.
LEMMA RowsStayBounded ==
    ASSUME OfferInv, Bounds, [Next]_vars
    PROVE  /\ policy' \in [Policy -> {"none", "draft", "active", "retired"}]
           /\ Len(estimates') <= MaxEstimates
           /\ Len(quotes') <= MaxQuotes
<1> DEFINE Goal == /\ policy' \in [Policy -> {"none", "draft", "active", "retired"}]
                   /\ Len(estimates') <= MaxEstimates
                   /\ Len(quotes') <= MaxQuotes
<1>1. /\ estimates \in Seq(EstimateRow) /\ quotes \in Seq(OfferRow)
      /\ request \in RequestShape /\ request.version \in Nat
      /\ Len(estimates) \in Nat /\ Len(quotes) \in Nat
      /\ DOMAIN estimates = 1..Len(estimates) /\ DOMAIN quotes = 1..Len(quotes)
      /\ \A k \in 1..Len(estimates) : estimates[k] \in EstimateRow
      /\ \A q \in 1..Len(quotes) : quotes[q] \in OfferRow
  BY RowsTyped DEF OfferInv, Shape
<1>2. /\ MaxEstimates \in Nat /\ MaxQuotes \in Nat
      /\ Len(estimates) <= MaxEstimates /\ Len(quotes) <= MaxQuotes
      /\ policy \in [Policy -> {"none", "draft", "active", "retired"}]
  BY BoundAssumption DEF Bounds
<1>3. ASSUME UNCHANGED policy, Len(estimates') = Len(estimates), Len(quotes') = Len(quotes)
      PROVE  Goal
  BY <1>2, <1>3
<1>4. CASE UNCHANGED <<policy, estimates, quotes>>
  BY <1>2, <1>4
<1>5. ASSUME NEW s \in Session, Rollback(s) PROVE Goal
  BY <1>4, <1>5 DEF Rollback
<1>6. CASE Rates
  <2>1. ASSUME NEW p \in Policy, CreatePolicy(p) PROVE Goal
    BY <1>2, <2>1 DEF CreatePolicy
  <2>2. ASSUME NEW p \in Policy, CreateEstimate(p) PROVE Goal
    <3> DEFINE row == [version |-> request.version + 1, policy |-> p, live |-> TRUE,
                       price |-> Breakdown(request.measured, Card[p])]
    <3>1. /\ estimates' = Append(estimates, row) /\ quotes' = Relabelled("superseded")
          /\ UNCHANGED policy /\ Len(estimates) < MaxEstimates
      BY <2>2 DEF CreateEstimate, Estimated
    <3>2. row \in EstimateRow
      BY <1>1, PriceTyped DEF EstimateRow
    <3> HIDE DEF row
    <3>3. Len(estimates') = Len(estimates) + 1
      BY <1>1, <3>1, <3>2, RowAdded
    <3>4. Len(quotes') = Len(quotes)
      BY <1>1, <3>1, RelabelledRows DEF QuoteStatus
    <3> QED
      BY <1>1, <1>2, <3>1, <3>3, <3>4
  <2>3. ASSUME NEW s \in Owner, NEW p \in Policy, BeginActivate(s, p) PROVE Goal
    BY <1>4, <2>3 DEF BeginActivate, Begun
  <2>4. ASSUME NEW s \in Owner, CommitActivate(s) PROVE Goal
    <3>1. CASE UNCHANGED <<policy, estimates, quotes>>
      BY <1>4, <3>1
    <3>2. CASE /\ policy' = [p \in Policy |-> IF p = tx[s].of THEN "active"
                                             ELSE IF p \in ActivePolicies THEN "retired"
                                             ELSE policy[p]]
               /\ UNCHANGED <<estimates, quotes>>
      BY <1>2, <3>2
    <3> QED
      BY <2>4, <3>1, <3>2 DEF CommitActivate, Rollback
  <2>5. CASE \E p \in Policy : CreatePolicy(p) \/ CreateEstimate(p) \/ FirstEstimate(p)
    <3>1. PICK p \in Policy : CreatePolicy(p) \/ CreateEstimate(p)
      BY <2>5 DEF FirstEstimate
    <3> QED
      BY <2>1, <2>2, <3>1, Zenon
  <2>6. CASE \E s \in Owner : (\E p \in Policy : BeginActivate(s, p)) \/ CommitActivate(s)
    <3>1. PICK s \in Owner : (\E p \in Policy : BeginActivate(s, p)) \/ CommitActivate(s)
      BY <2>6
    <3> QED
      BY <2>3, <2>4, <3>1, Zenon
  <2> QED
    BY <1>6, <2>5, <2>6, Zenon DEF Rates
<1>7. ASSUME NEW s \in Session, NEW adjustment \in Adjustment, NEW fulfilment \in Fulfilment,
             CommitIssue(s, adjustment, fulfilment)
      PROVE  Goal
  <2>1. CASE Unchanged(s)
    <3>1. PICK k : k = tx[s].of
      OBVIOUS
    <3> DEFINE row == QuoteOf(k, adjustment, fulfilment)
               old == Relabelled("superseded")
    <3>2. k \in 1..Len(estimates)
      BY <1>1, <1>7, <2>1, <3>1 DEF CommitIssue, OfferInv, ReadsStillHold, Unchanged
    <3>3. row \in OfferRow
      BY <3>2, QuoteTyped DEF OfferInv
    <3>4. quotes' = Append(old, row) /\ UNCHANGED <<policy, estimates>>
      BY <1>7, <2>1, <3>1 DEF CommitIssue, Issued
    <3>5. old \in Seq(OfferRow) /\ Len(old) = Len(quotes)
      BY <1>1, RelabelledRows DEF QuoteStatus
    <3> HIDE DEF row, old
    <3>6. Len(quotes') = Len(quotes) + 1
      BY <3>3, <3>4, <3>5, RowAdded
    <3>7. Len(quotes) < MaxQuotes
      BY <1>7, <2>1 DEF CommitIssue, Unchanged, Bounds
    <3> QED
      BY <1>1, <1>2, <3>4, <3>6, <3>7
  <2>2. CASE ~Unchanged(s)
    BY <1>5, <1>7, <2>2 DEF CommitIssue
  <2> QED
    BY <2>1, <2>2
<1>8. ASSUME NEW s \in Session, CommitReject(s) PROVE Goal
  <2>1. CASE Unchanged(s)
    <3>1. quotes' = Relabelled("rejected") /\ UNCHANGED <<policy, estimates>>
      BY <1>8, <2>1 DEF CommitReject
    <3>2. Len(quotes') = Len(quotes)
      BY <1>1, <3>1, RelabelledRows DEF QuoteStatus
    <3> QED
      BY <1>3, <3>1, <3>2
  <2>2. CASE ~Unchanged(s)
    BY <1>5, <1>8, <2>2 DEF CommitReject
  <2> QED
    BY <2>1, <2>2
<1>9. ASSUME NEW q \in 1..Len(quotes), NEW row \in OfferRow, quotes' = [quotes EXCEPT ![q] = row],
             UNCHANGED <<policy, estimates>>
      PROVE  Goal
  <2>1. Len(quotes') = Len(quotes)
    BY <1>1, <1>9, RowUpdated
  <2> QED
    BY <1>3, <1>9, <2>1
<1>10. ASSUME NEW s \in Session, CommitAccept(s) PROVE Goal
  <2>1. PICK q : q = tx[s].of
    OBVIOUS
  <2> DEFINE row == [quotes[q] EXCEPT !.status = "accepted"]
  <2>2. q \in 1..Len(quotes)
    BY <1>10, <2>1 DEF CommitAccept, OfferInv, ReadsStillHold
  <2>3. row \in OfferRow
    BY <1>1, <2>2 DEF OfferRow, QuoteStatus
  <2>4. CASE Accepted(q) /\ UNCHANGED <<policy, estimates>>
    <3>1. quotes' = [quotes EXCEPT ![q] = row]
      BY <1>1, <2>2, <2>4 DEF Accepted
    <3> HIDE DEF row
    <3> QED
      BY <1>9, <2>2, <2>3, <2>4, <3>1
  <2>5. CASE Rollback(s)
    BY <1>5, <2>5
  <2> QED
    BY <1>10, <2>1, <2>4, <2>5 DEF CommitAccept
<1>11. CASE Offering
  <2>1. CASE \E s \in Owner :
               \/ \E k \in DOMAIN estimates : BeginIssue(s, k)
               \/ \E adjustment \in Adjustment, fulfilment \in Fulfilment :
                    CommitIssue(s, adjustment, fulfilment)
               \/ BeginReject(s)
               \/ CommitReject(s)
    BY <1>4, <1>7, <1>8, <2>1 DEF Session, BeginIssue, BeginReject, Begun
  <2>2. CASE \E s \in Buyer : \/ \E q \in DOMAIN quotes : BeginAccept(s, q)
                              \/ ReadRequest(s)
                              \/ CommitAccept(s)
    BY <1>4, <1>10, <2>2 DEF Session, BeginAccept, Begun, ReadRequest
  <2> QED
    BY <1>5, <1>11, <2>1, <2>2 DEF Offering
<1>12. CASE Expiry
  <2>1. ASSUME NEW k \in 1..Len(estimates), EstimateExpires(k) PROVE Goal
    <3> DEFINE row == [estimates[k] EXCEPT !.live = FALSE]
    <3>1. estimates' = [estimates EXCEPT ![k] = row] /\ UNCHANGED <<policy, quotes>>
      BY <1>1, <2>1 DEF EstimateExpires
    <3>2. row \in EstimateRow
      BY <1>1 DEF EstimateRow
    <3> HIDE DEF row
    <3>3. Len(estimates') = Len(estimates)
      BY <1>1, <3>1, <3>2, ExceptSeq
    <3> QED
      BY <1>3, <3>1, <3>3
  <2>2. ASSUME NEW q \in 1..Len(quotes), QuoteExpires(q) PROVE Goal
    <3> DEFINE row == [quotes[q] EXCEPT !.live = FALSE]
    <3>1. quotes' = [quotes EXCEPT ![q] = row] /\ UNCHANGED <<policy, estimates>>
      BY <1>1, <2>2 DEF QuoteExpires
    <3>2. row \in OfferRow
      BY <1>1 DEF OfferRow
    <3> HIDE DEF row
    <3> QED
      BY <1>9, <3>1, <3>2
  <2> QED
    BY <1>1, <1>12, <2>1, <2>2 DEF Expiry
<1>13. CASE Drafting
  BY <1>4, <1>13 DEF Drafting, CreateRequest, Submit, IssueUpload, PutObject, CompleteUpload
<1>14. CASE Analysis
  BY <1>4, <1>14
  DEF Analysis, AnalysisSucceeds, AnalysisAwaitsProfile, AnalysisFails, RetrySlicing
<1> QED
  BY <1>4, <1>6, <1>11, <1>12, <1>13, <1>14 DEF Next, vars, offer

-----------------------------------------------------------------------------
(* Whole requests and whole sums                                           *)

LEMMA WholeInitially == Init => WholeInv
<1> SUFFICES ASSUME Init PROVE WholeInv
  OBVIOUS
<1>1. OfferInv
  BY Initially
<1>2. /\ estimates = <<>> /\ Len(estimates) = 0 /\ quotes = <<>> /\ Len(quotes) = 0
      /\ request.status = "none" /\ request.runs = 0
      /\ \A s \in Session : tx[s].at = "idle"
      /\ MaxRuns \in Nat /\ MaxEstimates \in Nat /\ MaxQuotes \in Nat
  BY IdleTyped, BoundAssumption DEF Init
<1>3. asset \in [Asset -> Uploads] /\ \A a \in Asset : asset[a].status = "none"
  BY DEF Init, Uploads, AssetStatus
<1>4. Whole
  BY <1>2, <1>3 DEF Whole, UploadsWhole, ObjectsMatch, Submitted
<1>5. Sums
  BY <1>2 DEF Sums
<1>6. Bounds
  BY <1>2 DEF Bounds, Init
<1> QED
  BY <1>1, <1>4, <1>5, <1>6 DEF WholeInv

LEMMA StepKeepsWhole == WholeInv /\ [Next]_vars => WholeInv'
<1> SUFFICES ASSUME WholeInv, [Next]_vars PROVE WholeInv'
  OBVIOUS
<1>1. OfferInv /\ Whole /\ UploadsWhole /\ Sums /\ Bounds
  BY DEF WholeInv, Whole
<1>2. OfferInv'
  BY <1>1, StepKeepsOffer
<1>3. /\ \A s \in Session : tx'[s].at \in {"issue", "reject"} => Submitted'
      /\ \A s \in Session :
           tx'[s].at = "issue" /\ tx'[s].version = request'.version => Len(quotes') < MaxQuotes
  BY <1>1, <1>2, EveryPace, SessionsStayBounded
<1>4. Whole'
  BY <1>1, <1>3, StepKeepsUploads DEF Whole
<1>5. Sums'
  BY <1>1, StepKeepsSums
<1>6. request'.runs \in 0..MaxRuns
  BY <1>1, RunsStayBounded DEF Bounds
<1>7. Bounds'
  BY <1>1, <1>3, <1>6, RowsStayBounded DEF Bounds
<1> QED
  BY <1>2, <1>4, <1>5, <1>7 DEF WholeInv

\* Uploads, prices and quotations stay whole for as long as the request lives.
THEOREM WholeHolds == Spec => []WholeInv
  BY WholeInitially, StepKeepsWhole, PTL DEF Spec

\* The rows keep their types and the counters their bounds.
THEOREM TypeCorrect == Spec => []QuotationTypeOK
<1>1. Spec => []ToldInv
  BY ToldInitially, ToldStep, PTL DEF Spec
<1>2. WholeInv /\ ToldInv => QuotationTypeOK
  <2> SUFFICES ASSUME WholeInv, ToldInv PROVE QuotationTypeOK
    OBVIOUS
  <2>1. Shape /\ AtMostOne /\ UploadsWhole /\ Sums /\ Bounds
    BY DEF WholeInv, OfferInv, Whole
  <2>2. /\ estimates \in Seq(EstimateRow) /\ Len(estimates) \in Nat
        /\ quotes \in Seq(OfferRow) /\ Len(quotes) \in Nat
        /\ DOMAIN quotes = 1..Len(quotes)
        /\ \A q \in 1..Len(quotes) : quotes[q] \in OfferRow
    BY <2>1, RowsTyped DEF Shape
  <2>3. /\ MaxEstimates \in Nat /\ MaxQuotes \in Nat
        /\ Len(estimates) <= MaxEstimates /\ Len(quotes) <= MaxQuotes
    BY <2>1, BoundAssumption DEF Bounds
  <2>4. request \in RequestRow
    BY <2>1 DEF Shape, Bounds, RequestShape, RequestRow
  <2>5. asset \in [Asset -> [status : AssetStatus, object : {"none", "match", "other"}]]
    BY <2>1 DEF UploadsWhole, Uploads
  <2>6. ASSUME NEW q \in 1..Len(quotes)
        PROVE  quotes[q] \in QuoteRow /\ quotes[q].total \in Nat \ {0}
    <3>1. quotes[q] \in OfferRow /\ Fits(quotes[q], estimates)
      BY <2>1, <2>2 DEF Sums
    <3>2. quotes[q].estimate \in 1..MaxEstimates
      BY <2>2, <2>3, <3>1 DEF Fits
    <3> QED
      BY <3>1, <3>2 DEF Fits, OfferRow, QuoteRow
  <2>7. quotes \in Seq(QuoteRow)
    BY <2>2, <2>6
  <2>8. orders \subseteq [quote : 1..MaxQuotes, amount : Nat \ {0}]
    <3>1. orders = {[quote |-> q, amount |-> quotes[q].total] : q \in Standing("accepted")}
      BY <2>1 DEF AtMostOne
    <3>2. \A q \in Standing("accepted") : q \in 1..MaxQuotes /\ quotes[q].total \in Nat \ {0}
      BY <2>2, <2>3, <2>6 DEF Standing
    <3> QED
      BY <3>1, <3>2
  <2>9. tx \in [Session -> Tx] /\ NoticesTypeOK
    BY <2>1 DEF Shape, ToldInv, NoticesInv
  <2> QED
    BY <2>1, <2>3, <2>4, <2>5, <2>7, <2>8, <2>9 DEF QuotationTypeOK, Shape, Bounds
<1> QED
  BY <1>1, <1>2, WholeHolds, PTL

\* Whatever was rounded and adjusted on the way, the lines of every quotation
\* add up to its total, and none says less than the rate card asks.
THEOREM LinesAlwaysReconcile == Spec => []LinesReconcile
<1>1. WholeInv => LinesReconcile
  <2> SUFFICES ASSUME WholeInv, NEW q \in DOMAIN quotes
               PROVE  LET k    == quotes[q].estimate
                          card == Card[estimates[k].policy]
                      IN  /\ Reconciles(q)
                          /\ estimates[k].price.material * 1000
                               >= request.measured.filament_mg * card.material_rate
                          /\ estimates[k].price.machine * 3600
                               >= request.measured.duration_seconds * card.machine_rate
                          /\ estimates[k].price.pre_tax >= card.minimum_order
                          /\ quotes[q].tax * 10000
                               >= (estimates[k].price.pre_tax + quotes[q].adjustment)
                                    * card.tax_bps
    BY DEF LinesReconcile
  <2>1. PICK k : k = quotes[q].estimate
    OBVIOUS
  <2>2. PICK card : card = Card[estimates[k].policy]
    OBVIOUS
  <2>3. PICK price : price = estimates[k].price
    OBVIOUS
  <2>4. PICK x : x = request.measured
    OBVIOUS
  <2>5. OfferInv /\ Shape /\ Sums
    BY DEF WholeInv, OfferInv
  <2>6. /\ request \in RequestShape /\ DOMAIN quotes = 1..Len(quotes)
        /\ \A j \in 1..Len(estimates) : estimates[j] \in EstimateRow
    BY <2>5, RowsTyped DEF Shape
  <2>7. Fits(quotes[q], estimates) /\ k \in 1..Len(estimates)
    BY <2>1, <2>5, <2>6 DEF Sums, Fits
  <2>8. x \in Measurement
    BY <2>4, <2>6, MoneyAssumption DEF RequestShape, Nothing, Measurement
  <2>9. card \in RateCard
    BY <2>2, <2>6, <2>7, CardTyped DEF EstimateRow
  <2>10. price = Breakdown(x, card)
    BY <2>2, <2>3, <2>4, <2>5, <2>7 DEF Sums
  <2>11. Reconciles(q)
    BY <2>7 DEF Fits, Total, Reconciles
  <2>12. price.material = MaterialCost(x, card) /\ price.machine = MachineCost(x, card)
    BY <2>10 DEF Breakdown
  <2>13. /\ MaterialCost(x, card) * 1000 >= x.filament_mg * card.material_rate
         /\ MachineCost(x, card) * 3600 >= x.duration_seconds * card.machine_rate
    BY <2>8, <2>9, ChargesCoverCosts
  <2>14. price.pre_tax >= card.minimum_order
    BY <2>8, <2>9, <2>10, ComponentsAddUp
  <2>15. TaxCovers(quotes[q], estimates[k])
    BY <2>1, <2>7 DEF Fits
  <2>16. quotes[q].tax * 10000 >= (estimates[k].price.pre_tax + quotes[q].adjustment) * card.tax_bps
    BY <2>2, <2>15 DEF TaxCovers, Covers
  <2> QED
    BY <2>1, <2>2, <2>3, <2>4, <2>11, <2>12, <2>13, <2>14, <2>16
<1> QED
  BY <1>1, WholeHolds, PTL

\* A request that was submitted has no upload under way, and only a request
\* whose every upload was received, analysed and sliced gets a price.
THEOREM ModelsWhole == Spec => []PricedModelsAreWhole
<1>1. WholeInv => PricedModelsAreWhole
  <2> SUFFICES ASSUME WholeInv PROVE PricedModelsAreWhole
    OBVIOUS
  <2>1. UploadsWhole
    BY DEF WholeInv, Whole
  <2>2. ASSUME estimates # <<>>, NEW a \in Known
        PROVE  asset[a] = [status |-> "validated", object |-> "match"]
    <3>1. asset[a] \in Uploads /\ asset[a].status = "validated"
      BY <2>1, <2>2 DEF UploadsWhole, Known
    <3>2. asset[a].object = "match"
      BY <2>1, <2>2, <3>1 DEF UploadsWhole, ObjectsMatch, Known
    <3> QED
      BY <3>1, <3>2 DEF Uploads
  <2> QED
    BY <2>1, <2>2 DEF UploadsWhole, Submitted, PricedModelsAreWhole
<1> QED
  BY <1>1, WholeHolds, PTL
=============================================================================
