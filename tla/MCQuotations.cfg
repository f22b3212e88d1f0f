SPECIFICATION Spec
CONSTANTS
    Notice = {n1}
    Sender = {w1, w2}
    NoSender = NoSender
    MaxAttempts = 2
    MaxRetries = 1
    Asset = {a1, a2}
    MaxModels = 2
    Card <- MCCard
    Measured <- MCMeasured
    Adjustment <- MCAdjustment
    Fulfilment <- MCFulfilment
    Owner = {o1, o2}
    Buyer = {b1}
    RejectedNotice = n1
    AcceptedNotice = n1
    MaxRuns = 2
    MaxEstimates = 2
    MaxQuotes = 2
SYMMETRY SessionSymmetry
INVARIANTS
    QuotationTypeOK
    OneOfferStands
    OfferIsCurrent
    LinesReconcile
    PricedModelsAreWhole
PROPERTY ImplementsNoticeContract
CHECK_DEADLOCK FALSE
