CONSTANTS
    arm = arm  c1 = c1  c2 = c2  buyer = buyer  staff = staff  d1 = d1  d2 = d2
    Keys = {arm, c1, c2}
    Clicks = {c1, c2}
    ApprovalKeys = {arm}
    DeferredKeys = {c1, c2}
    ResultKeys = {c1, c2}
    DocKeys = {}
    Requires <- ClicksNeedArm
    Sessions = {buyer, staff, d1, d2}
    Buyers = {buyer}
    Staff = {staff}
    Deliveries = {d1, d2}
    MaxVerifyAttempts = 1
    FlakyWorld = TRUE
    MaxCrashes = 2
SPECIFICATION FairCheckoutSpec
INVARIANTS Inv ApprovalBeforeEffect RequiredFirst SoldIsPaid AnsweredIsSettled
PROPERTIES LedgerSpec PaymentIsProved
CHECK_DEADLOCK FALSE
