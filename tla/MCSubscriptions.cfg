SPECIFICATION SubSpec
CONSTANTS
    Request = {r1}
    Limit = 1
    MaxDay = 3
    MaxSent = 2
    Verification = {v1, v2, v3}
    Month = 1
    Period = {1, 2}
    Product = {"creator_elite"}
    MaxPurchase = 2
SYMMETRY Symmetry
INVARIANTS
    VerifiedIsUnlimited
PROPERTY QuotaSpec
CHECK_DEADLOCK FALSE
