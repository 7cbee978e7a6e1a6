SPECIFICATION Spec
CONSTANTS
    Users = {u1}
    Calls = {c1, c2}
    Payer <- OneWallet
    Kinds = {"bump", "extend", "interaction", "approveAd", "reveal", "sellerReveal", "connection"}
    Cost <- SmallCosts
    FreeRequestQuota = 1
    FreeDaily = 1
    MaxDaily = 2
    MaxBalance = 3
    MaxReveals = 2
    MaxServices = 2
SYMMETRY Symmetry
INVARIANTS
    
    
    QuotasKept
