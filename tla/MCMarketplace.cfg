\* Two listings, four companies, three requests; c4 has no marketplace in its plan.
SPECIFICATION FairSpec
CONSTANTS
    c1 = c1
    c2 = c2
    c3 = c3
    c4 = c4
    l1 = l1
    l2 = l2
    r1 = r1
    r2 = r2
    r3 = r3
    None = None
    Companies = {c1, c2, c3, c4}
    Listings = {l1, l2}
    Requests = {r1, r2, r3}
    Seller <- SellerOfTwo
    Price <- PriceOfTwo
    Opening <- OpeningFew
    Entitled = {c1, c2, c3}
    Workload <- CrossJobs
INVARIANTS TypeOK UniqueSale
PROPERTIES ContractSpec Answered
