\* Two requests at a time, and two suppliers, one of which may have no report;
\* three callers and two places in the table; queries with 3, 6 and 9 fields.
SPECIFICATION Spec
CONSTANTS
    d1 = d1
    d2 = d2
    firm1 = firm1
    firm2 = firm2
    Desks <- TwoDesks
    Staff = {anna, berta}
    Chiefs = {anna}
    ReviewIds = {1, 2}
    NoReview = NoReview
    Nobody = Nobody
    Clerks <- TwoDesks
    Suppliers <- TwoSuppliers
    SpendChoices <- SomeSpend
    EmissionSets <- SomeEmissions
    NoLink = NoLink
    NoSpend = NoSpend
    NoReport = NoReport
    Readers <- TwoDesks
    Template = Template
    MaxFileSize = 2
    NoForm = NoForm
    v1 = v1
    v2 = v2
    v3 = v3
    Fuels <- FuelFactors
    Vehicles <- VehicleFactors
    Refrigerants <- CommonRefrigerants
    Gases <- GasPotentials
    Subregions <- GridSubregions
    StateSubregion <- GridStates
    Countries <- GridCountries
    WorldRegions <- GridRegions
    WorldAverage = 475
    Freight <- FreightFactors
    Profiles <- IndustryProfiles
    TravelAverages <- Travel
    CommutingAverages <- Commuting
    Industries <- SomeIndustries
    Regions <- SomeRegions
    FuelTypes <- AllFuelTypes
    SomeAmounts <- DrawnAmounts
    Sizes <- FewAndMany
    Factors <- OmitOrRaise
    NoAnswer = NoAnswer
    Unmarked = Unmarked
    Callers <- ThreeCallers
    Metagraphs <- AllOrTwo
    RateMax = 2
    RateWindow = 1
    MaxTracked = 2
    MaxTime = 4
    MaxSyncs = 1
\* A request that began when the limits were reached cannot go on, and a
\* query is over once it is marked.
CHECK_DEADLOCK FALSE
INVARIANTS TypeOK DecisionsAreBounded SharesAddUp ExtractionInOrder
    TrueAnswersPass HonestyPays RateIsBounded
