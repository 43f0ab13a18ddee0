\* Two checkouts of one company, a payment of the first customer's that fails;
\* three reports, so that one can be deleted between two.
SPECIFICATION NoticesSpec
CONSTANTS
    r1 = r1
    r2 = r2
    b1 = b1
    k1 = k1
    k2 = k2
    Events <- FourEvents
    KindOf <- Kinds
    CustomerOf <- TwoCustomers
    Nobody = Nobody
    MaxErrors = 1
    Replicas <- TwoReplicas
    Admin = Admin
    Browsers <- OneBrowser
    HostOf <- Hosted
    ReportRows <- SomeReports
    Gone = Gone
    MaxReports = 3
    Increase = 10
    Drop = 15
    Window = 2
    QueueSize = 1
    MaxIncidents = 1
CHECK_DEADLOCK FALSE
INVARIANTS NoticesTypeOK
PROPERTIES FailuresAreAlerted IncreaseIsAlerted
