\* One binary per way a spec can be right or wrong and per entrypoint.
SPECIFICATION Spec
CONSTANTS
    Binaries <- MCBinaries
    ServiceInfos <- MCServiceInfos
    Files = {"f.hcl"}
    ArgLists <- MCArgLists
    Deliveries <- MCDeliveries
    NameLists <- MCNameLists
    Steps = {k1, k2}
    RequestIds = {"", "r1"}
    MaxRequests = 2
    WellFormedNames = {"greeter"}
    WellFormedVersions = {"1.0.0"}
    WellFormedURLs = {"https://x"}
    WellFormedEnvironments = {"shell"}
    WellFormedOSes = {"linux"}
    WellFormedArchs = {"amd64"}
SYMMETRY StepSymmetry
INVARIANTS
    TypeOK
    InfoLosesNothing
    FeaturesHonest
    ManifestOrService
    PublishedMatchesInfo
    EmitsPublishable
    PermissionsFailClosed
    ChildGetsItsCredentials
