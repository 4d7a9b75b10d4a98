CONSTANTS
    None = None
    k1 = k1
    k2 = k2
    i1 = i1
    i2 = i2
    m1 = m1
    m2 = m2
    ns1 = ns1
    ns2 = ns2
    EnvKey = env
    KeyIds = {k1, k2}
    ScopeNames = {i1}
    IndexNames = {i1}
    Ids = {1, 2, 3}
    Namespaces = {ns1, ns2}
    DefaultSpace = ns1
    Places <- MCPlaces
    Prefixed = {2}
    PageSize = 1
    MaxListed = 2
    MaxRecords = 3
    Samples = 3
    Batch = 2
    MapParams <- MCMapParams
    Providers = {"openai", "cohere"}
    Ready = {"local"}
    Models = {m1, m2}
    ProviderOf <- MCProviderOf
    Sizes <- MCSizes
    NativeSize <- MCNativeSize
    Dimension = 2
    Widths = {8, 16}
    DefaultModel = m2
    Texts = {"x", "y"}
    Documents = {"d1", "d2"}
    MaxHistory = 4
    Ranges = {2, 4}
    Values <- MCValues
    Gaps = {1, 3}
    MaxTime = 5
    BucketSteps <- MCBucketSteps
    Target = 2
    DocTabs <- MCDocTabs
    DocPages <- MCDocPages
    MaxInFlight = 2
    MaxWait = 2
    KeyRoles = {"read", "admin"}
    Searches = {"act", "zzz"}
    Journeys <- IndexJourneys
SPECIFICATION Spec
CHECK_DEADLOCK FALSE
INVARIANTS TypeOK Inv NothingHangs ResultMatchesRequest BatchesComplete MapIsCurrent
PROPERTIES DraftsSurviveTabs
