CONSTANTS
    Hosts <- MCHosts
    PromHost = "prometheus"
    Token = "tok"
    MaxIdlePerHost = 2
    MaxCalls = 3
    MaxRedirects = 1
SPECIFICATION Spec
INVARIANTS
    TokenStaysWithPrometheus
CHECK_DEADLOCK FALSE
