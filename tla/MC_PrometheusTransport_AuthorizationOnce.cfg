CONSTANTS
    Hosts <- MCHosts
    PromHost = "prometheus"
    Token = "tok"
    MaxIdlePerHost = 2
    MaxCalls = 3
    MaxRedirects = 1
SPECIFICATION Spec
INVARIANTS
    AuthorizationOnce
CHECK_DEADLOCK FALSE
