CONSTANTS
    Hosts <- MCHosts
    PromHost = "prometheus"
    Token = "tok"
    MaxIdlePerHost = 2
    MaxCalls = 3
    MaxRedirects = 1
SPECIFICATION Spec
INVARIANTS
    TypeOK
    RequestsCarryTokenAndCallerHeaders
\* A call whose server stalls the response while the caller's context has no
\* deadline hangs for good (no ResponseHeaderTimeout), and the caller stops
\* after its last call: both are states with no successor.
CHECK_DEADLOCK FALSE
