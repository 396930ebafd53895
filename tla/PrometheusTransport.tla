------------------------- MODULE PrometheusTransport -------------------------
(***************************************************************************)
(* The Prometheus client of pkg/common/prometheus/connect.go: CreateClient *)
(* builds an api.Client on weatherRoundTripper, an http.Transport whose    *)
(* Proxy callback adds the bearer token of the global config to the       *)
(* request it is asked about.  The model is one caller goroutine that     *)
(* makes Prometheus API calls through http.Client.Do, and the steps that  *)
(* net/http takes for each of them: Transport.roundTrip's loop (Proxy,    *)
(* getConn from the idle pool or a fresh dial and TLS handshake, writing  *)
(* the request and reading the answer, retrying on a reused connection    *)
(* that the server had closed), and the Client following redirects.  The *)
(* servers are the environment: they answer, redirect, close connections  *)
(* or stall.                                                               *)
(***************************************************************************)
EXTENDS Integers, Sequences, FiniteSets

CONSTANTS
    Hosts,          \* hosts a request may be sent to
    PromHost,       \* the host of config.Instance.Prometheus.Address
    Token,          \* config.Instance.Prometheus.BearerToken
    MaxIdlePerHost, \* http.DefaultMaxIdleConnsPerHost (the Transport sets none)
    MaxCalls,       \* bound: API calls the caller makes
    MaxRedirects    \* bound: redirects followed within one call

ASSUME PrometheusTransportConstants ==
    /\ PromHost \in Hosts
    /\ MaxIdlePerHost \in Nat /\ MaxCalls \in Nat /\ MaxRedirects \in Nat

(* weatherRoundTripper's settings that the model tells apart: the dial    *)
(* and TLS handshake timeouts it sets, the response header timeout it     *)
(* leaves at zero (none), and certificate verification it turns off.      *)
WeatherTransport ==
    [dialTimeout |-> TRUE, handshakeTimeout |-> TRUE,
     responseHeaderTimeout |-> FALSE, verifyCerts |-> FALSE]

(* Mutation of CreateClient: the client is built from a config field     *)
(* that was never set, so its address is empty.                          *)
CreateClientUnset == [address |-> "", transport |-> WeatherTransport]

(* CreateClient: the api.Client for the configured address on            *)
(* weatherRoundTripper.                                                   *)
CreateClient == [address |-> PromHost, transport |-> WeatherTransport]

(* A request header, reduced to the two names the properties read.      *)
Header(auth, ct) == [Authorization |-> auth, ContentType |-> ct]
Bearer == "Bearer " \o Token
FormType == "application/x-www-form-urlencoded"

(* Mutation of Proxy: the callback installs a fresh header holding only  *)
(* the token.                                                             *)
ProxyReplace(h) == Header(<<Bearer>>, << >>)

(* The Proxy callback: request.Header.Add appends the token to whatever  *)
(* the request's header already holds.                                   *)
Proxy(h) == [h EXCEPT !.Authorization = Append(@, Bearer)]

(* The header client_golang's api client gives a new request: a query is *)
(* a POST form, or a GET when the server refused the POST.              *)
CallerHeader(m) == Header(<< >>, IF m = "POST" THEN <<FormType>> ELSE << >>)

VARIABLES
    phase,      \* the caller's call: "idle" or the step of roundTrip it is in
    calls,      \* API calls made
    method,     \* the method of the current request
    orig,       \* the header the caller passed to Client.Do
    hdr,        \* the header map of the request the Transport holds
    host,       \* the host the current request goes to
    redirects,  \* redirects followed in the current call
    deadline,   \* whether the caller's context has a deadline
    reused,     \* whether the current attempt runs on a pooled connection
    stall,      \* whether the server stalls in the current phase
    pool,       \* idle keep-alive connections per host
    proxyOK,    \* whether http.ProxyFromEnvironment accepts the environment
    sent        \* history: the requests written on the wire

vars == <<phase, calls, method, orig, hdr, host, redirects, deadline, reused,
          stall, pool, proxyOK, sent>>

Init ==
    /\ phase = "idle" /\ calls = 0 /\ method = "GET"
    /\ orig = CallerHeader("GET") /\ hdr = orig /\ host = PromHost
    /\ redirects = 0 /\ deadline = FALSE /\ reused = FALSE /\ stall = FALSE
    /\ pool = [h \in Hosts |-> 0]
    /\ proxyOK \in BOOLEAN
    /\ sent = << >>
-----------------------------------------------------------------------------
(* The caller makes an API call: Client.Do of a fresh request to the      *)
(* configured address, under a context with or without a deadline.        *)
Do ==
    /\ phase = "idle" /\ calls < MaxCalls
    /\ \E m \in {"GET", "POST"}, dl \in BOOLEAN :
          /\ method' = m /\ orig' = CallerHeader(m) /\ hdr' = CallerHeader(m)
          /\ deadline' = dl
    /\ host' = CreateClient.address /\ redirects' = 0
    /\ calls' = calls + 1 /\ phase' = "proxy"
    /\ UNCHANGED <<reused, stall, pool, proxyOK, sent>>

(* An iteration of roundTrip's loop starts with connectMethodForRequest,  *)
(* which calls Proxy on the request; ProxyFromEnvironment may fail.       *)
ProxyStep ==
    /\ phase = "proxy"
    /\ hdr' = Proxy(hdr)
    /\ phase' = IF proxyOK THEN "conn" ELSE "idle"
    /\ UNCHANGED <<calls, method, orig, host, redirects, deadline, reused, stall,
                   pool, proxyOK, sent>>

(* getConn: an idle connection to the host if the pool has one, else a    *)
(* new dial.  The server may stall in the phase that follows.            *)
GetConn ==
    /\ phase = "conn"
    /\ \/ pool[host] > 0 /\ reused' = TRUE /\ phase' = "wait"
          /\ pool' = [pool EXCEPT ![host] = @ - 1]
       \/ pool[host] = 0 /\ reused' = FALSE /\ phase' = "dial" /\ UNCHANGED pool
    /\ stall' \in BOOLEAN
    /\ UNCHANGED <<calls, method, orig, hdr, host, redirects, deadline, proxyOK, sent>>

(* A timeout ends a stalled phase: the Transport's own, or the caller's   *)
(* context deadline.  The error is returned without a retry.              *)
TimedOut(own) ==
    /\ stall /\ (own \/ deadline)
    /\ phase' = "idle"
    /\ UNCHANGED <<reused, stall, pool>>

(* Dialing and the TLS handshake of a new connection; a failure of        *)
(* either is returned by getConn as it is.                                 *)
Connect ==
    /\ \/ phase = "dial" /\ TimedOut(CreateClient.transport.dialTimeout)
       \/ phase = "handshake" /\ TimedOut(CreateClient.transport.handshakeTimeout)
       \/ phase \in {"dial", "handshake"} /\ ~stall
          /\ \/ phase' = IF phase = "dial" THEN "handshake" ELSE "wait"
             \/ phase' = "idle"
          /\ stall' \in BOOLEAN
          /\ UNCHANGED <<reused, pool>>
    /\ UNCHANGED <<calls, method, orig, hdr, host, redirects, deadline, proxyOK, sent>>

(* The request is written and the connection, if it survives, goes back *)
(* to the idle pool (dropped when the pool is full).                     *)
Written == sent' = Append(sent, [host |-> host, auth |-> hdr.Authorization,
                                  ct |-> hdr.ContentType, orig |-> orig.ContentType])
Release == pool' = [pool EXCEPT ![host] = IF @ < MaxIdlePerHost THEN @ + 1 ELSE @]

(* persistConn.roundTrip and what roundTrip and Client.Do make of it.     *)
Exchange ==
    /\ phase = "wait"
    /\ \/ TimedOut(CreateClient.transport.responseHeaderTimeout)
          /\ UNCHANGED <<method, hdr, host, redirects, sent>>
       \/ ~stall /\ Written /\ Release /\ phase' = "idle"
          /\ UNCHANGED <<method, hdr, host, redirects, reused, stall>>
       \* A 302 or 307 answer: Client.Do builds the next request from the
       \* header the caller passed, and a 302 turns a POST into a GET.
       \/ ~stall /\ Written /\ Release /\ redirects < MaxRedirects
          /\ \E to \in Hosts, code \in {302, 307} :
                /\ host' = to
                /\ method' = IF code = 302 THEN "GET" ELSE method
          /\ hdr' = orig /\ redirects' = redirects + 1 /\ phase' = "proxy"
          /\ UNCHANGED <<reused, stall>>
       \* The server closed the connection after reading the request: a GET
       \* on a reused connection is replayable and retried.
       \/ ~stall /\ Written
          /\ phase' = (IF reused /\ method = "GET" THEN "proxy" ELSE "idle")
          /\ UNCHANGED <<method, hdr, host, redirects, reused, stall, pool>>
       \* A pooled connection the server had closed: nothing was written,
       \* so the request is retried (a GET has no body, a POST a GetBody).
       \/ ~stall /\ reused /\ phase' = "proxy"
          /\ UNCHANGED <<method, hdr, host, redirects, reused, stall, pool, sent>>
    /\ UNCHANGED <<calls, orig, deadline, proxyOK>>

Next == Do \/ ProxyStep \/ GetConn \/ Connect \/ Exchange

(* One goroutine makes the calls.                                        *)
Spec == Init /\ [][Next]_vars
-----------------------------------------------------------------------------
(* Every variable holds a value of its type.                             *)
TypeOK ==
    /\ phase \in {"idle", "proxy", "conn", "dial", "handshake", "wait"}
    /\ calls \in 0..MaxCalls /\ method \in {"GET", "POST"}
    /\ orig \in [Authorization : Seq({Bearer}), ContentType : Seq({FormType})]
    /\ hdr \in [Authorization : Seq({Bearer}), ContentType : Seq({FormType})]
    /\ host \in Hosts /\ redirects \in 0..MaxRedirects
    /\ deadline \in BOOLEAN /\ reused \in BOOLEAN /\ stall \in BOOLEAN
    /\ pool \in [Hosts -> 0..MaxIdlePerHost] /\ proxyOK \in BOOLEAN
    /\ sent \in Seq([host : Hosts, auth : Seq({Bearer}),
                     ct : Seq({FormType}), orig : Seq({FormType})])

(* Every request written on the wire, first attempt, retry or redirect,  *)
(* carries the bearer token and only it as credential, and keeps the     *)
(* headers the caller set (the Proxy callback adds to the header, it     *)
(* does not replace it).                                                  *)
RequestsCarryTokenAndCallerHeaders ==
    \A i \in 1..Len(sent) :
        /\ Len(sent[i].auth) > 0
        /\ \A j \in 1..Len(sent[i].auth) : sent[i].auth[j] = Bearer
        /\ sent[i].ct = sent[i].orig
-----------------------------------------------------------------------------
(* The bearer token is sent once per request: no request written on the  *)
(* wire carries two Authorization values (connect.go:18 adds one more on *)
(* every call of Proxy, which roundTrip makes again when it retries).     *)
AuthorizationOnce == \A i \in 1..Len(sent) : Len(sent[i].auth) = 1

(* The token goes only to the configured Prometheus host, as http.Client *)
(* ensures for an Authorization header the caller sets (it drops it on a *)
(* redirect to another domain; connect.go:18 adds it to every request).  *)
TokenStaysWithPrometheus ==
    \A i \in 1..Len(sent) : sent[i].host # PromHost => sent[i].auth = << >>
=============================================================================
