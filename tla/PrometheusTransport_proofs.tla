---------------------- MODULE PrometheusTransport_proofs ----------------------
(***************************************************************************)
(* Proofs about the Prometheus transport for every set of hosts, token    *)
(* and bounds: its type invariant, and that every request written on the  *)
(* wire carries the bearer token and the caller's own headers.           *)
(***************************************************************************)
EXTENDS PrometheusTransport, TLAPS

HeaderType == [Authorization : Seq({Bearer}), ContentType : Seq({FormType})]
SentType == [host : Hosts, auth : Seq({Bearer}), ct : Seq({FormType}),
             orig : Seq({FormType})]

(* The facts about the request header that make the property inductive: *)
(* the Transport's header keeps the caller's Content-Type, and from the  *)
(* first Proxy call of an attempt on it holds at least one token.        *)
HeaderInv ==
    /\ hdr.ContentType = orig.ContentType
    /\ phase \in {"conn", "dial", "handshake", "wait"} => Len(hdr.Authorization) > 0

IInv == TypeOK /\ HeaderInv /\ RequestsCarryTokenAndCallerHeaders

LEMMA ConstFacts ==
    /\ PromHost \in Hosts
    /\ MaxIdlePerHost \in Nat /\ MaxCalls \in Nat /\ MaxRedirects \in Nat
BY PrometheusTransportConstants

LEMMA CallerHeaderTyped ==
    ASSUME NEW m \in {"GET", "POST"}
    PROVE  /\ CallerHeader(m) \in HeaderType
           /\ CallerHeader(m).Authorization = << >>
<1>1. (IF m = "POST" THEN <<FormType>> ELSE << >>) \in Seq({FormType})
    OBVIOUS
<1> QED
    BY <1>1 DEF CallerHeader, Header, HeaderType

LEMMA ProxyTyped ==
    ASSUME NEW h \in HeaderType
    PROVE  /\ Proxy(h) \in HeaderType
           /\ Proxy(h).ContentType = h.ContentType
           /\ Len(Proxy(h).Authorization) > 0
           /\ Proxy(h).Authorization = Append(h.Authorization, Bearer)
BY DEF Proxy, HeaderType

(* The record Written appends is typed and keeps the property when the  *)
(* header carries a token and the caller's Content-Type.                 *)
LEMMA WrittenOK ==
    ASSUME TypeOK, HeaderInv, RequestsCarryTokenAndCallerHeaders,
           phase = "wait", Written
    PROVE  /\ sent' \in Seq(SentType)
           /\ RequestsCarryTokenAndCallerHeaders'
<1> DEFINE rec == [host |-> host, auth |-> hdr.Authorization,
                   ct |-> hdr.ContentType, orig |-> orig.ContentType]
<1>1. sent' = Append(sent, rec)
    BY DEF Written
<1>2. hdr \in HeaderType /\ orig \in HeaderType /\ host \in Hosts /\ sent \in Seq(SentType)
    BY DEF TypeOK, HeaderType, SentType
<1>3. rec \in SentType
    BY <1>2 DEF HeaderType, SentType
<1>4. Len(hdr.Authorization) > 0 /\ hdr.ContentType = orig.ContentType
    BY DEF HeaderInv
<1>5. \A j \in 1..Len(rec.auth) : rec.auth[j] = Bearer
    BY <1>2 DEF HeaderType
<1> QED
    BY <1>1, <1>2, <1>3, <1>4, <1>5 DEF RequestsCarryTokenAndCallerHeaders
-----------------------------------------------------------------------------
LEMMA InitIInv == Init => IInv
<1> SUFFICES ASSUME Init PROVE IInv
    OBVIOUS
<1>1. orig = CallerHeader("GET") /\ hdr = orig
    BY DEF Init
<1>2. orig \in HeaderType /\ hdr \in HeaderType
    BY <1>1, CallerHeaderTyped
<1>3. /\ phase = "idle" /\ calls = 0 /\ method = "GET" /\ host = PromHost
      /\ redirects = 0 /\ deadline = FALSE /\ reused = FALSE /\ stall = FALSE
      /\ pool = [h \in Hosts |-> 0] /\ proxyOK \in BOOLEAN /\ sent = << >>
    BY DEF Init
<1>4. /\ calls \in 0..MaxCalls /\ redirects \in 0..MaxRedirects /\ host \in Hosts
      /\ pool \in [Hosts -> 0..MaxIdlePerHost] /\ sent \in Seq(SentType)
    BY <1>3, ConstFacts
<1>5. TypeOK
    BY <1>2, <1>3, <1>4 DEF TypeOK, HeaderType, SentType
<1>6. HeaderInv
    BY <1>1, <1>3 DEF HeaderInv
<1>7. RequestsCarryTokenAndCallerHeaders
    BY <1>3 DEF RequestsCarryTokenAndCallerHeaders
<1> QED
    BY <1>5, <1>6, <1>7 DEF IInv
-----------------------------------------------------------------------------
(* Every step keeps the inductive invariant: one case per action, and   *)
(* under Exchange one case per way persistConn.roundTrip ends.           *)
LEMMA NextIInv == IInv /\ [Next]_vars => IInv'
<1> SUFFICES ASSUME IInv, [Next]_vars PROVE IInv'
    OBVIOUS
<1> USE ConstFacts
<1>0. /\ TypeOK /\ HeaderInv /\ RequestsCarryTokenAndCallerHeaders
      /\ hdr \in HeaderType /\ orig \in HeaderType /\ sent \in Seq(SentType)
    BY DEF IInv, TypeOK, HeaderType, SentType
<1>1. CASE Do
    <2>1. PICK m \in {"GET", "POST"} :
             /\ method' = m /\ orig' = CallerHeader(m) /\ hdr' = CallerHeader(m)
        BY <1>1 DEF Do
    <2>2. orig' \in HeaderType /\ hdr' \in HeaderType
        BY <2>1, CallerHeaderTyped
    <2>3. host' \in Hosts
        BY <1>1 DEF Do, CreateClient
    <2>4. TypeOK'
        BY <1>0, <1>1, <2>1, <2>2, <2>3 DEF Do, TypeOK, HeaderType
    <2>5. HeaderInv'
        BY <1>1, <2>1 DEF Do, HeaderInv
    <2> QED
        BY <1>0, <1>1, <2>4, <2>5 DEF Do, IInv, RequestsCarryTokenAndCallerHeaders
<1>2. CASE ProxyStep
    <2>1. hdr' = Proxy(hdr)
        BY <1>2 DEF ProxyStep
    <2>2. hdr' \in HeaderType /\ hdr'.ContentType = hdr.ContentType
          /\ Len(hdr'.Authorization) > 0
        BY <1>0, <2>1, ProxyTyped
    <2>3. TypeOK'
        BY <1>0, <1>2, <2>2 DEF ProxyStep, TypeOK, HeaderType
    <2>4. HeaderInv'
        BY <1>0, <1>2, <2>2 DEF ProxyStep, HeaderInv
    <2> QED
        BY <1>0, <1>2, <2>3, <2>4 DEF ProxyStep, IInv, RequestsCarryTokenAndCallerHeaders
<1>3. CASE GetConn
    <2>0. pool \in [Hosts -> 0..MaxIdlePerHost] /\ host \in Hosts
        BY <1>0 DEF TypeOK
    <2>1. pool' \in [Hosts -> 0..MaxIdlePerHost]
        BY <2>0, <1>3 DEF GetConn
    <2>2. TypeOK'
        BY <1>0, <1>3, <2>1 DEF GetConn, TypeOK
    <2>3. HeaderInv'
        BY <1>0, <1>3 DEF GetConn, HeaderInv
    <2> QED
        BY <1>0, <1>3, <2>2, <2>3 DEF GetConn, IInv, RequestsCarryTokenAndCallerHeaders
<1>4. CASE Connect
    <2>1. TypeOK'
        BY <1>0, <1>4 DEF Connect, TimedOut, TypeOK
    <2>2. HeaderInv'
        BY <1>0, <1>4 DEF Connect, TimedOut, HeaderInv
    <2> QED
        BY <1>0, <1>4, <2>1, <2>2 DEF Connect, IInv, RequestsCarryTokenAndCallerHeaders
<1>5. CASE Exchange
    <2>1. phase = "wait"
        BY <1>5 DEF Exchange
    <2>2. UNCHANGED <<calls, orig, deadline, proxyOK>>
        BY <1>5 DEF Exchange
    <2>3. CASE TimedOut(CreateClient.transport.responseHeaderTimeout)
                /\ UNCHANGED <<method, hdr, host, redirects, sent>>
        BY <1>0, <2>2, <2>3 DEF TimedOut, IInv, TypeOK, HeaderInv,
                                RequestsCarryTokenAndCallerHeaders
    <2>4. CASE ~stall /\ Written /\ Release /\ phase' = "idle"
                /\ UNCHANGED <<method, hdr, host, redirects, reused, stall>>
        <3>0. pool \in [Hosts -> 0..MaxIdlePerHost] /\ host \in Hosts
            BY <1>0 DEF TypeOK
        <3>1. sent' \in Seq(SentType) /\ RequestsCarryTokenAndCallerHeaders'
            BY <1>0, <2>1, <2>4, WrittenOK
        <3>2. pool' \in [Hosts -> 0..MaxIdlePerHost]
            BY <3>0, <2>4 DEF Release
        <3> QED
            BY <1>0, <2>2, <2>4, <3>1, <3>2 DEF IInv, TypeOK, HeaderInv, SentType
    <2>5. CASE ~stall /\ Written /\ Release /\ redirects < MaxRedirects
                /\ \E to \in Hosts, code \in {302, 307} :
                      /\ host' = to
                      /\ method' = IF code = 302 THEN "GET" ELSE method
                /\ hdr' = orig /\ redirects' = redirects + 1 /\ phase' = "proxy"
                /\ UNCHANGED <<reused, stall>>
        <3>0. pool \in [Hosts -> 0..MaxIdlePerHost] /\ host \in Hosts
            BY <1>0 DEF TypeOK
        <3>1. sent' \in Seq(SentType) /\ RequestsCarryTokenAndCallerHeaders'
            BY <1>0, <2>1, <2>5, WrittenOK
        <3>2. pool' \in [Hosts -> 0..MaxIdlePerHost]
            BY <3>0, <2>5 DEF Release
        <3>3. host' \in Hosts /\ method' \in {"GET", "POST"}
            BY <1>0, <2>5 DEF TypeOK
        <3>4. redirects' \in 0..MaxRedirects
            BY <1>0, <2>5 DEF TypeOK
        <3> QED
            BY <1>0, <2>2, <2>5, <3>1, <3>2, <3>3, <3>4 DEF IInv, TypeOK, HeaderInv,
                                                          SentType, HeaderType
    <2>6. CASE ~stall /\ Written
                /\ phase' = (IF reused /\ method = "GET" THEN "proxy" ELSE "idle")
                /\ UNCHANGED <<method, hdr, host, redirects, reused, stall, pool>>
        <3>1. sent' \in Seq(SentType) /\ RequestsCarryTokenAndCallerHeaders'
            BY <1>0, <2>1, <2>6, WrittenOK
        <3> QED
            BY <1>0, <2>2, <2>6, <3>1 DEF IInv, TypeOK, HeaderInv, SentType
    <2>7. CASE ~stall /\ reused /\ phase' = "proxy"
                /\ UNCHANGED <<method, hdr, host, redirects, reused, stall, pool, sent>>
        BY <1>0, <2>2, <2>7 DEF IInv, TypeOK, HeaderInv, RequestsCarryTokenAndCallerHeaders
    <2> QED
        BY <1>5, <2>3, <2>4, <2>5, <2>6, <2>7 DEF Exchange
<1>6. CASE UNCHANGED vars
    BY <1>0, <1>6 DEF vars, IInv, TypeOK, HeaderInv, RequestsCarryTokenAndCallerHeaders
<1> QED
    BY <1>1, <1>2, <1>3, <1>4, <1>5, <1>6 DEF Next

(* Every request the Transport writes, first attempt, retry after a      *)
(* closed pooled connection, or redirect, carries the bearer token that  *)
(* the Proxy callback adds (connect.go:18), only that credential, and    *)
(* the Content-Type the caller set.                                      *)
THEOREM TokenAndHeadersHold == Spec => []RequestsCarryTokenAndCallerHeaders
<1>1. IInv => RequestsCarryTokenAndCallerHeaders
    BY DEF IInv
<1> QED
    BY InitIInv, NextIInv, <1>1, PTL DEF Spec

(* The Prometheus transport keeps every variable in its type: the idle   *)
(* pool never holds more than MaxIdlePerHost connections to a host.     *)
THEOREM TypeCorrect == Spec => []TypeOK
<1>1. IInv => TypeOK
    BY DEF IInv
<1> QED
    BY InitIInv, NextIInv, <1>1, PTL DEF Spec
=============================================================================
