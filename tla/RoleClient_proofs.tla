-------------------------- MODULE RoleClient_proofs --------------------------
(***************************************************************************)
(* Proofs that the invariants the role_client run checks hold for every    *)
(* set of status codes, bodies, predicates and bounds: TypeOK and the      *)
(* result/err contract of SendContext.                                     *)
(***************************************************************************)
EXTENDS RoleClient, TLAPS

(* The (result, err) pairs SendContext may return.                        *)
OutType == [result : Responses, err : Errors]

(* What SendContract asks of one outcome of a method.                    *)
Contract(m, o) ==
    /\ o.err = "nil" =>
          /\ o.result.present /\ o.result.status < 400
          /\ m # "DELETE" => o.result.body # "nil"
    /\ (o.result.present /\ o.result.status >= 400) => o.err # "nil"
    /\ ~o.result.present => o.err # "nil"

LEMMA CodesFacts ==
    /\ FailCodes \subseteq Codes /\ OkCodes \subseteq Codes
    /\ \A c \in FailCodes : c \in Nat /\ c >= 400
    /\ \A c \in OkCodes : c \in Nat /\ c < 400
BY RoleClientConstants DEF FailCodes, OkCodes

(* A response SendContext builds, and the pair it returns, are typed.    *)
LEMMA RespTyped ==
    ASSUME NEW c \in Codes, NEW e \in {"nil", "apiErr"}, NEW b \in Bodies \cup {"nil"}
    PROVE  Resp(c, e, b) \in Responses
BY DEF Resp, Responses

LEMMA OutTyped ==
    ASSUME NEW r \in Responses, NEW e \in Errors
    PROVE  Out(r, e) \in OutType
BY DEF Out, OutType

LEMMA ErrorsFacts ==
    /\ {"nil", "marshal", "transport", "apiErr", "decode", "deadline"} \subseteq Errors
    /\ NoResp \in Responses
BY DEF Errors, NoResp, Responses

(* The outcomes of the >= 400 branch are typed and keep the contract.    *)
LEMMA ErrorStatusTyped ==
    \A o \in ErrorStatusOutcomes : o \in OutType /\ \A m \in Methods : Contract(m, o)
<1> SUFFICES ASSUME NEW c \in FailCodes, NEW ue \in {"nil", "apiErr"},
                    NEW o \in {Out(Resp(c, "apiErr", "nil"), "apiErr"),
                               Out(Resp(c, ue, "nil"), "decode")}
             PROVE o \in OutType /\ \A m \in Methods : Contract(m, o)
    BY DEF ErrorStatusOutcomes
<1>1. c \in Codes /\ c \in Nat /\ c >= 400
    BY CodesFacts
<1>2. o \in OutType
    BY <1>1, RespTyped, OutTyped, ErrorsFacts
<1>3. \A m \in Methods : Contract(m, o)
    BY <1>1 DEF Out, Resp, Contract
<1> QED
    BY <1>2, <1>3

(* The outcomes of the body branch for a status below 400.               *)
LEMMA BodyTyped ==
    ASSUME NEW c \in OkCodes
    PROVE  \A o \in BodyOutcomes(c) : o \in OutType /\ \A m \in Methods : Contract(m, o)
<1> SUFFICES ASSUME NEW o \in BodyOutcomes(c)
             PROVE  o \in OutType /\ \A m \in Methods : Contract(m, o)
    OBVIOUS
<1>1. c \in Codes /\ c \in Nat /\ c < 400
    BY CodesFacts
<1>2. CASE \E b \in Bodies : o = Out(Resp(c, "nil", b), "nil")
    <2>1. PICK b \in Bodies : o = Out(Resp(c, "nil", b), "nil")
        BY <1>2
    <2>2. o \in OutType
        BY <1>1, <2>1, RespTyped, OutTyped, ErrorsFacts
    <2>3. b # "nil"
        BY RoleClientConstants
    <2> QED
        BY <1>1, <2>1, <2>2, <2>3 DEF Out, Resp, Contract
<1>3. CASE o = Out(Resp(c, "nil", "nil"), "decode")
    <2>1. o \in OutType
        BY <1>1, <1>3, RespTyped, OutTyped, ErrorsFacts
    <2> QED
        BY <1>1, <1>3, <2>1 DEF Out, Resp, Contract
<1> QED
    BY <1>2, <1>3 DEF BodyOutcomes

LEMMA TransportTyped ==
    \A e \in {"marshal", "transport"} :
        Out(NoResp, e) \in OutType /\ \A m \in Methods : Contract(m, Out(NoResp, e))
<1>1. \A e \in {"marshal", "transport"} : Out(NoResp, e) \in OutType
    BY ErrorsFacts, OutTyped
<1>2. \A e \in {"marshal", "transport"} : \A m \in Methods : Contract(m, Out(NoResp, e))
    BY DEF Out, NoResp, Contract
<1> QED
    BY <1>1, <1>2

(* Every outcome of SendContext is typed and keeps the contract.         *)
LEMMA SendContextTyped ==
    ASSUME NEW m \in Methods, NEW o \in SendContext(m)
    PROVE  o \in OutType /\ Contract(m, o)
<1>1. CASE m = "GET"
    <2>1. o \in GetSendContext
        BY <1>1 DEF SendContext
    <2> QED
        BY <2>1, ErrorStatusTyped, BodyTyped, TransportTyped DEF GetSendContext
<1>2. CASE m = "PATCH"
    <2>1. o \in UpdateSendContext
        BY <1>2 DEF SendContext
    <2> QED
        BY <2>1, ErrorStatusTyped, BodyTyped, TransportTyped DEF UpdateSendContext
<1>3. CASE m = "DELETE"
    <2>1. o \in DeleteSendContext
        BY <1>3 DEF SendContext
    <2>2. \A c \in OkCodes : Out(Resp(c, "nil", "nil"), "nil") \in OutType
                             /\ Contract("DELETE", Out(Resp(c, "nil", "nil"), "nil"))
        BY CodesFacts DEF OutType, Responses, Errors, Out, Resp, Contract
    <2> QED
        BY <1>3, <2>1, <2>2, ErrorStatusTyped, TransportTyped DEF DeleteSendContext
<1> QED
    BY <1>1, <1>2, <1>3 DEF Methods

(* The Get outcomes the polling loop sees are typed and keep the        *)
(* contract of a Get.                                                     *)
LEMMA GetTyped ==
    ASSUME NEW o \in GetSendContext
    PROVE  o \in OutType /\ Contract("GET", o)
<1>1. o \in SendContext("GET")
    BY DEF SendContext
<1> QED
    BY <1>1, SendContextTyped DEF Methods
-----------------------------------------------------------------------------
LEMMA InitTypeOK == Init => TypeOK
<1> SUFFICES ASSUME Init PROVE TypeOK
    OBVIOUS
<1>1. last = [method |-> "GET", result |-> NoResp, err |-> "nil"]
      /\ pollOut = Out(NoResp, "nil")
    BY DEF Init
<1>2. "GET" \in Methods
    BY DEF Methods
<1>3. last \in [method : Methods, result : Responses, err : Errors]
    BY <1>1, <1>2, ErrorsFacts
<1>4. pollOut \in [result : Responses, err : Errors]
    BY <1>1, ErrorsFacts, OutTyped DEF OutType
<1>5. MaxPolls \in Nat \ {0} /\ MaxSends \in Nat /\ MaxBuild \in Nat
    BY RoleClientConstants
<1>6. /\ phase = "idle" /\ sends = 0 /\ statuses = << >> /\ preds = << >>
      /\ interval = 0 /\ deadline \in BOOLEAN /\ polls = 0 /\ panicked = FALSE
    BY DEF Init
<1>7. /\ sends \in 0..MaxSends /\ polls \in 0..(MaxPolls - 1)
      /\ statuses \in Seq(Codes) /\ Len(statuses) <= MaxBuild
      /\ preds \in Seq(Predicates) /\ Len(preds) <= MaxBuild
      /\ interval \in Intervals \cup {0}
    BY <1>5, <1>6
<1> QED
    BY <1>3, <1>4, <1>6, <1>7, Zenon DEF TypeOK

LEMMA NextTypeOK == TypeOK /\ [Next]_vars => TypeOK'
<1> SUFFICES ASSUME TypeOK, [Next]_vars PROVE TypeOK'
    OBVIOUS
<1>0. MaxPolls \in Nat \ {0} /\ MaxSends \in Nat /\ MaxBuild \in Nat
      /\ Codes \subseteq Nat /\ Intervals \subseteq Int
    BY RoleClientConstants
<1>1. CASE Send
    <2>1. PICK m \in Methods : \E o \in SendContext(m) :
             last' = [method |-> m, result |-> o.result, err |-> o.err]
        BY <1>1 DEF Send
    <2>2. PICK o \in SendContext(m) :
             last' = [method |-> m, result |-> o.result, err |-> o.err]
        BY <2>1
    <2>3. o \in OutType
        BY SendContextTyped
    <2> QED
        BY <1>0, <1>1, <2>2, <2>3 DEF Send, TypeOK, OutType
<1>2. CASE Poll
    BY <1>0, <1>2 DEF Poll, TypeOK
<1>3. CASE Status
    BY <1>0, <1>3 DEF Status, TypeOK
<1>4. CASE Predicate
    BY <1>0, <1>4 DEF Predicate, TypeOK
<1>5. CASE Interval
    BY <1>0, <1>5 DEF Interval, TypeOK
<1>6. CASE StartContext
    <2>1. Out(NoResp, "noDeadline") \in [result : Responses, err : Errors]
          /\ Out(NoResp, "badInterval") \in [result : Responses, err : Errors]
        BY DEF Out, NoResp, Responses, Errors
    <2> QED
        BY <1>6, <2>1 DEF StartContext, TypeOK
<1>7. CASE PollStep
    <2>1. PICK o \in GetSendContext :
             \/ Accepted(o.result) /\ phase' = "returned"
                /\ pollOut' = Out(StartContextResult(o.result), o.err) /\ UNCHANGED polls
             \/ ~Accepted(o.result) /\ polls + 1 < MaxPolls
                /\ polls' = polls + 1 /\ UNCHANGED <<phase, pollOut>>
             \/ ~Accepted(o.result) /\ polls + 1 >= MaxPolls
                /\ phase' = "returned" /\ UNCHANGED polls
                /\ \E r \in {NoResp, o.result} : pollOut' = Out(StartContextResult(r), "deadline")
        BY <1>7 DEF PollStep
    <2>2. o \in OutType
        BY GetTyped
    <2>3. NoResp \in Responses /\ "deadline" \in Errors
        BY DEF NoResp, Responses, Errors
    <2>4. \A r \in Responses : StartContextResult(r) \in Responses
        BY <2>3 DEF StartContextResult
    <2>5. pollOut' \in [result : Responses, err : Errors]
        <3>1. o.result \in Responses /\ o.err \in Errors
            BY <2>2 DEF OutType
        <3>2. CASE pollOut' = Out(StartContextResult(o.result), o.err)
            BY <3>1, <3>2, <2>4, OutTyped DEF OutType
        <3>3. CASE \E r \in {NoResp, o.result} : pollOut' = Out(StartContextResult(r), "deadline")
            BY <3>1, <3>3, <2>3, <2>4, OutTyped DEF OutType
        <3>4. CASE UNCHANGED pollOut
            BY <3>4 DEF TypeOK
        <3> QED
            BY <2>1, <3>2, <3>3, <3>4
    <2>6. polls' \in 0..(MaxPolls - 1) /\ phase' \in {"polling", "returned"}
        BY <1>0, <1>7, <2>1 DEF TypeOK, PollStep
    <2> QED
        BY <1>7, <2>5, <2>6 DEF PollStep, TypeOK
<1>8. CASE Access
    BY <1>8 DEF Access, TypeOK
<1>9. CASE UNCHANGED vars
    BY <1>9 DEF vars, TypeOK
<1> QED
    BY <1>1, <1>2, <1>3, <1>4, <1>5, <1>6, <1>7, <1>8, <1>9 DEF Next

(* RoleClient keeps every variable in its type: in particular the poll   *)
(* loop's counter stays below the deadline bound and the results it     *)
(* stores are responses SendContext can build.                           *)
THEOREM TypeCorrect == Spec => []TypeOK
BY InitTypeOK, NextTypeOK, PTL DEF Spec
-----------------------------------------------------------------------------
(* Every step that leaves last and sends alone keeps SendContract.       *)
LEMMA SendContractStep == TypeOK /\ SendContract /\ [Next]_vars => SendContract'
<1> SUFFICES ASSUME TypeOK, SendContract, [Next]_vars PROVE SendContract'
    OBVIOUS
<1>1. CASE Send
    <2>1. PICK m \in Methods : \E o \in SendContext(m) :
             last' = [method |-> m, result |-> o.result, err |-> o.err]
        BY <1>1 DEF Send
    <2>2. PICK o \in SendContext(m) :
             last' = [method |-> m, result |-> o.result, err |-> o.err]
        BY <2>1
    <2>3. Contract(m, o)
        BY SendContextTyped
    <2> QED
        BY <2>2, <2>3 DEF Contract, SendContract
<1>2. CASE ~Send
    <2>1. UNCHANGED <<last, sends>>
        BY <1>2 DEF Next, vars, Poll, Status, Predicate, Interval, StartContext,
                    PollStep, Access
    <2> QED
        BY <2>1 DEF SendContract
<1> QED
    BY <1>1, <1>2

(* The result/err contract of RoleGetRequest.SendContext,                *)
(* RoleUpdateRequest.SendContext and RoleDeleteRequest.SendContext holds *)
(* after every direct Send: an error-free answer is a response below    *)
(* 400 with a body (but for Delete), and an answer of 400 or more, or    *)
(* none, always comes with an error.                                    *)
THEOREM SendContractHolds == Spec => []SendContract
<1>1. Init => SendContract
    BY DEF Init, SendContract
<1>2. TypeOK /\ SendContract /\ [Next]_vars => (TypeOK /\ SendContract)'
    BY NextTypeOK, SendContractStep
<1> QED
    BY <1>1, <1>2, InitTypeOK, PTL DEF Spec
=============================================================================
