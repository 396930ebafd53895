----------------------------- MODULE RoleClient -----------------------------
(***************************************************************************)
(* The generated OCM client of the 'role' resource (src/unnamed/part_000): *)
(* one caller issues Get, Update (PATCH) and Delete requests through       *)
(* SendContext, and polls the role with a RolePollRequest: builder calls   *)
(* Status, Predicate and Interval, then StartContext, whose polling loop   *)
(* (helpers.PollContext) calls task, that is SendContext of the Get        *)
(* request, until a response is accepted or the context's deadline        *)
(* passes.  The transport is the network: each round trip may fail, or    *)
(* answer any status and any body.  Afterwards the caller reads the       *)
(* poll response through its accessors.                                    *)
(***************************************************************************)
EXTENDS Integers, Sequences, FiniteSets

CONSTANTS
    Codes,       \* HTTP status codes the server may answer
    Bodies,      \* role bodies a 2xx/3xx answer may decode to
    Predicates,  \* predicates a caller may add to the poll
    Accepts,     \* the bodies each predicate returns true for
    Intervals,   \* polling intervals a caller may set (time.Duration)
    MaxSends,    \* bound: direct Send calls the caller makes
    MaxBuild,    \* bound: Status and Predicate calls per poll
    MaxPolls     \* bound: task calls that fit before the deadline

ASSUME RoleClientConstants ==
    /\ Codes \subseteq Nat /\ \E c \in Codes : c >= 400
    /\ "nil" \notin Bodies
    /\ Accepts \in [Predicates -> SUBSET Bodies]
    /\ Intervals \subseteq Int
    /\ MaxSends \in Nat /\ MaxBuild \in Nat /\ MaxPolls \in Nat \ {0}

Methods == {"GET", "PATCH", "DELETE"}
(* Error values: "nil" is Go's nil; the others name where they come from. *)
Errors == {"nil", "marshal", "transport", "apiErr", "decode",
           "noDeadline", "badInterval", "deadline"}
(* A response pointer: absent (nil) or the fields SendContext sets.       *)
Resp(code, e, b) == [present |-> TRUE, status |-> code, err |-> e, body |-> b]
NoResp == [present |-> FALSE, status |-> 0, err |-> "nil", body |-> "nil"]
Responses == {NoResp} \cup
    [present : {TRUE}, status : Codes, err : {"nil", "apiErr"}, body : Bodies \cup {"nil"}]
Out(r, e) == [result |-> r, err |-> e]
FailCodes == {c \in Codes : c >= 400}
OkCodes == Codes \ FailCodes

VARIABLES
    phase,       \* the caller: "idle", "building", "polling", "returned", "done"
    sends,       \* direct Send calls made
    last,        \* the method and the (result, err) of the last direct Send
    statuses,    \* RolePollRequest.statuses
    preds,       \* RolePollRequest.predicates
    interval,    \* RolePollRequest.interval
    deadline,    \* whether the context passed to StartContext has a deadline
    polls,       \* task calls made by the polling loop
    pollOut,     \* StartContext's (response, err)
    panicked     \* a nil pointer dereference in an accessor

vars == <<phase, sends, last, statuses, preds, interval, deadline, polls,
          pollOut, panicked>>

Init ==
    /\ phase = "idle"
    /\ sends = 0
    /\ last = [method |-> "GET", result |-> NoResp, err |-> "nil"]
    /\ statuses = << >>
    /\ preds = << >>
    /\ interval = 0
    /\ deadline \in BOOLEAN
    /\ polls = 0
    /\ pollOut = Out(NoResp, "nil")
    /\ panicked = FALSE
-----------------------------------------------------------------------------
(* Mutation of ErrorStatusOutcomes: the decoding error is stored in the  *)
(* response's typed error field.                                          *)
ErrorStatusOutcomesSwapped ==
    {Out(Resp(c, "apiErr", "nil"), "apiErr") : c \in FailCodes}
    \cup {Out(Resp(c, "decode", "nil"), "decode") : c \in FailCodes}

(* The answer to a status >= 400: errors.UnmarshalError reads the typed  *)
(* error, or fails to and leaves result.err as it returned it.           *)
ErrorStatusOutcomes ==
    {Out(Resp(c, "apiErr", "nil"), "apiErr") : c \in FailCodes}
    \cup {Out(Resp(c, ue, "nil"), "decode") : c \in FailCodes, ue \in {"nil", "apiErr"}}

(* RoleGetResponse.unmarshal: json decoding of a role, or its error.      *)
BodyOutcomes(c) ==
    {Out(Resp(c, "nil", b), "nil") : b \in Bodies} \cup {Out(Resp(c, "nil", "nil"), "decode")}

(* RoleDeleteRequest.SendContext: no body is read on success.            *)
DeleteSendContext ==
    {Out(NoResp, "transport")} \cup ErrorStatusOutcomes
    \cup {Out(Resp(c, "nil", "nil"), "nil") : c \in OkCodes}

(* Mutation of GetSendContext: the typed error is stored in result.err   *)
(* but not returned as err.                                              *)
GetSendContextNoErr ==
    {Out(NoResp, "transport")}
    \cup {Out(Resp(c, "apiErr", "nil"), "nil") : c \in FailCodes}
    \cup UNION {BodyOutcomes(c) : c \in OkCodes}

(* RoleGetRequest.SendContext.                                            *)
GetSendContext ==
    {Out(NoResp, "transport")} \cup ErrorStatusOutcomes
    \cup UNION {BodyOutcomes(c) : c \in OkCodes}

(* RoleUpdateRequest.SendContext: marshalling the body may fail before   *)
(* anything is sent.                                                      *)
UpdateSendContext ==
    {Out(NoResp, "marshal"), Out(NoResp, "transport")} \cup ErrorStatusOutcomes
    \cup UNION {BodyOutcomes(c) : c \in OkCodes}

SendContext(m) ==
    IF m = "GET" THEN GetSendContext
    ELSE IF m = "PATCH" THEN UpdateSendContext
    ELSE DeleteSendContext

(* One direct Send of a request built by Get(), Update() or Delete().    *)
Send ==
    /\ phase = "idle"
    /\ sends < MaxSends
    /\ \E m \in Methods : \E o \in SendContext(m) :
             last' = [method |-> m, result |-> o.result, err |-> o.err]
    /\ sends' = sends + 1
    /\ UNCHANGED <<phase, statuses, preds, interval, deadline, polls, pollOut, panicked>>
-----------------------------------------------------------------------------
(* RoleClient.Poll: a poll request around a fresh Get request.           *)
Poll ==
    /\ phase = "idle"
    /\ phase' = "building"
    /\ statuses' = << >> /\ preds' = << >> /\ interval' = 0 /\ polls' = 0
    /\ UNCHANGED <<sends, last, deadline, pollOut, panicked>>

(* RolePollRequest.Status: one more accepted status.                      *)
Status ==
    /\ phase = "building"
    /\ Len(statuses) < MaxBuild
    /\ \E c \in Codes : statuses' = Append(statuses, c)
    /\ UNCHANGED <<phase, sends, last, preds, interval, deadline, polls, pollOut, panicked>>

(* RolePollRequest.Predicate: one more predicate on the Get response.    *)
Predicate ==
    /\ phase = "building"
    /\ Len(preds) < MaxBuild
    /\ \E p \in Predicates : preds' = Append(preds, p)
    /\ UNCHANGED <<phase, sends, last, statuses, interval, deadline, polls, pollOut, panicked>>

(* RolePollRequest.Interval.                                              *)
Interval ==
    /\ phase = "building"
    /\ interval = 0
    /\ \E i \in Intervals : interval' = i
    /\ UNCHANGED <<phase, sends, last, statuses, preds, deadline, polls, pollOut, panicked>>

(* StartContext wraps a non-nil result in a RolePollResponse and leaves  *)
(* the response nil otherwise.                                            *)
StartContextResult(result) == IF result.present THEN result ELSE NoResp

(* StartContext enters helpers.PollContext, which refuses a context      *)
(* without a deadline and an interval that is not greater than zero.     *)
StartContext ==
    /\ phase = "building"
    /\ \/ ~deadline /\ phase' = "returned" /\ pollOut' = Out(NoResp, "noDeadline")
       \/ deadline /\ interval <= 0
          /\ phase' = "returned" /\ pollOut' = Out(NoResp, "badInterval")
       \/ deadline /\ interval > 0 /\ phase' = "polling" /\ UNCHANGED pollOut
    /\ UNCHANGED <<sends, last, statuses, preds, interval, deadline, polls, panicked>>

(* task: the status of the Get response, or 0 when SendContext returned  *)
(* no response.                                                           *)
TaskStatus(result) == IF result.present THEN result.status ELSE 0

(* A response the loop accepts: its status is one given to Status and    *)
(* every predicate holds for it.                                          *)
Accepted(result) ==
    /\ \E i \in 1..Len(statuses) : statuses[i] = TaskStatus(result)
    /\ \A i \in 1..Len(preds) : result.body \in Accepts[preds[i]]

(* One iteration of the polling loop: task sends the Get request; an     *)
(* accepted response ends the loop, otherwise the loop sleeps for the    *)
(* interval, unless the deadline comes first.  What is returned on the   *)
(* deadline besides the error is left open.                               *)
PollStep ==
    /\ phase = "polling"
    /\ \E o \in GetSendContext :
          \/ Accepted(o.result) /\ phase' = "returned"
             /\ pollOut' = Out(StartContextResult(o.result), o.err) /\ UNCHANGED polls
          \/ ~Accepted(o.result) /\ polls + 1 < MaxPolls
             /\ polls' = polls + 1 /\ UNCHANGED <<phase, pollOut>>
          \/ ~Accepted(o.result) /\ polls + 1 >= MaxPolls
             /\ phase' = "returned" /\ UNCHANGED polls
             /\ \E r \in {NoResp, o.result} : pollOut' = Out(StartContextResult(r), "deadline")
    /\ UNCHANGED <<sends, last, statuses, preds, interval, deadline, panicked>>

(* The accessors of RolePollResponse: Status, Header and Error return a   *)
(* zero value on a nil response; Body and GetBody dereference it.          *)
NilSafeAccessors == {"Status", "Header", "Error"}
Accessors == NilSafeAccessors \cup {"Body", "GetBody"}

(* The caller reads the poll response through one accessor.              *)
Access ==
    /\ phase = "returned"
    /\ \E a \in Accessors :
          panicked' = (~pollOut.result.present /\ a \notin NilSafeAccessors)
    /\ phase' = "done"
    /\ UNCHANGED <<sends, last, statuses, preds, interval, deadline, polls, pollOut>>

Next ==
    \/ Send \/ Poll \/ Status \/ Predicate \/ Interval
    \/ StartContext \/ PollStep \/ Access

(* One goroutine runs the caller.                                       *)
Spec == Init /\ [][Next]_vars
-----------------------------------------------------------------------------
(* Every variable holds a value of its type.                             *)
TypeOK ==
    /\ phase \in {"idle", "building", "polling", "returned", "done"}
    /\ sends \in 0..MaxSends
    /\ last \in [method : Methods, result : Responses, err : Errors]
    /\ statuses \in Seq(Codes) /\ Len(statuses) <= MaxBuild
    /\ preds \in Seq(Predicates) /\ Len(preds) <= MaxBuild
    /\ interval \in Intervals \cup {0}
    /\ deadline \in BOOLEAN
    /\ polls \in 0..(MaxPolls - 1)
    /\ pollOut \in [result : Responses, err : Errors]
    /\ panicked \in BOOLEAN

(* The result/err contract of SendContext (part_000:240-272, 335-371,    *)
(* 483-525): a nil err comes with a response below 400, which for Get    *)
(* and Update carries a body; a status of 400 or more, or no response,   *)
(* always comes with an error.                                            *)
SendContract ==
    sends > 0 =>
        /\ last.err = "nil" =>
              /\ last.result.present /\ last.result.status < 400
              /\ last.method # "DELETE" => last.result.body # "nil"
        /\ (last.result.present /\ last.result.status >= 400) => last.err # "nil"
        /\ ~last.result.present => last.err # "nil"

-----------------------------------------------------------------------------
(* Properties stated by the spec or by the code's siblings that the code *)
(* does not keep.                                                         *)

(* Spec 6: the resource client returns a typed error for any 4xx/5xx     *)
(* response (errors.UnmarshalError at part_000:359 may fail).            *)
TypedErrorFor4xx ==
    (sends > 0 /\ last.result.present /\ last.result.status >= 400)
        => last.result.err # "nil"

(* Every accessor of a poll response is safe on the nil response that    *)
(* StartContext returns with an error, as those of RoleGetResponse are   *)
(* (part_000:190-200 dereference r.response without a nil check).       *)
PollAccessorsNilSafe == ~panicked
=============================================================================
