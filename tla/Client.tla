------------------------------ MODULE Client ------------------------------
(***************************************************************************)
(* RuntimeMacroClient and HidTransport of src/tools/runtime_macro_cli.py,  *)
(* over a connection that loses requests and answers, delays them past the *)
(* timeout, and is reset.  Every call of the client is a program of        *)
(* stages, every stage a sequence of exchanges retried in its own way.     *)
(* The device is what the protocol makes of one request after the other;   *)
(* of its slots there is one static and one dynamic.                       *)
(***************************************************************************)
EXTENDS Integers, Sequences

CONSTANTS
    Texts,         \* texts for a slot
    LongTexts,     \* those sent in two frames; the others take one
    Passwords,     \* passwords a user may type
    NoPassword,
    Attempts,      \* retries + 1
    IdSpace,       \* number of request identifiers: 256 in the code
    Depth,         \* bound on the requests, and on the answers, under way
    MaxCalls,      \* bound on the calls made
    MaxProcesses,  \* bound on the invocations of the tool
    MaxFaults,     \* bound on the lost answers, failed writes and resets
    Drained        \* a new invocation starts only when the old requests have been served

ASSUME ClientAssumption ==
    /\ LongTexts \subseteq Texts /\ NoPassword \notin Passwords
    /\ Attempts \in Nat \ {0} /\ Depth \in Nat \ {0} /\ MaxCalls \in Nat
    /\ IdSpace \in Nat /\ IdSpace > 2 * Depth
    /\ Drained \in BOOLEAN

VARIABLES
    host,      \* the call in progress, or the last one and how it ended
    nextId,    \* _next_request_id
    requests,  \* reports on their way to the device and in its queue
    answers,   \* reports on their way to the host and in its input queue
    device,    \* the state of the device
    calls, processes, faults  \* how many there have been

vars == <<host, nextId, requests, answers, device, calls, processes, faults>>

---------------------------------------------------------------------------
(* A call as a sequence of stages, and a stage as a sequence of opcodes. *)

Program ==
    [set |-> <<"set">>, get |-> <<"get">>, clear |-> <<"clear">>, lock |-> <<"lock">>,
     upload |-> <<"capabilities", "upload">>,
     clear_dynamic |-> <<"capabilities", "clear_dynamic">>, authenticate |-> <<"login">>,
     password |-> <<"info", "password", "confirm", "login">>]

Chunks(text) == [i \in 1..(IF text \in LongTexts THEN 2 ELSE 1) |-> text]

Opcodes(stage, data) ==
    CASE stage = "set" -> [i \in DOMAIN Chunks(data) |-> "SET"]
      [] stage = "upload" -> <<"DYNAMIC_BEGIN">> \o [i \in DOMAIN Chunks(data) |-> "DYNAMIC_DATA"]
      [] stage = "password" -> <<"PASSWORD_SET", "PASSWORD_SET">>
      [] stage = "login" -> <<"AUTH_INFO", "AUTH_CHALLENGE", "AUTH_PROVE">>
      [] stage \in {"info", "confirm"} -> <<"AUTH_INFO">>
      [] stage = "capabilities" -> <<"CAPABILITIES">>
      [] stage = "clear" -> <<"CLEAR">>
      [] stage = "clear_dynamic" -> <<"DYNAMIC_CLEAR">>
      [] stage = "lock" -> <<"LOCK">>
      [] stage = "get" -> <<"GET", "GET">>

\* Stages whose frames share one identifier, and start again when the device lost the context.
Transactions == {"set", "upload", "password"}

Nothing == [password |-> NoPassword, salt |-> 0]

NotCalled == [op |-> "none", data |-> NoPassword, stage |-> 1, attempt |-> 1, at |-> 1, id |-> 0,
              waiting |-> FALSE, salt |-> 0, nonce |-> <<>>, total |-> 0, got |-> <<>>,
              result |-> "none"]

Busy == host.op # "none" /\ host.result = "none"
Stage == Program[host.op][host.stage]
Frames == Opcodes(Stage, host.data)

---------------------------------------------------------------------------
(* zmk_runtime_macro_protocol_process, one request at a time. *)

Kind(op) == IF op \in {"DYNAMIC_BEGIN", "DYNAMIC_DATA"} THEN "DYNAMIC" ELSE op
Kinds == {"SET", "DYNAMIC", "PASSWORD_SET"}
NoTx == [id |-> 0, chunks |-> <<>>]

Init ==
    /\ host = NotCalled /\ nextId = 0
    /\ requests = <<>> /\ answers = <<>>
    /\ \E c \in {Nothing} \cup [password : Passwords, salt : {0}] :
          device = [slot |-> <<>>, dynamic |-> <<>>, credential |-> c, session |-> FALSE,
                    nonce |-> <<>>, tx |-> [k \in Kinds |-> NoTx]]
    /\ calls = 0 /\ processes = 1 /\ faults = 0

Allowed == device.credential = Nothing \/ device.session

Discarded == [device EXCEPT !.tx = [k \in Kinds |-> NoTx]]
LoggedOut == [Discarded EXCEPT !.session = FALSE, !.nonce = <<>>]

Outcome(d, status, value) == [device |-> d, status |-> status, value |-> value]

\* The transaction with this chunk; without chunks when it does not continue what is there.
Staged(f) ==
    LET t == device.tx[Kind(f.op)]
    IN  CASE f.number = 1 -> [id |-> f.id, chunks |-> <<f.data>>]
          [] f.number > 1 /\ t.id = f.id /\ Len(t.chunks) = f.number - 1 ->
               [t EXCEPT !.chunks = Append(@, f.data)]
          [] OTHER -> NoTx

Kept(f, t) == [device EXCEPT !.tx[Kind(f.op)] = t]

Committed(f) ==
    CASE f.op = "SET" -> [Kept(f, NoTx) EXCEPT !.slot = Staged(f).chunks]
      [] f.op = "DYNAMIC_DATA" -> [Kept(f, NoTx) EXCEPT !.dynamic = Tail(Staged(f).chunks)]
      [] f.op = "PASSWORD_SET" -> [LoggedOut EXCEPT !.credential = Staged(f).chunks[1]]

\* A static slot keeps in RAM what could not be saved; a credential does not.
NotSaved(f) ==
    CASE f.op = "SET" -> {Outcome(Committed(f), "STORAGE_ERROR", 0)}
      [] f.op = "PASSWORD_SET" -> {Outcome(Kept(f, NoTx), "STORAGE_ERROR", 0)}
      [] OTHER -> {}

ChunkOutcomes(f) ==
    LET n == Len(Staged(f).chunks)
    IN  CASE n = 0 -> {Outcome(Kept(f, NoTx), "BAD_REQUEST", 0)}
          [] n \in 1..f.total - 1 -> {Outcome(Kept(f, Staged(f)), "OK", n)}
          [] n = f.total -> {Outcome(Committed(f), "OK", n)} \cup NotSaved(f)

ProofOutcome(f) ==
    LET good == device.nonce # <<>> /\ f.data = [credential |-> device.credential,
                                                nonce |-> device.nonce]
    IN  Outcome([LoggedOut EXCEPT !.session = good], IF good THEN "OK" ELSE "AUTH_FAILED", 0)

ReadAt(n) == IF n \in DOMAIN device.slot THEN <<device.slot[n]>> ELSE <<>>

Outcomes(f) ==
    CASE f.op \in {"SET", "GET", "CLEAR", "PASSWORD_SET"} /\ ~Allowed ->
            {Outcome(Discarded, "AUTH_REQUIRED", 0)}
      [] f.op = "GET" /\ Allowed ->
            {Outcome(device, "OK", [total |-> Len(device.slot), chunk |-> ReadAt(f.number)])}
      [] f.op = "CLEAR" /\ Allowed ->
            {Outcome([device EXCEPT !.slot = <<>>], s, 0) : s \in {"OK", "STORAGE_ERROR"}}
      [] f.op \in {"SET", "PASSWORD_SET"} /\ Allowed -> ChunkOutcomes(f)
      [] f.op \in {"DYNAMIC_BEGIN", "DYNAMIC_DATA"} -> ChunkOutcomes(f)
      [] f.op = "DYNAMIC_CLEAR" ->
            {Outcome([device EXCEPT !.dynamic = <<>>, !.tx["DYNAMIC"] = NoTx], "OK", 0)}
      [] f.op = "CAPABILITIES" -> {Outcome(device, "OK", 0)}
      [] f.op = "LOCK" -> {Outcome(LoggedOut, "OK", 0)}
      [] f.op = "AUTH_INFO" ->
            {Outcome(device, "OK", [configured |-> device.credential # Nothing,
                                    authenticated |-> device.session,
                                    salt |-> device.credential.salt])}
      [] f.op = "AUTH_CHALLENGE" ->
            IF device.credential = Nothing THEN {Outcome(device, "AUTH_NOT_CONFIGURED", 0)}
            ELSE {Outcome([device EXCEPT !.nonce = f.from], "OK", f.from)}
      [] f.op = "AUTH_PROVE" -> {ProofOutcome(f)}

DeviceServes ==
    /\ requests # <<>> /\ Len(answers) < Depth
    /\ requests' = Tail(requests)
    /\ LET f == Head(requests)
       IN  \E o \in Outcomes(f) :
              /\ device' = o.device
              /\ \/ /\ answers' = Append(answers, [op |-> f.op, id |-> f.id, status |-> o.status,
                                                   value |-> o.value, from |-> f.from])
                    /\ UNCHANGED faults
                 \/ faults < MaxFaults /\ faults' = faults + 1 /\ UNCHANGED answers
    /\ UNCHANGED <<host, nextId, calls, processes>>

\* A bus reset: the queue and the session are gone, and perhaps the answers.
TransportReset ==
    /\ faults < MaxFaults
    /\ faults' = faults + 1
    /\ device' = LoggedOut
    /\ requests' = <<>>
    /\ answers' \in {answers, <<>>}
    /\ UNCHANGED <<host, nextId, calls, processes>>

SessionExpires ==
    /\ device.session
    /\ device' = LoggedOut
    /\ UNCHANGED <<host, nextId, requests, answers, calls, processes, faults>>

---------------------------------------------------------------------------
(* HidTransport.exchange and the retries around it. *)

\* Wrong variant of NextRequestId: the identifier does not move on.
OneRequestId == nextId

NextRequestId == (nextId + 1) % IdSpace

\* The call that is being made, the stage, the attempt and the frame: different for every request.
Position == <<calls, host.stage, host.attempt, host.at>>

NewCredential == [password |-> host.data, salt |-> calls]

Payload(op) ==
    CASE op = "PASSWORD_SET" -> NewCredential
      [] op = "AUTH_PROVE" -> [credential |-> [password |-> host.data, salt |-> host.salt],
                               nonce |-> host.nonce]
      [] OTHER -> host.data

Frame(id) ==
    [op |-> Frames[host.at], id |-> id, number |-> host.at, total |-> Len(Frames),
     data |-> Payload(Frames[host.at]), from |-> Position]

\* Wrong variant of Again: an attempt is not counted.
AgainForever(h) ==
    [h EXCEPT !.waiting = FALSE, !.at = IF Stage = "get" THEN @ ELSE 1]

Again(h) ==
    IF h.attempt = Attempts THEN [h EXCEPT !.waiting = FALSE, !.result = "failed"]
    ELSE [h EXCEPT !.waiting = FALSE, !.attempt = @ + 1,
                   !.at = IF Stage = "get" THEN @ ELSE 1]

Finished(h, result) == [h EXCEPT !.waiting = FALSE, !.result = result]

NextStage(h) ==
    IF h.stage = Len(Program[h.op]) THEN Finished(h, "ok")
    ELSE [h EXCEPT !.waiting = FALSE, !.stage = @ + 1, !.attempt = 1, !.at = 1]

\* Wrong variant of Unanswered: the final chunk of a password is not looked into.
GivesUp(h) ==
    IF Stage = "password" /\ h.at = Len(Frames) THEN Finished(h, "unconfirmed") ELSE Again(h)

\* Timeout or failed write.  The last chunk of a password is never sent again.
Unanswered(h) ==
    IF Stage = "password" /\ h.at = Len(Frames) THEN NextStage(h) ELSE Again(h)

Send ==
    /\ Busy /\ ~host.waiting
    /\ LET fresh == host.at = 1 \/ Stage \notin Transactions
           id == IF fresh THEN nextId ELSE host.id
           sending == [host EXCEPT !.id = id, !.waiting = TRUE]
           delivered == Len(requests) < Depth /\ requests' = Append(requests, Frame(id))
       IN  /\ nextId' = IF fresh THEN NextRequestId ELSE nextId
           /\ \/ delivered /\ host' = sending /\ UNCHANGED faults
              \/ /\ faults < MaxFaults /\ faults' = faults + 1
                 /\ delivered \/ UNCHANGED requests
                 /\ host' = Unanswered(sending)
              \/ /\ Len(requests) = Depth
                 /\ host' = Unanswered(sending)
                 /\ UNCHANGED <<requests, faults>>
    /\ UNCHANGED <<answers, device, calls, processes>>

Timeout ==
    /\ Busy /\ host.waiting
    /\ host' = Unanswered(host)
    /\ UNCHANGED <<nextId, requests, answers, device, calls, processes, faults>>

\* The slot is part of it: one opcode has always the same slot here.
Matches(a) == a.op = Frames[host.at] /\ a.id = host.id

\* What a good answer leaves in the caller's variables; some answers end the call.
Learned(a) ==
    CASE Stage = "info" /\ a.value.configured /\ ~a.value.authenticated -> Finished(host, "failed")
      [] Stage = "confirm" /\ a.value.salt # NewCredential.salt -> Finished(host, "unconfirmed")
      [] Stage = "login" /\ a.op = "AUTH_INFO" ->
            IF a.value.configured THEN [host EXCEPT !.salt = a.value.salt]
            ELSE Finished(host, "failed")
      [] a.op = "AUTH_CHALLENGE" -> [host EXCEPT !.nonce = a.value]
      [] a.op = "GET" ->
            IF host.at > 1 /\ a.value.total # host.total THEN Finished(host, "failed")
            ELSE [host EXCEPT !.total = a.value.total, !.got = @ \o a.value.chunk]
      [] Stage \in Transactions /\ a.value # host.at -> Finished(host, "failed")
      [] OTHER -> host

LastOfStage(h, a) == IF a.op = "GET" THEN Len(h.got) = h.total ELSE h.at = Len(Frames)

Progressed(a) ==
    LET h == Learned(a)
    IN  IF h.result # "none" THEN h
        ELSE IF LastOfStage(h, a) THEN NextStage(h)
        ELSE [h EXCEPT !.waiting = FALSE, !.at = @ + 1,
                       !.attempt = IF Stage = "get" THEN 1 ELSE @]

\* BAD_REQUEST starts only the frames of a transaction again.  (set_password would also try again
\* after one to its confirming AUTH_* requests; the device answers well-formed ones otherwise.)
Receive ==
    /\ Busy /\ host.waiting /\ answers # <<>>
    /\ answers' = Tail(answers)
    /\ LET a == Head(answers)
       IN  host' = CASE ~Matches(a) -> host
                     [] Matches(a) /\ a.status = "OK" -> Progressed(a)
                     [] Matches(a) /\ a.status = "BAD_REQUEST" /\ Stage \in Transactions ->
                            Again(host)
                     [] OTHER -> Finished(host, "failed")
    /\ UNCHANGED <<nextId, requests, device, calls, processes, faults>>

---------------------------------------------------------------------------
Call(op, data) ==
    /\ ~Busy
    /\ calls < MaxCalls
    /\ calls' = calls + 1
    /\ host' = [NotCalled EXCEPT !.op = op, !.data = data]
    /\ UNCHANGED <<nextId, requests, answers, device, processes, faults>>

Calls ==
    \/ \E op \in {"set", "upload"}, text \in Texts : Call(op, text)
    \/ \E op \in {"authenticate", "password"}, p \in Passwords : Call(op, p)
    \/ \E op \in {"get", "clear", "clear_dynamic", "lock"} : Call(op, NoPassword)

\* The tool is run again, the last invocation done or killed; opening the device anew forgets
\* the reports that had arrived.
NewProcess ==
    /\ processes < MaxProcesses
    /\ processes' = processes + 1
    /\ Drained => requests = <<>>
    /\ host' = NotCalled /\ nextId' = 0
    /\ answers' = <<>>
    /\ UNCHANGED <<requests, device, calls, faults>>

Next ==
    \/ Send \/ Receive \/ Timeout \/ Calls \/ NewProcess
    \/ DeviceServes \/ TransportReset \/ SessionExpires

Spec == Init /\ [][Next]_vars

\* A call runs on as long as it has something to send, to read or to wait for.
FairSpec == Spec /\ WF_vars(Send \/ Receive \/ Timeout)

---------------------------------------------------------------------------
\* A call that reports success is right, whatever was lost, late or repeated on the way: until
\* the next call the device holds the text, or nothing, or the credential that was asked for,
\* the text read is the slot's, and nothing an earlier attempt left on its way undoes it.
SuccessIsTrue ==
    host.result = "ok" =>
        CASE host.op = "set" -> device.slot = Chunks(host.data)
          [] host.op = "upload" -> device.dynamic = Chunks(host.data)
          [] host.op = "clear" -> device.slot = <<>>
          [] host.op = "clear_dynamic" -> device.dynamic = <<>>
          [] host.op = "get" -> device.slot = host.got
          [] host.op = "password" -> device.credential = NewCredential
          [] host.op = "authenticate" -> device.credential.password = host.data
          [] host.op = "lock" -> ~device.session

\* PasswordSetUnconfirmed means the password has not been replaced: the device does not have the
\* new credential, and no report under way will give it to the device any more.
UnconfirmedIsOld ==
    host.result = "unconfirmed" =>
        /\ device.credential # NewCredential
        /\ \A i \in DOMAIN requests : requests[i].op # "PASSWORD_SET"

\* Every call returns, or raises: no stream of stale answers and no run of refusals keeps it.
CallEnds == Busy ~> ~Busy

\* The identifier that is taken next is nobody's: no report that is still under way, in either
\* direction, has it.  (Identifiers come round after IdSpace requests.)
IdsAreFresh ==
    Busy /\ ~host.waiting /\ (host.at = 1 \/ Stage \notin Transactions) =>
        /\ \A i \in DOMAIN requests : requests[i].id # nextId
        /\ \A i \in DOMAIN answers : answers[i].id # nextId

\* "exchange waits for the matching response and discards stale requests" (docs/CLI.md): what it
\* would take next for an answer answers the report it has just written.
StaleDiscarded ==
    Busy /\ host.waiting /\ answers # <<>> =>
        (Matches(Head(answers)) => Head(answers).from = Position)

=============================================================================
