---------------------------- MODULE ClientProofs ----------------------------
(***************************************************************************)
(* Proofs, for any texts, passwords, attempts, depth and number of calls,  *)
(* of what the answers tell the client, as long as the request identifier  *)
(* it takes next is not one of a report that is still under way.           *)
(***************************************************************************)
EXTENDS Client, SequenceTheorems, TLAPS

IsSeq(s) == s \in Seq({s[i] : i \in DOMAIN s})

Ops == {"SET", "GET", "CLEAR", "LOCK", "PASSWORD_SET", "DYNAMIC_BEGIN", "DYNAMIC_DATA",
        "DYNAMIC_CLEAR", "CAPABILITIES", "AUTH_INFO", "AUTH_CHALLENGE", "AUTH_PROVE"}

\* The fields of a call and of the device; nothing is said of their types.
HostShape(h) ==
    h = [op |-> h.op, data |-> h.data, stage |-> h.stage, attempt |-> h.attempt, at |-> h.at,
         id |-> h.id, waiting |-> h.waiting, salt |-> h.salt, nonce |-> h.nonce,
         total |-> h.total, got |-> h.got, result |-> h.result]

DeviceShape(d) ==
    /\ d = [slot |-> d.slot, dynamic |-> d.dynamic, credential |-> d.credential,
            session |-> d.session, nonce |-> d.nonce, tx |-> d.tx]
    /\ d.tx = [k \in Kinds |-> [id |-> d.tx[k].id, chunks |-> d.tx[k].chunks]]
    /\ IsSeq(d.slot) /\ \A k \in Kinds : IsSeq(d.tx[k].chunks)

HostOK ==
    /\ HostShape(host)
    /\ host.op \in DOMAIN Program \cup {"none"}
    /\ host.result \in {"none", "ok", "failed", "unconfirmed"}
    /\ host.op # "none" => host.stage \in 1..Len(Program[host.op])
    /\ Busy => host.at \in 1..Len(Frames)
    /\ calls \in Nat

\* A credential is of the call that made it: a later one has another salt.
CredentialOK(c) ==
    /\ c.salt \in Nat /\ c.salt <= calls
    /\ host.op = "password" /\ c.salt = calls => c = NewCredential

DeviceOK(d) ==
    /\ DeviceShape(d)
    /\ Len(d.slot) <= 2
    /\ CredentialOK(d.credential)
    /\ \A i \in DOMAIN d.tx["PASSWORD_SET"].chunks : CredentialOK(d.tx["PASSWORD_SET"].chunks[i])

RequestOK(f) ==
    /\ f.op \in Ops /\ f.total \in 1..3 /\ f.number \in 1..f.total
    /\ f.op = "SET" => f.total <= 2
    /\ f.op = "DYNAMIC_BEGIN" => f.number = 1 /\ f.total > 1
    /\ f.op = "PASSWORD_SET" => CredentialOK(f.data)

RequestsOK ==
    /\ IsSeq(requests) /\ IsSeq(answers)
    /\ \A i \in DOMAIN requests : RequestOK(requests[i])

\* The identifier of the call is in use: for the request it waits for, or for the transaction.
InTransaction == Busy /\ Stage \in Transactions
Current == Busy /\ (host.waiting \/ (InTransaction /\ host.at > 1))

Copies(n) == [i \in 1..n |-> Payload(Frames[1])]
Staging == device.tx[Kind(Frames[1])]

\* What a good answer to the request the call waits for says of the device, also now.
Tells(a) ==
    a.status = "OK" =>
        /\ Stage \in Transactions /\ host.at < Len(Frames) =>
               (Staging.id = host.id /\ Len(Staging.chunks) = host.at =>
                    Staging.chunks = Copies(host.at))
        /\ Stage = "set" /\ host.at = Len(Frames) => device.slot = Chunks(host.data)
        /\ Stage = "upload" /\ host.at = Len(Frames) => device.dynamic = Chunks(host.data)
        /\ Stage = "get" => a.value = [total |-> Len(device.slot), chunk |-> ReadAt(host.at)]
        /\ Stage = "clear" => device.slot = <<>>
        /\ Stage = "clear_dynamic" => device.dynamic = <<>>
        /\ Stage = "lock" => ~device.session
        /\ Stage = "confirm" => a.value.salt = device.credential.salt
        /\ a.op = "AUTH_PROVE" => device.credential.password = host.data

\* A report with the identifier in use is the request the call waits for, the last one under way;
\* or the answer to it, and then no request is under way that could undo what it says.
MatchingRequest ==
    \A i \in DOMAIN requests : requests[i].id = host.id /\ Current =>
        host.waiting /\ i = Len(requests) /\ requests[i] = Frame(host.id)

MatchingAnswer ==
    \A i \in DOMAIN answers : answers[i].id = host.id /\ Current =>
        /\ host.waiting /\ i = Len(answers) /\ requests = <<>>
        /\ answers[i].op = Frames[host.at] /\ answers[i].from = Position
        /\ Tells(answers[i])

\* The device has of this transaction what has been confirmed, if it still has it.
Transferred ==
    InTransaction /\ host.at > 1 =>
        /\ \A i \in DOMAIN requests : requests[i].id = host.id
        /\ Staging.id = host.id /\ Len(Staging.chunks) = host.at - 1 =>
               Staging.chunks = Copies(host.at - 1)

\* What has been read is the slot's, and nothing under way changes the slot.
Reading ==
    Busy /\ Stage = "get" =>
        IF host.at = 1 THEN host.got = <<>>
        ELSE /\ \A i \in DOMAIN requests : requests[i].op = "GET"
             /\ Len(device.slot) = 2 /\ host.total = 2 /\ host.got = <<device.slot[1]>>

\* Once the salt has been seen to be the new one the device keeps the new credential.
Confirmed ==
    host.op = "password" /\ host.stage = 4 /\ host.result \in {"none", "ok"} =>
        /\ device.credential.salt = calls
        /\ \A i \in DOMAIN requests : requests[i].op # "PASSWORD_SET"

Ended ==
    /\ host.result = "ok" => requests = <<>> /\ SuccessIsTrue
    /\ host.result = "unconfirmed" =>
           requests = <<>> /\ host.op = "password" /\ device.credential.salt # calls
    /\ host.result # "none" => host.op # "none"

IInv ==
    /\ HostOK /\ DeviceOK(device) /\ RequestsOK
    /\ MatchingRequest /\ MatchingAnswer
    /\ Transferred /\ Reading /\ Confirmed /\ Ended

---------------------------------------------------------------------------
(* Sequences. *)

LEMMA IsSeqIntro ==
    ASSUME NEW S, NEW s \in Seq(S)
    PROVE  IsSeq(s)
BY DEF IsSeq

LEMMA IsSeqFacts ==
    ASSUME NEW s, IsSeq(s)
    PROVE  Len(s) \in Nat /\ DOMAIN s = 1..Len(s) /\ (s = <<>> <=> Len(s) = 0)
BY DEF IsSeq

LEMMA TailFacts ==
    ASSUME NEW s, IsSeq(s), s # <<>>
    PROVE  /\ IsSeq(Tail(s)) /\ Len(Tail(s)) = Len(s) - 1 /\ Len(s) > 0
           /\ Head(s) = s[1] /\ 1 \in DOMAIN s
           /\ \A i \in DOMAIN Tail(s) : i + 1 \in DOMAIN s /\ Tail(s)[i] = s[i + 1]
<1> DEFINE S == {s[i] : i \in DOMAIN s}
<1>1. s \in Seq(S)
  BY DEF IsSeq
<1> HIDE DEF S
<1>2. Tail(s) \in Seq(S) /\ Len(s) > 0 /\ Len(Tail(s)) = Len(s) - 1 /\ Head(s) = s[1]
  BY <1>1
<1>3. 1 \in DOMAIN s /\ \A i \in DOMAIN Tail(s) : i + 1 \in DOMAIN s /\ Tail(s)[i] = s[i + 1]
  BY <1>1, <1>2
<1> QED BY <1>2, <1>3, IsSeqIntro

LEMMA AppendFacts ==
    ASSUME NEW s, IsSeq(s), NEW e
    PROVE  /\ IsSeq(Append(s, e)) /\ Len(Append(s, e)) = Len(s) + 1
           /\ DOMAIN Append(s, e) = 1..Len(s) + 1 /\ DOMAIN s = 1..Len(s) /\ Len(s) \in Nat
           /\ \A i \in DOMAIN s : Append(s, e)[i] = s[i]
           /\ Append(s, e)[Len(s) + 1] = e
<1> DEFINE T == {s[i] : i \in DOMAIN s} \cup {e}
<1>1. s \in Seq(T)
  BY DEF IsSeq
<1>2. e \in T
  OBVIOUS
<1>3. Append(s, e) \in Seq(T)
  BY <1>1, <1>2
<1>4. IsSeq(Append(s, e))
  BY <1>3, IsSeqIntro
<1> HIDE DEF T
<1> QED BY <1>1, <1>2, <1>4

LEMMA EmptyFacts ==
    IsSeq(<<>>) /\ Len(<<>>) = 0 /\ DOMAIN <<>> = {}
BY DEF IsSeq

LEMMA SingleFacts ==
    ASSUME NEW e
    PROVE  IsSeq(<<e>>) /\ Len(<<e>>) = 1 /\ DOMAIN <<e>> = {1} /\ <<e>>[1] = e
<1>1. <<e>> \in Seq({e})
  OBVIOUS
<1>2. IsSeq(<<e>>)
  BY <1>1, IsSeqIntro
<1>3. Len(<<e>>) = 1 /\ <<e>>[1] = e
  OBVIOUS
<1>4. DOMAIN <<e>> = {1}
  BY <1>1, <1>3
<1> QED BY <1>2, <1>3, <1>4

LEMMA ConcatFacts ==
    ASSUME NEW x, NEW y
    PROVE  <<>> \o <<x>> = <<x>> /\ <<>> \o <<>> = <<>> /\ <<x>> \o <<y>> = <<x, y>>
<1>1. <<x>> \in Seq({x, y}) /\ <<y>> \in Seq({x, y}) /\ <<>> \in Seq({x, y})
  OBVIOUS
<1>2. <<>> \o <<x>> = <<x>> /\ <<>> \o <<>> = <<>>
  BY <1>1, ConcatEmptySeq
<1>3. /\ Len(<<x>>) = 1 /\ Len(<<y>>) = 1 /\ Len(<<x, y>>) = 2
      /\ <<x>>[1] = x /\ <<y>>[1] = y /\ <<x, y>>[1] = x /\ <<x, y>>[2] = y
  OBVIOUS
<1>4. /\ <<x>> \o <<y>> \in Seq({x, y}) /\ Len(<<x>> \o <<y>>) = 2
      /\ (<<x>> \o <<y>>)[1] = x /\ (<<x>> \o <<y>>)[2] = y
  BY <1>1, <1>3, ConcatProperties
<1>5. <<x, y>> \in Seq({x, y})
  OBVIOUS
<1>6. <<x>> \o <<y>> = <<x, y>>
  <2> DEFINE s == <<x>> \o <<y>>
             t == <<x, y>>
  <2>1. \A i \in 1..2 : s[i] = t[i]
    BY <1>3, <1>4
  <2>2. s \in Seq({x, y}) /\ t \in Seq({x, y}) /\ Len(s) = 2 /\ Len(t) = 2
    BY <1>3, <1>4, <1>5
  <2> HIDE DEF s, t
  <2>3. s = t
    BY <2>1, <2>2, SeqEqual
  <2> QED BY <2>3 DEF s, t
<1> QED BY <1>2, <1>6

LEMMA SeqOfTwo ==
    ASSUME NEW s, IsSeq(s)
    PROVE  /\ Len(s) = 1 => s = <<s[1]>>
           /\ Len(s) = 2 => s = <<s[1], s[2]>>
<1> DEFINE S == {s[i] : i \in DOMAIN s}
<1>1. s \in Seq(S)
  BY DEF IsSeq
<1> HIDE DEF S
<1> QED BY <1>1

---------------------------------------------------------------------------
(* The stages of a call and their frames. *)

Simple == {"set", "get", "clear", "lock"}
Dynamic == {"upload", "clear_dynamic"}
AllStages == Simple \cup Dynamic \cup {"capabilities", "login", "info", "password", "confirm"}

LEMMA StageTable ==
    ASSUME HostOK, host.op # "none"
    PROVE  /\ host.op \in Simple \cup Dynamic \cup {"authenticate", "password"}
           /\ host.op \in Simple =>
                  host.stage = 1 /\ Stage = host.op /\ Len(Program[host.op]) = 1
           /\ host.op \in Dynamic =>
                  /\ Len(Program[host.op]) = 2 /\ host.stage \in 1..2
                  /\ host.stage = 1 => Stage = "capabilities"
                  /\ host.stage = 2 => Stage = host.op
           /\ host.op = "authenticate" =>
                  host.stage = 1 /\ Stage = "login" /\ Len(Program[host.op]) = 1
           /\ host.op = "password" =>
                  /\ Len(Program[host.op]) = 4 /\ host.stage \in 1..4
                  /\ host.stage = 1 => Stage = "info"
                  /\ host.stage = 2 => Stage = "password"
                  /\ host.stage = 3 => Stage = "confirm"
                  /\ host.stage = 4 => Stage = "login"
           /\ Stage \in AllStages
<1>1. host.op \in Simple \cup Dynamic \cup {"authenticate", "password"}
  BY DEF HostOK, Program, Simple, Dynamic
<1>2. host.stage \in 1..Len(Program[host.op])
  BY DEF HostOK
<1>3. CASE host.op \in Simple
  <2>1. Program[host.op] = <<host.op>>
    BY <1>3 DEF Program, Simple
  <2> QED BY <1>1, <1>2, <1>3, <2>1 DEF Stage, Simple, Dynamic, AllStages
<1>4. CASE host.op \in Dynamic
  <2>1. Program[host.op] = <<"capabilities", host.op>>
    BY <1>4 DEF Program, Dynamic
  <2> QED BY <1>1, <1>2, <1>4, <2>1 DEF Stage, Simple, Dynamic, AllStages
<1>5. CASE host.op = "authenticate"
  <2>1. Program[host.op] = <<"login">>
    BY <1>5 DEF Program
  <2> QED BY <1>1, <1>2, <1>5, <2>1 DEF Stage, Simple, Dynamic, AllStages
<1>6. CASE host.op = "password"
  <2>1. Program[host.op] = <<"info", "password", "confirm", "login">>
    BY <1>6 DEF Program
  <2> QED BY <1>1, <1>2, <1>6, <2>1 DEF Stage, Simple, Dynamic, AllStages
<1> QED BY <1>1, <1>3, <1>4, <1>5, <1>6

LEMMA ChunksFacts ==
    ASSUME NEW text
    PROVE  /\ Len(Chunks(text)) \in 1..2 /\ DOMAIN Chunks(text) = 1..Len(Chunks(text))
           /\ \A i \in DOMAIN Chunks(text) : Chunks(text)[i] = text
           /\ IsSeq(Chunks(text))
<1> DEFINE n == IF text \in LongTexts THEN 2 ELSE 1
<1>1. n \in 1..2
  OBVIOUS
<1>2. Chunks(text) = [i \in 1..n |-> text]
  BY DEF Chunks
<1> HIDE DEF n
<1>3. Chunks(text) \in Seq({text}) /\ Len(Chunks(text)) = n
  BY <1>1, <1>2
<1>4. IsSeq(Chunks(text))
  BY <1>3, IsSeqIntro
<1> QED BY <1>1, <1>2, <1>3, <1>4

LEMMA ChunksAre ==
    ASSUME NEW text
    PROVE  /\ Chunks(text) = [i \in 1..Len(Chunks(text)) |-> text]
           /\ Tail([i \in 1..Len(Chunks(text)) + 1 |-> text]) = Chunks(text)
<1> DEFINE n == IF text \in LongTexts THEN 2 ELSE 1
<1>1. n \in 1..2
  OBVIOUS
<1>2. Chunks(text) = [i \in 1..n |-> text]
  BY DEF Chunks
<1> HIDE DEF n
<1>3. Len(Chunks(text)) = n
  BY <1>1, <1>2
<1> DEFINE u == [i \in 1..n |-> text]
           s == [i \in 1..n + 1 |-> text]
           t == Tail(s)
<1>4. u \in Seq({text}) /\ Len(u) = n
  BY <1>1
<1>5. s \in Seq({text}) /\ Len(s) = n + 1
  BY <1>1
<1> HIDE DEF s
<1>6. t \in Seq({text}) /\ Len(t) = n
  BY <1>1, <1>5
<1> HIDE DEF t, u
<1>7. \A i \in 1..n : t[i] \in {text} /\ u[i] \in {text}
  BY <1>4, <1>6
<1>8. t = u
  BY <1>4, <1>6, <1>7, SeqEqual
<1> QED BY <1>2, <1>3, <1>8 DEF t, u, s

LEMMA OpcodesFacts ==
    ASSUME NEW stage \in AllStages, NEW data, NEW F, F = Opcodes(stage, data)
    PROVE  /\ IsSeq(F) /\ Len(F) \in 1..3 /\ DOMAIN F = 1..Len(F)
           /\ \A i \in DOMAIN F : F[i] \in Ops
           /\ stage = "set" =>
                  Len(F) = Len(Chunks(data)) /\ \A i \in DOMAIN F : F[i] = "SET"
           /\ stage = "upload" =>
                  /\ Len(F) = Len(Chunks(data)) + 1 /\ F[1] = "DYNAMIC_BEGIN"
                  /\ \A i \in 2..Len(F) : F[i] = "DYNAMIC_DATA"
           /\ stage = "password" => F = <<"PASSWORD_SET", "PASSWORD_SET">>
           /\ stage = "login" => F = <<"AUTH_INFO", "AUTH_CHALLENGE", "AUTH_PROVE">>
           /\ stage \in {"info", "confirm"} => F = <<"AUTH_INFO">>
           /\ stage = "capabilities" => F = <<"CAPABILITIES">>
           /\ stage = "clear" => F = <<"CLEAR">>
           /\ stage = "clear_dynamic" => F = <<"DYNAMIC_CLEAR">>
           /\ stage = "lock" => F = <<"LOCK">>
           /\ stage = "get" => F = <<"GET", "GET">>
<1>1. CASE stage = "set"
  <2>1. F = [i \in DOMAIN Chunks(data) |-> "SET"]
    BY <1>1 DEF Opcodes
  <2>2. F \in Seq({"SET"}) /\ Len(F) = Len(Chunks(data))
    BY <2>1, ChunksFacts
  <2> QED BY <1>1, <2>1, <2>2, ChunksFacts, IsSeqIntro DEF Ops
<1>2. CASE stage = "upload"
  <2> DEFINE D == [i \in DOMAIN Chunks(data) |-> "DYNAMIC_DATA"]
  <2>1. F = <<"DYNAMIC_BEGIN">> \o D
    BY <1>2 DEF Opcodes
  <2>2. Len(Chunks(data)) \in 1..2 /\ DOMAIN Chunks(data) = 1..Len(Chunks(data))
    BY ChunksFacts
  <2>3. /\ D \in Seq({"DYNAMIC_BEGIN", "DYNAMIC_DATA"}) /\ Len(D) = Len(Chunks(data))
        /\ \A i \in 1..Len(D) : D[i] = "DYNAMIC_DATA"
    BY <2>2
  <2> HIDE DEF D
  <2>4. F \in Seq({"DYNAMIC_BEGIN", "DYNAMIC_DATA"}) /\ Len(F) = Len(Chunks(data)) + 1
    BY <2>1, <2>2, <2>3
  <2>5. F[1] = "DYNAMIC_BEGIN" /\ \A i \in 2..Len(F) : F[i] = D[i - 1]
    BY <2>1, <2>2, <2>3, <2>4
  <2>6. \A i \in 2..Len(F) : F[i] = "DYNAMIC_DATA"
    BY <2>2, <2>3, <2>4, <2>5
  <2>7. IsSeq(F)
    BY <2>4, IsSeqIntro
  <2>8. DOMAIN F = 1..Len(F) /\ Len(F) \in 1..3
    <3>1. DOMAIN F = 1..Len(F)
      BY <2>7, IsSeqFacts
    <3>2. \A n \in 1..2 : n + 1 \in 1..3
      OBVIOUS
    <3>3. Len(F) = Len(Chunks(data)) + 1 /\ Len(Chunks(data)) \in 1..2
      BY <2>2, <2>4
    <3> QED BY <3>1, <3>2, <3>3
  <2>9. \A i \in DOMAIN F : F[i] \in Ops
    BY <2>4, <2>8 DEF Ops
  <2> QED BY <1>2, <2>4, <2>5, <2>6, <2>7, <2>8, <2>9
<1>3. CASE stage \notin {"set", "upload"}
  <2>1. \/ stage = "password" /\ F = <<"PASSWORD_SET", "PASSWORD_SET">>
        \/ stage = "login" /\ F = <<"AUTH_INFO", "AUTH_CHALLENGE", "AUTH_PROVE">>
        \/ stage \in {"info", "confirm"} /\ F = <<"AUTH_INFO">>
        \/ stage = "capabilities" /\ F = <<"CAPABILITIES">>
        \/ stage = "clear" /\ F = <<"CLEAR">>
        \/ stage = "clear_dynamic" /\ F = <<"DYNAMIC_CLEAR">>
        \/ stage = "lock" /\ F = <<"LOCK">>
        \/ stage = "get" /\ F = <<"GET", "GET">>
    BY <1>3 DEF Opcodes, AllStages, Simple, Dynamic
  <2>2. \/ \E a \in Ops : F = <<a>>
        \/ \E a, b \in Ops : F = <<a, b>>
        \/ \E a, b, c \in Ops : F = <<a, b, c>>
    BY <2>1 DEF Ops
  <2>3. F \in Seq(Ops) /\ Len(F) \in 1..3
    <3>1. ASSUME NEW a \in Ops, F = <<a>>
          PROVE  F \in Seq(Ops) /\ Len(F) \in 1..3
      BY <3>1
    <3>2. ASSUME NEW a \in Ops, NEW b \in Ops, F = <<a, b>>
          PROVE  F \in Seq(Ops) /\ Len(F) \in 1..3
      BY <3>2
    <3>3. ASSUME NEW a \in Ops, NEW b \in Ops, NEW c \in Ops, F = <<a, b, c>>
          PROVE  F \in Seq(Ops) /\ Len(F) \in 1..3
      BY <3>3
    <3> QED BY <2>2, <3>1, <3>2, <3>3
  <2>4. IsSeq(F)
    BY <2>3, IsSeqIntro
  <2> QED BY <1>3, <2>1, <2>3, <2>4
<1> QED BY <1>1, <1>2, <1>3

LEMMA FramesFacts ==
    ASSUME HostOK, Busy
    PROVE  /\ IsSeq(Frames) /\ Len(Frames) \in 1..3 /\ DOMAIN Frames = 1..Len(Frames)
           /\ host.at \in 1..Len(Frames) /\ Frames[host.at] \in Ops
           /\ Stage \in AllStages /\ host.op # "none"
           /\ Stage = "set" =>
                  /\ Len(Frames) = Len(Chunks(host.data)) /\ Len(Frames) <= 2
                  /\ Frames[1] = "SET" /\ Frames[host.at] = "SET"
           /\ Stage = "upload" =>
                  /\ Len(Frames) = Len(Chunks(host.data)) + 1 /\ Len(Frames) \in 2..3
                  /\ Frames[1] = "DYNAMIC_BEGIN"
                  /\ host.at > 1 => Frames[host.at] = "DYNAMIC_DATA"
           /\ Stage = "password" =>
                  /\ Len(Frames) = 2 /\ Frames[1] = "PASSWORD_SET"
                  /\ Frames[host.at] = "PASSWORD_SET"
           /\ Stage = "login" =>
                  /\ Len(Frames) = 3
                  /\ host.at = 1 => Frames[host.at] = "AUTH_INFO"
                  /\ host.at = 2 => Frames[host.at] = "AUTH_CHALLENGE"
                  /\ host.at = 3 => Frames[host.at] = "AUTH_PROVE"
           /\ Stage \in {"info", "confirm"} => Len(Frames) = 1 /\ Frames[host.at] = "AUTH_INFO"
           /\ Stage = "capabilities" => Len(Frames) = 1 /\ Frames[host.at] = "CAPABILITIES"
           /\ Stage = "clear" => Len(Frames) = 1 /\ Frames[host.at] = "CLEAR"
           /\ Stage = "clear_dynamic" => Len(Frames) = 1 /\ Frames[host.at] = "DYNAMIC_CLEAR"
           /\ Stage = "lock" => Len(Frames) = 1 /\ Frames[host.at] = "LOCK"
           /\ Stage = "get" => Len(Frames) = 2 /\ Frames[host.at] = "GET"
<1>1. host.op # "none" /\ Stage \in AllStages
  BY StageTable DEF Busy
<1>2. Frames = Opcodes(Stage, host.data) /\ host.at \in 1..Len(Frames)
  BY DEF Frames, HostOK
<1>3. /\ IsSeq(Frames) /\ Len(Frames) \in 1..3 /\ DOMAIN Frames = 1..Len(Frames)
      /\ \A i \in DOMAIN Frames : Frames[i] \in Ops
  BY <1>1, <1>2, OpcodesFacts
<1>4. host.at \in DOMAIN Frames /\ 1 \in DOMAIN Frames /\ Frames[host.at] \in Ops
  BY <1>2, <1>3
<1>5. CASE Stage = "set"
  <2>1. Len(Frames) = Len(Chunks(host.data)) /\ \A i \in DOMAIN Frames : Frames[i] = "SET"
    BY <1>1, <1>2, <1>5, OpcodesFacts
  <2>2. Len(Chunks(host.data)) \in 1..2
    BY ChunksFacts
  <2> QED BY <1>1, <1>2, <1>3, <1>4, <1>5, <2>1, <2>2
<1>6. CASE Stage = "upload"
  <2>1. /\ Len(Frames) = Len(Chunks(host.data)) + 1 /\ Frames[1] = "DYNAMIC_BEGIN"
        /\ \A i \in 2..Len(Frames) : Frames[i] = "DYNAMIC_DATA"
    BY <1>1, <1>2, <1>6, OpcodesFacts
  <2>2. Len(Chunks(host.data)) \in 1..2
    BY ChunksFacts
  <2> QED BY <1>1, <1>2, <1>3, <1>4, <1>6, <2>1, <2>2
<1>7. CASE Stage = "password"
  <2>1. Frames = <<"PASSWORD_SET", "PASSWORD_SET">>
    BY <1>1, <1>2, <1>7, OpcodesFacts
  <2> QED BY <1>1, <1>2, <1>3, <1>4, <1>7, <2>1
<1>8. CASE Stage = "get"
  <2>1. Frames = <<"GET", "GET">>
    BY <1>1, <1>2, <1>8, OpcodesFacts
  <2> QED BY <1>1, <1>2, <1>3, <1>4, <1>8, <2>1
<1>9. CASE Stage = "login"
  <2>1. Frames = <<"AUTH_INFO", "AUTH_CHALLENGE", "AUTH_PROVE">>
    BY <1>1, <1>2, <1>9, OpcodesFacts
  <2> QED BY <1>1, <1>2, <1>3, <1>4, <1>9, <2>1
<1>10. CASE Stage \in {"info", "confirm", "capabilities", "clear", "clear_dynamic", "lock"}
  <2>1. Len(Frames) = 1
    BY <1>1, <1>2, <1>10, OpcodesFacts
  <2>2. host.at = 1
    BY <1>2, <2>1
  <2>3. /\ Stage \in {"info", "confirm"} => Frames[1] = "AUTH_INFO"
        /\ Stage = "capabilities" => Frames[1] = "CAPABILITIES"
        /\ Stage = "clear" => Frames[1] = "CLEAR"
        /\ Stage = "clear_dynamic" => Frames[1] = "DYNAMIC_CLEAR"
        /\ Stage = "lock" => Frames[1] = "LOCK"
    BY <1>1, <1>2, OpcodesFacts
  <2> QED BY <1>1, <1>2, <1>3, <1>4, <1>10, <2>1, <2>2, <2>3
<1> QED BY <1>1, <1>5, <1>6, <1>7, <1>8, <1>9, <1>10 DEF AllStages, Simple, Dynamic

LEMMA FrameFacts ==
    ASSUME HostOK, Busy, NEW id
    PROVE  /\ Frame(id).op = Frames[host.at] /\ Frame(id).id = id
           /\ Frame(id).number = host.at /\ Frame(id).total = Len(Frames)
           /\ Frame(id).data = Payload(Frames[host.at]) /\ Frame(id).from = Position
           /\ RequestOK(Frame(id))
           /\ Frame(id).op = "GET" <=> Stage = "get"
           /\ Frame(id).op = "SET" <=> Stage = "set"
           /\ Frame(id).op = "PASSWORD_SET" <=> Stage = "password"
<1>1. /\ Frame(id).op = Frames[host.at] /\ Frame(id).id = id
      /\ Frame(id).number = host.at /\ Frame(id).total = Len(Frames)
      /\ Frame(id).data = Payload(Frames[host.at]) /\ Frame(id).from = Position
  BY DEF Frame
<1>2. /\ Frames[host.at] = "GET" <=> Stage = "get"
      /\ Frames[host.at] = "SET" <=> Stage = "set"
      /\ Frames[host.at] = "PASSWORD_SET" <=> Stage = "password"
  <2>1. Stage \in AllStages
    BY FramesFacts
  <2>2. CASE Stage = "login"
    BY <2>2, FramesFacts
  <2>3. CASE Stage = "upload"
    BY <2>3, FramesFacts
  <2>4. CASE Stage \notin {"login", "upload"}
    BY <2>1, <2>4, FramesFacts DEF AllStages, Simple, Dynamic
  <2> QED BY <2>2, <2>3, <2>4
<1>3. CredentialOK(NewCredential)
  BY DEF CredentialOK, NewCredential, HostOK
<1>4. Frames[host.at] = "PASSWORD_SET" => Payload(Frames[host.at]) = NewCredential
  BY DEF Payload
<1>5. Frames[host.at] = "DYNAMIC_BEGIN" => host.at = 1 /\ Len(Frames) > 1
  <2>1. Stage \in AllStages
    BY FramesFacts
  <2>2. CASE Stage = "login"
    BY <2>2, FramesFacts
  <2>3. CASE Stage = "upload"
    <3>1. Len(Frames) \in 2..3 /\ host.at \in 1..Len(Frames)
          /\ (host.at > 1 => Frames[host.at] = "DYNAMIC_DATA")
      BY <2>3, FramesFacts
    <3> QED BY <3>1
  <2>4. CASE Stage \notin {"login", "upload"}
    BY <2>1, <2>4, FramesFacts DEF AllStages, Simple, Dynamic
  <2> QED BY <2>2, <2>3, <2>4
<1>6. RequestOK(Frame(id))
  <2>1. Frames[host.at] \in Ops /\ Len(Frames) \in 1..3 /\ host.at \in 1..Len(Frames)
        /\ (Stage = "set" => Len(Frames) <= 2)
    BY FramesFacts
  <2> QED BY <1>1, <1>2, <1>3, <1>4, <1>5, <2>1 DEF RequestOK
<1> QED BY <1>1, <1>2, <1>6

---------------------------------------------------------------------------
(* What becomes of a call. *)

LEMMA AgainFacts ==
    ASSUME NEW h, HostShape(h), h.result = "none", NEW a, a = Again(h)
    PROVE  /\ HostShape(a) /\ ~a.waiting /\ a.op = h.op /\ a.data = h.data
           /\ a.stage = h.stage /\ a.got = h.got /\ a.total = h.total
           /\ a.result \in {"none", "failed"}
           /\ a.result = "none" =>
                  /\ a.at = IF Stage = "get" THEN h.at ELSE 1
                  /\ h.attempt # Attempts /\ a.attempt = h.attempt + 1
BY DEF HostShape, Again

LEMMA FinishedFacts ==
    ASSUME NEW h, HostShape(h), NEW result, NEW a, a = Finished(h, result)
    PROVE  /\ HostShape(a) /\ ~a.waiting /\ a.op = h.op /\ a.data = h.data
           /\ a.stage = h.stage /\ a.got = h.got /\ a.total = h.total
           /\ a.result = result
BY DEF HostShape, Finished

LEMMA NextStageFacts ==
    ASSUME NEW h, HostShape(h), h.result = "none", NEW a, a = NextStage(h)
    PROVE  /\ HostShape(a) /\ ~a.waiting /\ a.op = h.op /\ a.data = h.data
           /\ a.got = h.got /\ a.total = h.total
           /\ IF h.stage = Len(Program[h.op]) THEN a.stage = h.stage /\ a.result = "ok"
              ELSE /\ a.stage = h.stage + 1 /\ a.at = 1 /\ a.result = "none"
                   /\ a.attempt = 1
BY DEF HostShape, NextStage, Finished

---------------------------------------------------------------------------
(* The invariant, by what becomes of the call in a step of the client. *)

SameCall ==
    /\ host'.op = host.op /\ host'.data = host.data /\ calls' = calls
    /\ HostShape(host')
    /\ device' = device /\ IsSeq(answers')

\* Nothing is sent, or one frame of the stage.
Sent == requests' = requests \/ \E id : requests' = Append(requests, Frame(id))

LEMMA SameCallFacts ==
    ASSUME host'.op = host.op, host'.data = host.data, calls' = calls
    PROVE  /\ NewCredential' = NewCredential
           /\ \A c : CredentialOK(c)' <=> CredentialOK(c)
           /\ \A f : RequestOK(f)' <=> RequestOK(f)
           /\ \A d : DeviceOK(d)' <=> DeviceOK(d)
<1>1. NewCredential' = NewCredential
  BY DEF NewCredential
<1>2. \A c : CredentialOK(c)' <=> CredentialOK(c)
  BY <1>1 DEF CredentialOK
<1>3. \A f : RequestOK(f)' <=> RequestOK(f)
  BY <1>2 DEF RequestOK
<1>4. \A d : DeviceOK(d)' <=> DeviceOK(d)
  BY <1>2 DEF DeviceOK
<1> QED BY <1>1, <1>2, <1>3, <1>4

LEMMA SentFacts ==
    ASSUME HostOK, Busy, RequestsOK, Sent
    PROVE  /\ IsSeq(requests')
           /\ \A i \in DOMAIN requests' : RequestOK(requests'[i])
           /\ \A i \in DOMAIN requests' :
                  \/ i \in DOMAIN requests /\ requests'[i] = requests[i]
                  \/ \E id : requests'[i] = Frame(id)
<1>1. CASE requests' = requests
  BY <1>1 DEF RequestsOK
<1>2. ASSUME NEW id, requests' = Append(requests, Frame(id))
      PROVE  /\ IsSeq(requests')
             /\ \A i \in DOMAIN requests' : RequestOK(requests'[i])
             /\ \A i \in DOMAIN requests' :
                    \/ i \in DOMAIN requests /\ requests'[i] = requests[i]
                    \/ \E n : requests'[i] = Frame(n)
  <2>1. RequestOK(Frame(id))
    BY FrameFacts
  <2> QED BY <1>2, <2>1, AppendFacts DEF RequestsOK
<1> QED BY <1>1, <1>2 DEF Sent

LEMMA RequestsKept ==
    ASSUME HostOK, Busy, RequestsOK, Sent, SameCall
    PROVE  RequestsOK'
BY SentFacts, SameCallFacts DEF RequestsOK, SameCall

LEMMA SameStageFacts ==
    ASSUME host'.op = host.op, host'.data = host.data, host'.stage = host.stage
    PROVE  Stage' = Stage /\ Frames' = Frames
<1>1. Stage' = Stage
  BY DEF Stage
<1> QED BY <1>1 DEF Frames

\* The attempt is over, or the call has failed.
LEMMA Released ==
    ASSUME IInv, Busy, SameCall, Sent,
           host'.stage = host.stage, host'.got = host.got, host'.total = host.total,
           ~host'.waiting, host'.result \in {"none", "failed"},
           host'.result = "none" => host'.at = IF Stage = "get" THEN host.at ELSE 1
    PROVE  IInv'
<1>1. Stage' = Stage /\ Frames' = Frames
  BY SameStageFacts DEF SameCall
<1>2. DeviceOK(device)' /\ RequestsOK'
  BY SameCallFacts, RequestsKept DEF SameCall, IInv
<1>3. HostOK'
  <2>1. host.at \in 1..Len(Frames) /\ 1 \in 1..Len(Frames)
    <3>1. host.at \in 1..Len(Frames) /\ Len(Frames) \in 1..3
      BY FramesFacts DEF IInv
    <3> QED BY <3>1
  <2>2. Busy' => host'.at \in 1..Len(Frames)
    BY <2>1 DEF Busy
  <2> QED BY <1>1, <2>2 DEF IInv, HostOK, SameCall
<1>4. ~Current'
  <2>1. "get" \notin Transactions
    BY DEF Transactions
  <2> QED BY <1>1, <2>1 DEF Current, InTransaction, Busy
<1>5. MatchingRequest' /\ MatchingAnswer' /\ Transferred'
  <2>1. MatchingRequest'
    BY <1>4 DEF MatchingRequest
  <2>2. MatchingAnswer'
    BY <1>4 DEF MatchingAnswer
  <2>3. Transferred'
    BY <1>4 DEF Transferred, Current, InTransaction
  <2> QED BY <2>1, <2>2, <2>3
<1>6. Reading'
  <2> SUFFICES ASSUME Busy', Stage = "get" PROVE Reading'
    BY <1>1 DEF Reading
  <2>1. host'.at = host.at
    BY DEF Busy
  <2>2. \A id : Frame(id).op = "GET"
    BY FrameFacts DEF IInv
  <2>3. Reading
    BY DEF IInv
  <2>4. CASE host.at = 1
    BY <1>1, <2>1, <2>3, <2>4 DEF Reading
  <2>5. CASE host.at # 1
    <3>1. \A i \in DOMAIN requests' : requests'[i].op = "GET"
      BY <2>2, <2>3, <2>5, SentFacts DEF Reading, IInv
    <3> QED BY <1>1, <2>1, <2>3, <2>5, <3>1 DEF Reading, SameCall
  <2> QED BY <2>4, <2>5
<1>7. Confirmed'
  <2> SUFFICES ASSUME host.op = "password", host.stage = 4 PROVE Confirmed'
    BY DEF Confirmed, SameCall
  <2>1. Stage = "login"
    BY StageTable DEF IInv
  <2>2. \A id : Frame(id).op # "PASSWORD_SET"
    BY <2>1, FrameFacts DEF IInv
  <2>3. Confirmed
    BY DEF IInv
  <2>4. \A i \in DOMAIN requests' : requests'[i].op # "PASSWORD_SET"
    BY <2>2, <2>3, SentFacts DEF Confirmed, IInv, Busy
  <2> QED BY <2>3, <2>4 DEF Confirmed, SameCall, Busy
<1>8. Ended'
  BY DEF Ended, SameCall, Busy
<1> QED BY <1>2, <1>3, <1>5, <1>6, <1>7, <1>8 DEF IInv

\* The next stage is begun; the last one of a new password once its salt has been seen.
LEMMA Advanced ==
    ASSUME IInv, Busy, SameCall, Sent,
           host.stage # Len(Program[host.op]), host'.stage = host.stage + 1, host'.at = 1,
           ~host'.waiting, host'.result = "none",
           Stage = "confirm" => requests' = <<>> /\ device.credential.salt = calls
    PROVE  IInv'
<1>1. host.op # "none" /\ host.op \in DOMAIN Program
  BY DEF Busy, IInv, HostOK
<1>2. host.stage + 1 \in 1..Len(Program[host.op]) /\ host.op \in Dynamic \cup {"password"}
  <2>1. host.stage \in 1..Len(Program[host.op])
    BY <1>1 DEF IInv, HostOK
  <2>2. host.op \in Dynamic \cup {"password"} /\ Len(Program[host.op]) \in {2, 4}
    BY <1>1, StageTable DEF IInv
  <2> QED BY <2>1, <2>2
<1>3. DeviceOK(device)' /\ RequestsOK'
  BY SameCallFacts, RequestsKept DEF SameCall, IInv
<1>4. /\ Stage' \in AllStages /\ Stage' # "get"
      /\ Frames' = Opcodes(Stage', host'.data) /\ host'.op # "none"
  <2>1. Stage' = Program[host.op][host.stage + 1]
    BY DEF Stage, SameCall
  <2>2. CASE host.op \in Dynamic
    <3>1. Program[host.op] = <<"capabilities", host.op>>
      BY <2>2 DEF Program, Dynamic
    <3>2. Stage' \in {"capabilities", "upload", "clear_dynamic"}
      BY <1>2, <2>1, <2>2, <3>1 DEF Dynamic
    <3> QED BY <1>1, <3>2 DEF AllStages, Dynamic, Frames, SameCall
  <2>3. CASE host.op = "password"
    <3>1. Program[host.op] = <<"info", "password", "confirm", "login">>
      BY <2>3 DEF Program
    <3>2. Stage' \in {"info", "password", "confirm", "login"}
      BY <1>2, <2>1, <2>3, <3>1
    <3> QED BY <1>1, <3>2 DEF AllStages, Dynamic, Frames, SameCall
  <2> QED BY <1>2, <2>2, <2>3
<1>5. HostOK'
  <2>1. Len(Frames') \in 1..3
    BY <1>4, OpcodesFacts
  <2>2. \A n \in 1..3 : 1 \in 1..n
    OBVIOUS
  <2>3. 1 \in 1..Len(Frames')
    BY <2>1, <2>2
  <2> QED BY <1>1, <1>2, <2>3 DEF IInv, HostOK, SameCall
<1>6. ~Current'
  BY DEF Current
<1>7. MatchingRequest'
  BY <1>6 DEF MatchingRequest
<1>8. MatchingAnswer'
  BY <1>6 DEF MatchingAnswer
<1>9. Transferred'
  BY <1>6 DEF Transferred, Current, InTransaction
<1>10. Reading'
  BY <1>4 DEF Reading
<1>11. Confirmed'
  <2> SUFFICES ASSUME host'.op = "password", host'.stage = 4 PROVE Confirmed'
    BY DEF Confirmed
  <2>1. host.op = "password" /\ host.stage = 3
    BY <1>1 DEF SameCall, IInv, HostOK
  <2>2. Stage = "confirm"
    BY <2>1, StageTable DEF IInv
  <2> QED BY <2>2 DEF Confirmed, SameCall
<1>12. Ended'
  BY DEF Ended
<1> QED BY <1>3, <1>5, <1>7, <1>8, <1>9, <1>10, <1>11, <1>12 DEF IInv

\* The call has ended well, or without knowing what became of a password.
LEMMA EndedFacts ==
    ASSUME IInv, Busy, SameCall, host'.stage = host.stage, ~host'.waiting,
           host'.result \in {"ok", "unconfirmed"}, requests = <<>>, requests' = <<>>,
           host'.result = "ok" => SuccessIsTrue',
           host'.result = "unconfirmed" =>
               host.op = "password" /\ device.credential.salt # calls
    PROVE  IInv'
<1>1. ~Busy' /\ host'.op # "none"
  BY DEF Busy, SameCall
<1>2. DeviceOK(device)' /\ RequestsOK'
  <2>1. IsSeq(<<>>) /\ DOMAIN <<>> = {}
    BY EmptyFacts
  <2> QED BY <2>1, SameCallFacts DEF SameCall, IInv, RequestsOK
<1>3. HostOK'
  BY <1>1 DEF IInv, HostOK, SameCall
<1>4. MatchingRequest'
  BY <1>1 DEF MatchingRequest, Current
<1>5. MatchingAnswer'
  BY <1>1 DEF MatchingAnswer, Current
<1>6. Transferred'
  BY <1>1 DEF Transferred, InTransaction
<1>7. Reading'
  BY <1>1 DEF Reading
<1>8. Confirmed'
  BY DEF Confirmed, IInv, SameCall, Busy
<1>9. Ended'
  BY <1>1 DEF Ended, SameCall
<1> QED BY <1>2, <1>3, <1>4, <1>5, <1>6, <1>7, <1>8, <1>9 DEF IInv

\* A frame has been answered well and the next one of the stage is due.
LEMMA Continued ==
    ASSUME IInv, Busy, SameCall, host'.stage = host.stage, ~host'.waiting,
           host'.result = "none", host'.id = host.id,
           requests = <<>>, requests' = <<>>,
           \A i \in DOMAIN answers' : answers'[i].id # host.id,
           host'.at = host.at + 1, host.at < Len(Frames),
           Stage \in Transactions => (Staging.id = host.id /\ Len(Staging.chunks) = host.at =>
                                          Staging.chunks = Copies(host.at)),
           Stage = "get" => /\ Len(device.slot) = 2 /\ host'.total = 2
                            /\ host'.got = <<device.slot[1]>>
    PROVE  IInv'
<1>1. Stage' = Stage /\ Frames' = Frames
  BY SameStageFacts DEF SameCall
<1>2. IsSeq(<<>>) /\ DOMAIN <<>> = {}
  BY EmptyFacts
<1>3. DeviceOK(device)' /\ RequestsOK'
  BY <1>2, SameCallFacts DEF SameCall, IInv, RequestsOK
<1>4. host.at \in 1..Len(Frames) /\ Len(Frames) \in 1..3
  BY FramesFacts DEF IInv
<1>5. host.at + 1 \in 1..Len(Frames) /\ host'.at # 1 /\ host'.at - 1 = host.at
  BY <1>4
<1>6. HostOK'
  BY <1>1, <1>5 DEF IInv, HostOK, SameCall
<1>7. MatchingRequest'
  BY <1>2 DEF MatchingRequest
<1>8. MatchingAnswer'
  BY DEF MatchingAnswer
<1>9. Transferred'
  <2> SUFFICES ASSUME InTransaction' PROVE Transferred'
    BY DEF Transferred
  <2>1. Stage \in Transactions
    BY <1>1 DEF InTransaction
  <2>2. Staging' = Staging
    BY <1>1 DEF Staging, SameCall
  <2>3. \A n : Copies(n)' = Copies(n)
    <3>1. Payload(Frames[1])' = Payload(Frames[1])
      <4>1. Frames[1] # "AUTH_PROVE"
        BY <2>1, FramesFacts DEF IInv, Transactions
      <4> QED BY <1>1, <4>1 DEF Payload, NewCredential, SameCall
    <3> QED BY <3>1 DEF Copies
  <2> QED BY <1>2, <1>5, <2>1, <2>2, <2>3 DEF Transferred
<1>10. Reading'
  BY <1>1, <1>2, <1>5 DEF Reading, SameCall
<1>11. Confirmed'
  BY DEF Confirmed, IInv, SameCall, Busy
<1>12. Ended'
  BY DEF Ended
<1> QED BY <1>3, <1>6, <1>7, <1>8, <1>9, <1>10, <1>11, <1>12 DEF IInv

\* A frame has been sent, with an identifier no report under way has.
LEMMA Waiting ==
    ASSUME IInv, IdsAreFresh, Busy, ~host.waiting, NEW id,
           id = IF host.at = 1 \/ Stage \notin Transactions THEN nextId ELSE host.id,
           host' = [host EXCEPT !.id = id, !.waiting = TRUE],
           requests' = Append(requests, Frame(id)),
           answers' = answers, device' = device, calls' = calls
    PROVE  IInv'
<1>1. /\ SameCall /\ Sent /\ host'.stage = host.stage /\ host'.at = host.at
      /\ host'.attempt = host.attempt /\ host'.salt = host.salt /\ host'.nonce = host.nonce
      /\ host'.total = host.total /\ host'.got = host.got /\ host'.result = host.result
      /\ host'.id = id /\ host'.waiting
  <2>1. /\ HostShape(host') /\ host'.op = host.op /\ host'.data = host.data
        /\ host'.stage = host.stage /\ host'.at = host.at
        /\ host'.attempt = host.attempt /\ host'.salt = host.salt /\ host'.nonce = host.nonce
        /\ host'.total = host.total /\ host'.got = host.got /\ host'.result = host.result
        /\ host'.id = id /\ host'.waiting = TRUE
    BY DEF IInv, HostOK, HostShape
  <2> QED BY <2>1 DEF SameCall, Sent, IInv, RequestsOK
<1>2. Stage' = Stage /\ Frames' = Frames
  BY <1>1, SameStageFacts DEF SameCall
<1>3. DeviceOK(device)' /\ RequestsOK'
  BY <1>1, SameCallFacts, RequestsKept DEF SameCall, IInv
<1>4. HostOK'
  BY <1>1, <1>2 DEF IInv, HostOK, SameCall, Busy
<1>5. Frame(id)' = Frame(id)
  <2>1. \A op : Payload(op)' = Payload(op)
    BY <1>1 DEF Payload, NewCredential, SameCall
  <2> QED BY <1>1, <1>2, <2>1 DEF Frame, Position, SameCall
<1>6. /\ \A i \in DOMAIN requests : requests[i].id # id
      /\ \A i \in DOMAIN answers : answers[i].id # id
  <2>1. CASE host.at = 1 \/ Stage \notin Transactions
    BY <2>1 DEF IdsAreFresh
  <2>2. CASE ~(host.at = 1 \/ Stage \notin Transactions)
    <3>1. host.at \in 1..Len(Frames) /\ Len(Frames) \in 1..3
      BY FramesFacts DEF IInv
    <3>2. Current
      BY <2>2, <3>1 DEF Current, InTransaction
    <3> QED BY <2>2, <3>2 DEF IInv, MatchingRequest, MatchingAnswer
  <2> QED BY <2>1, <2>2
<1>7. MatchingRequest'
  <2> SUFFICES ASSUME NEW i \in DOMAIN requests', requests'[i].id = id
               PROVE  i = Len(requests') /\ requests'[i] = Frame(id)
    BY <1>1, <1>5 DEF MatchingRequest
  <2> QED BY <1>6, AppendFacts DEF IInv, RequestsOK
<1>8. MatchingAnswer'
  BY <1>1, <1>6 DEF MatchingAnswer
<1>9. Transferred'
  <2> SUFFICES ASSUME Stage \in Transactions, host.at > 1 PROVE Transferred'
    BY <1>1, <1>2 DEF Transferred, InTransaction
  <2>1. host.at # 1 /\ id = host.id
    BY DEF IInv
  <2>2. Staging' = Staging
    BY <1>2 DEF Staging
  <2>3. \A n : Copies(n)' = Copies(n)
    <3>1. \A op : Payload(op)' = Payload(op)
      BY <1>1 DEF Payload, NewCredential, SameCall
    <3> QED BY <1>2, <3>1 DEF Copies
  <2>4. \A i \in DOMAIN requests' : requests'[i].id = id
    <3>1. \A i \in DOMAIN requests : requests[i].id = id
      BY <2>1 DEF IInv, Transferred, InTransaction
    <3>2. Frame(id).id = id
      BY DEF Frame
    <3> QED BY <3>1, <3>2, AppendFacts DEF IInv, RequestsOK
  <2>5. Staging.id = host.id /\ Len(Staging.chunks) = host.at - 1 =>
            Staging.chunks = Copies(host.at - 1)
    BY DEF IInv, Transferred, InTransaction
  <2> QED BY <1>1, <2>1, <2>2, <2>3, <2>4, <2>5 DEF Transferred
<1>10. Reading'
  <2> SUFFICES ASSUME Stage = "get" PROVE Reading'
    BY <1>2 DEF Reading
  <2>1. Frame(id).op = "GET"
    BY FrameFacts DEF IInv
  <2>2. Reading
    BY DEF IInv
  <2>3. host.at # 1 => \A i \in DOMAIN requests' : requests'[i].op = "GET"
    BY <2>1, <2>2, AppendFacts DEF Reading, IInv, RequestsOK
  <2> QED BY <1>1, <1>2, <2>2, <2>3 DEF Reading, SameCall
<1>11. Confirmed'
  <2> SUFFICES ASSUME host.op = "password", host.stage = 4 PROVE Confirmed'
    BY <1>1 DEF Confirmed, SameCall
  <2>1. Stage = "login"
    BY StageTable DEF IInv
  <2>2. Frame(id).op # "PASSWORD_SET"
    BY <2>1, FrameFacts DEF IInv
  <2>3. \A i \in DOMAIN requests' : requests'[i].op # "PASSWORD_SET"
    BY <2>2, AppendFacts DEF IInv, RequestsOK, Confirmed, Busy
  <2> QED BY <2>3 DEF Confirmed, SameCall, IInv, Busy
<1>12. Ended'
  BY <1>1 DEF Ended, Busy
<1> QED BY <1>3, <1>4, <1>7, <1>8, <1>9, <1>10, <1>11, <1>12 DEF IInv

\* A report that is not the one waited for has been thrown away.
LEMMA Discards ==
    ASSUME IInv, answers # <<>>, answers' = Tail(answers),
           UNCHANGED <<host, requests, device, calls>>
    PROVE  IInv'
<1>1. /\ Stage' = Stage /\ Frames' = Frames /\ NewCredential' = NewCredential
      /\ Position' = Position /\ Busy' = Busy
  <2>1. Stage' = Stage
    BY DEF Stage
  <2> QED BY <2>1 DEF Frames, NewCredential, Position, Busy
<1>2. /\ IsSeq(answers') /\ Len(answers') = Len(answers) - 1 /\ Len(answers) \in Nat
      /\ \A i \in DOMAIN answers' : i + 1 \in DOMAIN answers /\ answers'[i] = answers[i + 1]
  BY TailFacts, IsSeqFacts DEF IInv, RequestsOK
<1>3. /\ \A c : CredentialOK(c)' <=> CredentialOK(c)
      /\ \A f : RequestOK(f)' <=> RequestOK(f)
      /\ \A d : DeviceOK(d)' <=> DeviceOK(d)
  BY SameCallFacts
<1>4. HostOK' /\ DeviceOK(device)' /\ RequestsOK'
  <2>1. HostOK'
    BY <1>1 DEF IInv, HostOK
  <2> QED BY <1>2, <1>3, <2>1 DEF IInv, RequestsOK
<1>5. InTransaction' = InTransaction /\ Current' = Current
  BY <1>1 DEF InTransaction, Current
<1>6. \A op : Payload(op)' = Payload(op)
  BY <1>1 DEF Payload
<1>7. (\A n : Copies(n)' = Copies(n)) /\ Staging' = Staging
  BY <1>1, <1>6 DEF Copies, Staging
<1>8. \A id : Frame(id)' = Frame(id)
  BY <1>1, <1>6 DEF Frame
<1>9. \A a : Tells(a)' <=> Tells(a)
  <2>1. \A n : ReadAt(n)' = ReadAt(n)
    BY DEF ReadAt
  <2> QED BY <1>1, <1>7, <2>1 DEF Tells
<1>10. MatchingRequest'
  BY <1>1, <1>5, <1>8 DEF MatchingRequest, IInv
<1>11. MatchingAnswer'
  <2> SUFFICES ASSUME NEW i \in DOMAIN answers', answers'[i].id = host.id, Current
               PROVE  /\ host.waiting /\ i = Len(answers') /\ requests = <<>>
                      /\ answers'[i].op = Frames[host.at] /\ answers'[i].from = Position
                      /\ Tells(answers'[i])
    BY <1>1, <1>5, <1>9 DEF MatchingAnswer
  <2>1. /\ i + 1 \in DOMAIN answers /\ answers'[i] = answers[i + 1]
    BY <1>2
  <2>2. /\ host.waiting /\ i + 1 = Len(answers) /\ requests = <<>>
        /\ answers[i + 1].op = Frames[host.at] /\ answers[i + 1].from = Position
        /\ Tells(answers[i + 1])
    BY <2>1 DEF IInv, MatchingAnswer
  <2>3. i \in Nat
    BY <1>2, IsSeqFacts
  <2> QED BY <1>2, <2>1, <2>2, <2>3
<1>12. Transferred'
  BY <1>5, <1>7 DEF Transferred, IInv
<1>13. Reading'
  BY <1>1 DEF Reading, IInv
<1>14. Confirmed'
  BY DEF Confirmed, IInv
<1>15. Ended'
  BY <1>1 DEF Ended, SuccessIsTrue, IInv
<1> QED BY <1>4, <1>10, <1>11, <1>12, <1>13, <1>14, <1>15 DEF IInv

---------------------------------------------------------------------------
(* Answers. *)

\* What an answer to this frame leaves of the call.
LEMMA LearnedFacts ==
    ASSUME HostOK, Busy, NEW a, a.op = Frames[host.at], NEW h, h = Learned(a)
    PROVE  /\ HostShape(h) /\ h.op = host.op /\ h.data = host.data /\ h.stage = host.stage
           /\ \/ h.result = "none" /\ h.at = host.at /\ h.id = host.id
                 /\ h.attempt = host.attempt
              \/ h.result = "failed" /\ ~h.waiting
              \/ h.result = "unconfirmed" /\ ~h.waiting /\ Stage = "confirm"
                 /\ a.value.salt # calls
           /\ Stage = "confirm" /\ h.result = "none" => a.value.salt = calls
           /\ h.result # "none" \/ Stage # "get" => h.got = host.got /\ h.total = host.total
           /\ h.result = "none" /\ Stage = "get" =>
                  /\ h.total = a.value.total /\ h.got = host.got \o a.value.chunk
                  /\ host.at > 1 => a.value.total = host.total
<1> DEFINE failed == Finished(host, "failed")
           unconfirmed == Finished(host, "unconfirmed")
<1>1. HostShape(host) /\ host.result = "none"
  BY DEF HostOK, Busy
<1>2. /\ HostShape(failed) /\ ~failed.waiting /\ failed.op = host.op /\ failed.data = host.data
      /\ failed.stage = host.stage /\ failed.got = host.got /\ failed.total = host.total
      /\ failed.result = "failed"
  BY <1>1, FinishedFacts
<1>3. /\ HostShape(unconfirmed) /\ ~unconfirmed.waiting /\ unconfirmed.op = host.op
      /\ unconfirmed.data = host.data /\ unconfirmed.stage = host.stage
      /\ unconfirmed.got = host.got /\ unconfirmed.total = host.total
      /\ unconfirmed.result = "unconfirmed"
  BY <1>1, FinishedFacts
<1>4. NewCredential.salt = calls
  BY DEF NewCredential
<1> HIDE DEF failed, unconfirmed
<1>5. CASE Stage = "info"
  <2>1. a.op = "AUTH_INFO"
    BY <1>5, FramesFacts
  <2>2. h = failed \/ h = host
    BY <1>5, <2>1 DEF Learned, Transactions, failed
  <2> QED BY <1>1, <1>2, <1>5, <2>2
<1>6. CASE Stage = "confirm"
  <2>1. a.op = "AUTH_INFO"
    BY <1>6, FramesFacts
  <2>2. IF a.value.salt # calls THEN h = unconfirmed ELSE h = host
    BY <1>4, <1>6, <2>1 DEF Learned, Transactions, unconfirmed
  <2> QED BY <1>1, <1>3, <1>6, <2>2
<1>7. CASE Stage = "login"
  <2>1. h = failed \/ h = host \/ h = [host EXCEPT !.salt = a.value.salt]
        \/ h = [host EXCEPT !.nonce = a.value]
    <3>1. a.op \in {"AUTH_INFO", "AUTH_CHALLENGE", "AUTH_PROVE"}
      BY <1>7, FramesFacts
    <3>2. CASE a.op = "AUTH_INFO"
      BY <1>7, <3>2 DEF Learned, failed, Transactions
    <3>3. CASE a.op = "AUTH_CHALLENGE"
      BY <1>7, <3>3 DEF Learned, Transactions
    <3>4. CASE a.op = "AUTH_PROVE"
      BY <1>7, <3>4 DEF Learned, Transactions
    <3> QED BY <3>1, <3>2, <3>3, <3>4
  <2>2. ASSUME h = [host EXCEPT !.salt = a.value.salt] \/ h = [host EXCEPT !.nonce = a.value]
        PROVE  /\ HostShape(h) /\ h.op = host.op /\ h.data = host.data
               /\ h.stage = host.stage /\ h.result = "none" /\ h.at = host.at
               /\ h.id = host.id /\ h.got = host.got /\ h.total = host.total
               /\ h.attempt = host.attempt
    BY <1>1, <2>2 DEF HostShape
  <2> QED BY <1>1, <1>2, <1>7, <2>1, <2>2
<1>8. CASE Stage = "get"
  <2>1. a.op = "GET"
    BY <1>8, FramesFacts
  <2>2. IF host.at > 1 /\ a.value.total # host.total THEN h = failed
        ELSE h = [host EXCEPT !.total = a.value.total, !.got = @ \o a.value.chunk]
    BY <1>8, <2>1 DEF Learned, failed, Transactions
  <2>3. CASE h = failed
    BY <1>2, <1>8, <2>3
  <2>4. CASE h = [host EXCEPT !.total = a.value.total, !.got = @ \o a.value.chunk]
    <3>1. /\ HostShape(h) /\ h.op = host.op /\ h.data = host.data
          /\ h.stage = host.stage /\ h.result = "none" /\ h.at = host.at
          /\ h.id = host.id /\ h.got = host.got \o a.value.chunk /\ h.total = a.value.total
          /\ h.attempt = host.attempt
      BY <1>1, <2>4 DEF HostShape
    <3> QED BY <1>2, <1>8, <2>2, <3>1
  <2> QED BY <2>2, <2>3, <2>4
<1>9. CASE Stage \notin {"info", "confirm", "login", "get"}
  <2>1. a.op \notin {"AUTH_CHALLENGE", "GET"}
    <3>1. CASE Stage = "upload"
      BY <3>1, FramesFacts
    <3>2. CASE Stage # "upload"
      BY <1>9, <3>2, FramesFacts DEF AllStages, Simple, Dynamic
    <3> QED BY <3>1, <3>2
  <2>2. h = failed \/ h = host
    BY <1>9, <2>1 DEF Learned, failed
  <2> QED BY <1>1, <1>2, <1>9, <2>2
<1> QED BY <1>5, <1>6, <1>7, <1>8, <1>9

\* The last good answer of a call says that the device is as the call has asked for.
LEMMA AnswerIsTrue ==
    ASSUME IInv, Busy, NEW a, Tells(a), a.status = "OK", a.op = Frames[host.at],
           host.stage = Len(Program[host.op]), Stage # "get", host.at = Len(Frames)
    PROVE  /\ host.op = "set" => device.slot = Chunks(host.data)
           /\ host.op = "upload" => device.dynamic = Chunks(host.data)
           /\ host.op = "clear" => device.slot = <<>>
           /\ host.op = "clear_dynamic" => device.dynamic = <<>>
           /\ host.op = "password" => device.credential = NewCredential
           /\ host.op = "authenticate" => device.credential.password = host.data
           /\ host.op = "lock" => ~device.session
<1>1. /\ host.op \in Simple \cup Dynamic \cup {"authenticate", "password"}
      /\ host.op \in Simple => Stage = host.op
      /\ host.op \in Dynamic => Stage = host.op
      /\ host.op = "authenticate" => Stage = "login"
      /\ host.op = "password" => host.stage = 4
  <2>1. host.op # "none" /\ HostOK
    BY DEF Busy, IInv
  <2>2. CASE host.op \in Dynamic
    <3>1. Len(Program[host.op]) = 2 /\ (host.stage = 2 => Stage = host.op)
      BY <2>1, <2>2, StageTable
    <3>2. host.op \notin Simple
      BY <2>2 DEF Simple, Dynamic
    <3>3. Stage = host.op
      BY <3>1
    <3> QED BY <2>2, <3>2, <3>3 DEF Dynamic
  <2>3. CASE host.op \notin Dynamic
    BY <2>1, <2>3, StageTable
  <2> QED BY <2>2, <2>3
<1>2. CASE host.op = "password"
  <2>1. device.credential.salt = calls
    BY <1>1, <1>2 DEF IInv, Confirmed, Busy
  <2> QED BY <1>2, <2>1 DEF IInv, DeviceOK, CredentialOK
<1>3. CASE host.op = "authenticate"
  <2>1. a.op = "AUTH_PROVE"
    BY <1>1, <1>3, FramesFacts DEF IInv
  <2> QED BY <1>3, <2>1 DEF Tells
<1>4. CASE host.op \in Simple \cup Dynamic
  BY <1>1, <1>4 DEF Tells, Simple, Dynamic
<1> QED BY <1>1, <1>2, <1>3, <1>4

\* The slot is read when all its chunks have been.
LEMMA ReadFacts ==
    ASSUME IInv, Busy, Stage = "get", NEW a, Tells(a), a.status = "OK", a.op = "GET",
           NEW got, got = host.got \o a.value.chunk,
           host.at > 1 => a.value.total = host.total
    PROVE  \/ got = device.slot /\ Len(got) = a.value.total
           \/ /\ host.at = 1 /\ Len(device.slot) = 2 /\ a.value.total = 2
              /\ Len(got) = 1 /\ got = <<device.slot[1]>>
<1> DEFINE slot == device.slot
<1>1. /\ a.value.total = Len(slot) /\ a.value.chunk = ReadAt(host.at)
      /\ Len(slot) \in {0, 1, 2} /\ IsSeq(slot) /\ DOMAIN slot = 1..Len(slot)
      /\ (slot = <<>> <=> Len(slot) = 0)
  <2>1. IsSeq(slot) /\ Len(slot) <= 2
    BY DEF IInv, DeviceOK, DeviceShape
  <2>2. Len(slot) \in Nat /\ DOMAIN slot = 1..Len(slot) /\ (slot = <<>> <=> Len(slot) = 0)
    BY <2>1, IsSeqFacts
  <2>3. a.value = [total |-> Len(slot), chunk |-> ReadAt(host.at)]
    BY DEF Tells
  <2>4. a.value.total = Len(slot) /\ a.value.chunk = ReadAt(host.at)
    BY <2>3
  <2>5. \A n \in Nat : n <= 2 => n \in {0, 1, 2}
    OBVIOUS
  <2> QED BY <2>1, <2>2, <2>4, <2>5
<1>2. host.at \in {1, 2}
  <2>1. host.at \in 1..Len(Frames) /\ Len(Frames) = 2
    BY FramesFacts DEF IInv
  <2>2. \A n \in 1..2 : n \in {1, 2}
    OBVIOUS
  <2> QED BY <2>1, <2>2
<1>3. Reading
  BY DEF IInv
<1>4. a.value.chunk = IF host.at <= Len(slot) THEN <<slot[host.at]>> ELSE <<>>
  BY <1>1, <1>2 DEF ReadAt
<1> HIDE DEF slot
<1>5. CASE host.at = 1
  <2>1. host.got = <<>>
    BY <1>3, <1>5 DEF Reading
  <2>2. CASE Len(slot) = 0
    <3>1. a.value.chunk = <<>>
      BY <1>4, <1>5, <2>2
    <3>2. got = <<>>
      BY <2>1, <3>1, ConcatFacts
    <3> QED BY <1>1, <2>2, <3>2, EmptyFacts DEF slot
  <2>3. CASE Len(slot) # 0
    <3>1. a.value.chunk = <<slot[1]>>
      BY <1>1, <1>4, <1>5, <2>3
    <3>2. got = <<slot[1]>> /\ Len(got) = 1
      BY <2>1, <3>1, ConcatFacts, SingleFacts
    <3>3. CASE Len(slot) = 1
      <4>1. got = slot
        BY <1>1, <3>2, <3>3, SeqOfTwo
      <4> QED BY <1>1, <3>2, <3>3, <4>1 DEF slot
    <3>4. CASE Len(slot) = 2
      BY <1>1, <1>5, <3>2, <3>4 DEF slot
    <3> QED BY <1>1, <2>3, <3>3, <3>4
  <2> QED BY <2>2, <2>3
<1>6. CASE host.at = 2
  <2>1. Len(slot) = 2 /\ host.got = <<slot[1]>>
    BY <1>3, <1>6 DEF Reading, slot
  <2>2. a.value.chunk = <<slot[2]>>
    BY <1>4, <1>6, <2>1
  <2>3. got = <<slot[1], slot[2]>>
    BY <2>1, <2>2, ConcatFacts
  <2>4. got = slot
    BY <1>1, <2>1, <2>3, SeqOfTwo
  <2> QED BY <1>1, <2>4 DEF slot
<1> QED BY <1>2, <1>5, <1>6

\* The call goes on with the answer it has waited for.
LEMMA Progresses ==
    ASSUME IInv, Busy, host.waiting, answers # <<>>, answers' = Tail(answers),
           UNCHANGED <<requests, device, calls>>,
           NEW a, a = Head(answers), Matches(a), a.status = "OK", host' = Progressed(a)
    PROVE  IInv'
<1> DEFINE h == Learned(a)
<1>1. /\ requests = <<>> /\ Tells(a) /\ a.op = Frames[host.at] /\ a.id = host.id
      /\ IsSeq(answers') /\ DOMAIN answers' = {}
  <2>1. /\ 1 \in DOMAIN answers /\ a = answers[1] /\ IsSeq(answers')
        /\ Len(answers') = Len(answers) - 1
    BY TailFacts DEF IInv, RequestsOK
  <2>2. Current /\ a.id = host.id /\ a.op = Frames[host.at]
    BY DEF Current, Matches
  <2>3. requests = <<>> /\ Tells(a)
    BY <2>1, <2>2 DEF IInv, MatchingAnswer
  <2>4. Len(answers') = 0
    <3>1. 1 = Len(answers)
      BY <2>1, <2>2 DEF IInv, MatchingAnswer
    <3>2. 1 - 1 = 0
      OBVIOUS
    <3> QED BY <2>1, <3>1, <3>2
  <2>5. DOMAIN answers' = {}
    BY <2>1, <2>4, IsSeqFacts, EmptyFacts
  <2> QED BY <2>1, <2>2, <2>3, <2>5
<1>2. /\ HostShape(h) /\ h.op = host.op /\ h.data = host.data /\ h.stage = host.stage
      /\ \/ h.result = "none" /\ h.at = host.at /\ h.id = host.id
         \/ h.result = "failed" /\ ~h.waiting
         \/ h.result = "unconfirmed" /\ ~h.waiting /\ Stage = "confirm"
            /\ a.value.salt # calls
      /\ Stage = "confirm" /\ h.result = "none" => a.value.salt = calls
      /\ h.result # "none" \/ Stage # "get" => h.got = host.got /\ h.total = host.total
      /\ h.result = "none" /\ Stage = "get" =>
             /\ h.total = a.value.total /\ h.got = host.got \o a.value.chunk
             /\ host.at > 1 => a.value.total = host.total
  <2>1. HostOK /\ a.op = Frames[host.at]
    BY <1>1 DEF IInv
  <2> QED BY <2>1, LearnedFacts
<1>3. host' = IF h.result # "none" THEN h
              ELSE IF LastOfStage(h, a) THEN NextStage(h)
              ELSE [h EXCEPT !.waiting = FALSE, !.at = @ + 1,
                             !.attempt = IF Stage = "get" THEN 1 ELSE @]
  BY DEF Progressed
<1>4. Stage = "get" <=> a.op = "GET"
  BY <1>1, FrameFacts DEF IInv, Frame
<1>5. host.at \in 1..Len(Frames) /\ Len(Frames) \in 1..3 /\ host.op # "none" /\ Sent
  BY FramesFacts DEF IInv, Sent
<1> HIDE DEF h
<1>10. h.result = "none" /\ Stage = "get" =>
          \/ h.got = device.slot /\ Len(h.got) = a.value.total
          \/ /\ host.at = 1 /\ Len(device.slot) = 2 /\ a.value.total = 2
             /\ Len(h.got) = 1 /\ h.got = <<device.slot[1]>>
  <2> SUFFICES ASSUME h.result = "none", Stage = "get"
               PROVE  \/ h.got = device.slot /\ Len(h.got) = a.value.total
                      \/ /\ host.at = 1 /\ Len(device.slot) = 2 /\ a.value.total = 2
                         /\ Len(h.got) = 1 /\ h.got = <<device.slot[1]>>
    OBVIOUS
  <2>1. h.got = host.got \o a.value.chunk /\ (host.at > 1 => a.value.total = host.total)
    BY <1>2
  <2>2. Tells(a) /\ a.op = "GET"
    BY <1>1, <1>4
  <2> HIDE DEF h
  <2>3. PICK got : got = h.got
    OBVIOUS
  <2>4. \/ got = device.slot /\ Len(got) = a.value.total
        \/ /\ host.at = 1 /\ Len(device.slot) = 2 /\ a.value.total = 2
           /\ Len(got) = 1 /\ got = <<device.slot[1]>>
    BY <2>1, <2>2, <2>3, ReadFacts, ZenonT(20)
  <2> QED BY <2>3, <2>4
<1>6. CASE h.result = "failed"
  <2>1. host' = h
    BY <1>3, <1>6
  <2>2. SameCall
    BY <1>1, <1>2, <1>6, <2>1 DEF SameCall
  <2> QED BY <1>2, <1>5, <1>6, <2>1, <2>2, Released
<1>7. CASE h.result = "unconfirmed"
  <2>1. host' = h
    BY <1>3, <1>7
  <2>2. SameCall
    BY <1>1, <1>2, <1>7, <2>1 DEF SameCall
  <2>3. host.op = "password"
    BY <1>2, <1>5, <1>7, StageTable DEF IInv, Simple, Dynamic
  <2>4. device.credential.salt # calls
    BY <1>1, <1>2, <1>7 DEF Tells
  <2> QED BY <1>1, <1>2, <1>7, <2>1, <2>2, <2>3, <2>4, EndedFacts
<1>8. CASE h.result = "none" /\ LastOfStage(h, a)
  <2>1. host' = NextStage(h)
    BY <1>3, <1>8
  <2>2. /\ HostShape(host') /\ ~host'.waiting /\ host'.op = h.op /\ host'.data = h.data
        /\ host'.got = h.got /\ host'.total = h.total
        /\ IF h.stage = Len(Program[h.op]) THEN host'.stage = h.stage /\ host'.result = "ok"
           ELSE host'.stage = h.stage + 1 /\ host'.at = 1 /\ host'.result = "none"
    BY <1>2, <1>8, <2>1, NextStageFacts
  <2>3. SameCall
    BY <1>1, <1>2, <2>2 DEF SameCall
  <2>4. CASE host.stage = Len(Program[host.op])
    <3>1. SuccessIsTrue'
      <4>1. CASE Stage = "get"
        <5>1. Len(h.got) = a.value.total
          BY <1>2, <1>4, <1>8, <4>1 DEF LastOfStage
        <5>2. h.got = device.slot
          <6>1. 1 # 2
            OBVIOUS
          <6> QED BY <1>8, <1>10, <4>1, <5>1, <6>1
        <5>3. host.op = "get"
          BY <1>5, <4>1, StageTable DEF IInv, Simple, Dynamic
        <5> QED BY <1>2, <2>2, <2>3, <5>2, <5>3 DEF SuccessIsTrue, SameCall
      <4>2. CASE Stage # "get"
        <5>1. host.at = Len(Frames)
          BY <1>2, <1>4, <1>8, <4>2 DEF LastOfStage
        <5>2. host.op # "get"
          BY <4>2, <1>5, StageTable DEF IInv, Simple
        <5>3. NewCredential' = NewCredential
          BY <2>3, SameCallFacts DEF SameCall
        <5>4. /\ host.op = "set" => device.slot = Chunks(host.data)
              /\ host.op = "upload" => device.dynamic = Chunks(host.data)
              /\ host.op = "clear" => device.slot = <<>>
              /\ host.op = "clear_dynamic" => device.dynamic = <<>>
              /\ host.op = "password" => device.credential = NewCredential
              /\ host.op = "authenticate" => device.credential.password = host.data
              /\ host.op = "lock" => ~device.session
          BY <1>1, <2>4, <4>2, <5>1, AnswerIsTrue
        <5>5. host.op \in {"set", "upload", "clear", "clear_dynamic", "password",
                           "authenticate", "lock"}
          BY <1>5, <5>2, StageTable DEF IInv, Simple, Dynamic
        <5> QED BY <2>3, <5>3, <5>4, <5>5 DEF SuccessIsTrue, SameCall
      <4> QED BY <4>1, <4>2
    <3> QED BY <1>1, <1>2, <2>2, <2>3, <2>4, <3>1, EndedFacts
  <2>5. CASE host.stage # Len(Program[host.op])
    <3>1. Stage = "confirm" => device.credential.salt = calls
      BY <1>1, <1>2, <1>8 DEF Tells
    <3> QED BY <1>1, <1>2, <1>5, <2>2, <2>3, <2>5, <3>1, Advanced
  <2> QED BY <2>4, <2>5
<1>9. CASE h.result = "none" /\ ~LastOfStage(h, a)
  <2>1. host' = [h EXCEPT !.waiting = FALSE, !.at = @ + 1,
                          !.attempt = IF Stage = "get" THEN 1 ELSE @]
    BY <1>3, <1>9
  <2>2. /\ HostShape(host') /\ host'.op = h.op /\ host'.data = h.data /\ host'.stage = h.stage
        /\ ~host'.waiting /\ host'.result = "none" /\ host'.id = h.id /\ host'.at = h.at + 1
        /\ host'.got = h.got /\ host'.total = h.total
    BY <1>2, <1>9, <2>1 DEF HostShape
  <2>3. SameCall
    BY <1>1, <1>2, <2>2 DEF SameCall
  <2>4. CASE Stage = "get"
    <3>1. Len(h.got) # a.value.total
      BY <1>2, <1>4, <1>9, <2>4 DEF LastOfStage
    <3>2. /\ host.at = 1 /\ Len(device.slot) = 2 /\ a.value.total = 2
          /\ h.got = <<device.slot[1]>>
      BY <1>10, <1>9, <2>4, <3>1
    <3>3. Len(Frames) = 2 /\ Stage \notin Transactions
      BY <2>4, FramesFacts DEF IInv, Transactions
    <3> QED BY <1>1, <1>2, <1>9, <2>2, <2>3, <2>4, <3>2, <3>3, Continued
  <2>5. CASE Stage # "get"
    <3>1. host.at < Len(Frames)
      BY <1>2, <1>4, <1>5, <1>9, <2>5 DEF LastOfStage
    <3>2. Stage \in Transactions => (Staging.id = host.id /\ Len(Staging.chunks) = host.at =>
                                         Staging.chunks = Copies(host.at))
      BY <1>1, <3>1 DEF Tells
    <3> QED BY <1>1, <1>2, <1>9, <2>2, <2>3, <2>5, <3>1, <3>2, Continued
  <2> QED BY <2>4, <2>5
<1> QED BY <1>2, <1>6, <1>7, <1>8, <1>9

---------------------------------------------------------------------------
(* The steps of the client. *)

\* An exchange without an answer, of the frame that is under way or could not be written.
LEMMA NotAnswered ==
    ASSUME IInv, Busy, Sent, NEW h, HostShape(h), host' = Unanswered(h),
           h.op = host.op, h.data = host.data, h.stage = host.stage, h.at = host.at,
           h.got = host.got, h.total = host.total, h.result = "none",
           answers' = answers, device' = device, calls' = calls
    PROVE  IInv'
<1>1. CASE Stage = "password" /\ h.at = Len(Frames)
  <2>1. host' = NextStage(h)
    BY <1>1 DEF Unanswered
  <2>2. host.op = "password" /\ host.stage = 2 /\ Len(Program[host.op]) = 4
    BY <1>1, StageTable DEF IInv, Busy, Simple, Dynamic
  <2>3. h.stage # Len(Program[h.op])
    BY <2>2
  <2>4. /\ HostShape(host') /\ ~host'.waiting /\ host'.op = h.op /\ host'.data = h.data
        /\ host'.stage = h.stage + 1 /\ host'.at = 1 /\ host'.result = "none"
    BY <2>1, <2>3, NextStageFacts
  <2>5. SameCall
    BY <2>4 DEF SameCall, IInv, RequestsOK
  <2> QED BY <1>1, <2>3, <2>4, <2>5, Advanced
<1>2. CASE ~(Stage = "password" /\ h.at = Len(Frames))
  <2>1. host' = Again(h)
    BY <1>2 DEF Unanswered
  <2>2. /\ HostShape(host') /\ ~host'.waiting /\ host'.op = h.op /\ host'.data = h.data
        /\ host'.stage = h.stage /\ host'.got = h.got /\ host'.total = h.total
        /\ host'.result \in {"none", "failed"}
        /\ host'.result = "none" => host'.at = IF Stage = "get" THEN h.at ELSE 1
    BY <2>1, AgainFacts
  <2>3. SameCall
    BY <2>2 DEF SameCall, IInv, RequestsOK
  <2> QED BY <2>2, <2>3, Released
<1> QED BY <1>1, <1>2

LEMMA SendInv ==
    ASSUME IInv, IdsAreFresh, Send
    PROVE  IInv'
<1> DEFINE id == IF host.at = 1 \/ Stage \notin Transactions THEN nextId ELSE host.id
           sending == [host EXCEPT !.id = id, !.waiting = TRUE]
<1>1. /\ Busy /\ ~host.waiting /\ UNCHANGED <<answers, device, calls>>
      /\ \/ requests' = Append(requests, Frame(id)) /\ host' = sending
         \/ Sent /\ host' = Unanswered(sending)
  BY DEF Send, Sent
<1>2. /\ HostShape(sending) /\ sending.op = host.op /\ sending.data = host.data
      /\ sending.stage = host.stage /\ sending.at = host.at /\ sending.got = host.got
      /\ sending.total = host.total /\ sending.result = "none"
  <2>1. HostShape(host) /\ host.result = "none"
    BY <1>1 DEF IInv, HostOK, Busy
  <2>2. sending = [host EXCEPT !.id = id, !.waiting = TRUE]
    OBVIOUS
  <2> HIDE DEF id, sending
  <2> QED BY <2>1, <2>2 DEF HostShape
<1>3. CASE requests' = Append(requests, Frame(id)) /\ host' = sending
  BY <1>1, <1>3, Waiting
<1>4. CASE Sent /\ host' = Unanswered(sending)
  <2> HIDE DEF sending
  <2> QED BY <1>1, <1>2, <1>4, NotAnswered
<1> QED BY <1>1, <1>3, <1>4

LEMMA TimeoutInv ==
    ASSUME IInv, Timeout
    PROVE  IInv'
<1>1. Busy /\ Sent /\ HostShape(host) /\ host.result = "none"
  BY DEF Timeout, Sent, IInv, HostOK, Busy
<1> QED BY <1>1, NotAnswered DEF Timeout

LEMMA ReceiveInv ==
    ASSUME IInv, Receive
    PROVE  IInv'
<1> DEFINE a == Head(answers)
<1>1. /\ Busy /\ host.waiting /\ answers # <<>> /\ answers' = Tail(answers)
      /\ UNCHANGED <<requests, device, calls>> /\ Sent
      /\ \/ host' = host
         \/ Matches(a) /\ a.status = "OK" /\ host' = Progressed(a)
         \/ host' = Again(host)
         \/ host' = Finished(host, "failed")
  BY DEF Receive, Sent
<1> HIDE DEF a
<1>2. HostShape(host) /\ host.result = "none" /\ IsSeq(answers')
  BY <1>1, TailFacts DEF IInv, HostOK, Busy, RequestsOK
<1>3. CASE host' = host
  BY <1>1, <1>3, Discards
<1>4. CASE Matches(a) /\ a.status = "OK" /\ host' = Progressed(a)
  BY <1>1, <1>4, Progresses DEF a
<1>5. CASE host' = Again(host)
  <2>1. /\ HostShape(host') /\ ~host'.waiting /\ host'.op = host.op /\ host'.data = host.data
        /\ host'.stage = host.stage /\ host'.got = host.got /\ host'.total = host.total
        /\ host'.result \in {"none", "failed"}
        /\ host'.result = "none" => host'.at = IF Stage = "get" THEN host.at ELSE 1
    BY <1>2, <1>5, AgainFacts
  <2>2. SameCall
    BY <1>1, <1>2, <2>1 DEF SameCall
  <2> QED BY <1>1, <2>1, <2>2, Released
<1>6. CASE host' = Finished(host, "failed")
  <2>1. /\ HostShape(host') /\ ~host'.waiting /\ host'.op = host.op /\ host'.data = host.data
        /\ host'.stage = host.stage /\ host'.got = host.got /\ host'.total = host.total
        /\ host'.result = "failed"
    BY <1>2, <1>6, FinishedFacts
  <2>2. SameCall
    BY <1>1, <1>2, <2>1 DEF SameCall
  <2> QED BY <1>1, <2>1, <2>2, Released
<1> QED BY <1>1, <1>3, <1>4, <1>5, <1>6

LEMMA ProgramTable ==
    ASSUME NEW op \in DOMAIN Program
    PROVE  /\ op \in Simple \cup Dynamic \cup {"authenticate", "password"}
           /\ 1 \in 1..Len(Program[op]) /\ Program[op][1] \in AllStages
<1>1. op \in Simple \cup Dynamic \cup {"authenticate", "password"}
  BY DEF Program, Simple, Dynamic
<1>2. CASE op \in Simple
  <2>1. Program[op] = <<op>>
    BY <1>2 DEF Program, Simple
  <2> QED BY <1>2, <2>1 DEF Simple, AllStages
<1>3. CASE op \in Dynamic
  <2>1. Program[op] = <<"capabilities", op>>
    BY <1>3 DEF Program, Dynamic
  <2> QED BY <1>3, <2>1 DEF Dynamic, AllStages
<1>4. CASE op = "authenticate"
  <2>1. Program[op] = <<"login">>
    BY <1>4 DEF Program
  <2> QED BY <1>4, <2>1 DEF AllStages
<1>5. CASE op = "password"
  <2>1. Program[op] = <<"info", "password", "confirm", "login">>
    BY <1>5 DEF Program
  <2> QED BY <1>5, <2>1 DEF AllStages
<1> QED BY <1>1, <1>2, <1>3, <1>4, <1>5

LEMMA CallsAre ==
    ASSUME Calls
    PROVE  \E op \in DOMAIN Program : \E data : Call(op, data)
<1>1. DOMAIN Program = {"set", "get", "clear", "lock", "upload", "clear_dynamic",
                        "authenticate", "password"}
  BY DEF Program
<1> QED BY <1>1 DEF Calls

\* A call that begins has used nothing yet; no credential is of this call.
LEMMA CallInv ==
    ASSUME IInv, NEW op \in DOMAIN Program, NEW data, Call(op, data)
    PROVE  IInv'
<1>1. /\ calls \in Nat /\ calls' = calls + 1 /\ UNCHANGED <<requests, answers, device>>
      /\ host' = [NotCalled EXCEPT !.op = op, !.data = data]
  BY DEF Call, IInv, HostOK
<1>2. /\ HostShape(host') /\ host'.op = op /\ host'.stage = 1 /\ host'.at = 1
      /\ host'.waiting = FALSE /\ host'.got = <<>> /\ host'.result = "none"
  BY <1>1 DEF NotCalled, HostShape
<1>3. op # "none" /\ 1 \in 1..Len(Program[op]) /\ Program[op][1] \in AllStages
  BY ProgramTable DEF Simple, Dynamic
<1>4. Frames' = Opcodes(Stage', host'.data) /\ Stage' \in AllStages
  BY <1>2, <1>3 DEF Frames, Stage
<1>5. HostOK'
  <2>1. Len(Frames') \in 1..3
    BY <1>4, OpcodesFacts
  <2>2. \A n \in 1..3 : 1 \in 1..n
    OBVIOUS
  <2>3. 1 \in 1..Len(Frames')
    BY <2>1, <2>2
  <2>4. calls' \in Nat
    BY <1>1
  <2> QED BY <1>2, <1>3, <2>3, <2>4 DEF HostOK
<1>6. \A c : CredentialOK(c) => CredentialOK(c)'
  BY <1>1 DEF CredentialOK
<1>7. DeviceOK(device)' /\ RequestsOK'
  BY <1>1, <1>6 DEF IInv, DeviceOK, RequestsOK, RequestOK
<1>8. ~Current'
  BY <1>2 DEF Current
<1>9. MatchingRequest'
  BY <1>8 DEF MatchingRequest
<1>10. MatchingAnswer'
  BY <1>8 DEF MatchingAnswer
<1>11. Transferred'
  BY <1>8 DEF Transferred, Current, InTransaction
<1>12. Reading'
  BY <1>2 DEF Reading
<1>13. Confirmed' /\ Ended'
  BY <1>2 DEF Confirmed, Ended
<1> QED BY <1>5, <1>7, <1>9, <1>10, <1>11, <1>12, <1>13 DEF IInv

LEMMA NewProcessInv ==
    ASSUME IInv, NewProcess
    PROVE  IInv'
<1>1. host' = NotCalled /\ answers' = <<>> /\ UNCHANGED <<requests, device, calls>>
  BY DEF NewProcess
<1>2. HostShape(host') /\ host'.op = "none" /\ host'.stage = 1 /\ host'.result = "none"
  BY <1>1 DEF NotCalled, HostShape
<1>3. ~Busy'
  BY <1>2 DEF Busy
<1>4. HostOK'
  BY <1>1, <1>2, <1>3 DEF HostOK, IInv
<1>5. \A c : CredentialOK(c) => CredentialOK(c)'
  BY <1>1, <1>2 DEF CredentialOK
<1>6. DeviceOK(device)' /\ RequestsOK'
  BY <1>1, <1>5, EmptyFacts DEF IInv, DeviceOK, RequestsOK, RequestOK
<1>7. MatchingRequest'
  BY <1>3 DEF MatchingRequest, Current
<1>8. MatchingAnswer'
  BY <1>3 DEF MatchingAnswer, Current
<1>9. Transferred'
  BY <1>3 DEF Transferred, InTransaction
<1>10. Reading'
  BY <1>3 DEF Reading
<1>11. Confirmed' /\ Ended'
  BY <1>2 DEF Confirmed, Ended
<1> QED BY <1>4, <1>6, <1>7, <1>8, <1>9, <1>10, <1>11 DEF IInv

---------------------------------------------------------------------------
(* The steps of the device. *)

\* A session that ends takes the transactions with it and nothing else that is asked for.
LEMMA LoggedOutFacts ==
    ASSUME DeviceShape(device)
    PROVE  /\ DeviceShape(LoggedOut) /\ LoggedOut.slot = device.slot
           /\ LoggedOut.dynamic = device.dynamic /\ LoggedOut.credential = device.credential
           /\ LoggedOut.session = FALSE
           /\ \A k \in Kinds : LoggedOut.tx[k] = NoTx /\ LoggedOut.tx[k].chunks = <<>>
           /\ DeviceShape(Discarded) /\ Discarded.slot = device.slot
           /\ Discarded.dynamic = device.dynamic /\ Discarded.credential = device.credential
           /\ Discarded.session = device.session
           /\ \A k \in Kinds : Discarded.tx[k] = NoTx /\ Discarded.tx[k].chunks = <<>>
<1> DEFINE none == [k \in Kinds |-> NoTx]
<1>1. /\ \A k \in Kinds : none[k] = NoTx /\ NoTx.chunks = <<>> /\ NoTx.id = 0
      /\ none = [k \in Kinds |-> [id |-> none[k].id, chunks |-> none[k].chunks]]
  BY DEF NoTx
<1>2. IsSeq(<<>>)
  BY EmptyFacts
<1> HIDE DEF none
<1>3. device = [slot |-> device.slot, dynamic |-> device.dynamic,
                credential |-> device.credential, session |-> device.session,
                nonce |-> device.nonce, tx |-> device.tx]
  BY DEF DeviceShape
<1>4. Discarded = [slot |-> device.slot, dynamic |-> device.dynamic,
                   credential |-> device.credential, session |-> device.session,
                   nonce |-> device.nonce, tx |-> none]
  BY <1>3 DEF Discarded, none
<1>5. LoggedOut = [slot |-> device.slot, dynamic |-> device.dynamic,
                   credential |-> device.credential, session |-> FALSE,
                   nonce |-> <<>>, tx |-> none]
  <2>1. LoggedOut = [Discarded EXCEPT !.session = FALSE, !.nonce = <<>>]
    BY DEF LoggedOut
  <2> DEFINE d == [Discarded EXCEPT !.session = FALSE]
  <2>2. d = [slot |-> device.slot, dynamic |-> device.dynamic,
             credential |-> device.credential, session |-> FALSE,
             nonce |-> device.nonce, tx |-> none]
    <3>1. \A x : [Discarded EXCEPT !.session = x] =
                     [slot |-> device.slot, dynamic |-> device.dynamic,
                      credential |-> device.credential, session |-> x,
                      nonce |-> device.nonce, tx |-> none]
      BY <1>4
    <3> QED BY <3>1
  <2>3. LoggedOut = [d EXCEPT !.nonce = <<>>]
    BY <2>1
  <2> HIDE DEF d
  <2> QED BY <2>2, <2>3
<1> QED BY <1>1, <1>2, <1>4, <1>5 DEF DeviceShape

\* A device that has lost its session is still good.
LEMMA LoggedOutOK ==
    ASSUME DeviceOK(device)
    PROVE  DeviceOK(LoggedOut) /\ DeviceOK(Discarded)
<1>1. "PASSWORD_SET" \in Kinds /\ DOMAIN <<>> = {}
  BY EmptyFacts DEF Kinds
<1> QED BY <1>1, LoggedOutFacts DEF DeviceOK

\* Staged chunks of a device that has changed are those it had, or none.
LEMMA LosesSession ==
    ASSUME IInv, device' = LoggedOut, UNCHANGED <<host, calls>>,
           requests' = requests \/ requests' = <<>>,
           answers' = answers \/ answers' = <<>>
    PROVE  IInv'
<1>1. /\ Stage' = Stage /\ Frames' = Frames /\ NewCredential' = NewCredential
      /\ Position' = Position /\ Busy' = Busy
  <2>1. Stage' = Stage
    BY DEF Stage
  <2> QED BY <2>1 DEF Frames, NewCredential, Position, Busy
<1>2. /\ DeviceShape(LoggedOut) /\ LoggedOut.slot = device.slot
      /\ LoggedOut.dynamic = device.dynamic /\ LoggedOut.credential = device.credential
      /\ LoggedOut.session = FALSE
      /\ \A k \in Kinds : LoggedOut.tx[k] = NoTx /\ LoggedOut.tx[k].chunks = <<>>
  BY LoggedOutFacts DEF IInv, DeviceOK
<1>3. /\ \A c : CredentialOK(c)' <=> CredentialOK(c)
      /\ \A f : RequestOK(f)' <=> RequestOK(f)
      /\ \A d : DeviceOK(d)' <=> DeviceOK(d)
  BY SameCallFacts
<1>4. IsSeq(<<>>) /\ DOMAIN <<>> = {} /\ Len(<<>>) = 0
  BY EmptyFacts
<1>5. HostOK' /\ DeviceOK(device)' /\ RequestsOK'
  <2>1. HostOK'
    BY <1>1 DEF IInv, HostOK
  <2>2. DeviceOK(LoggedOut)
    BY LoggedOutOK DEF IInv
  <2>3. RequestsOK'
    BY <1>3, <1>4 DEF IInv, RequestsOK
  <2> QED BY <1>3, <2>1, <2>2, <2>3
<1>6. InTransaction' = InTransaction /\ Current' = Current
  BY <1>1 DEF InTransaction, Current
<1>7. \A op : Payload(op)' = Payload(op)
  BY <1>1 DEF Payload
<1>8. \A n : Copies(n)' = Copies(n)
  BY <1>1, <1>7 DEF Copies
<1>9. \A id : Frame(id)' = Frame(id)
  BY <1>1, <1>7 DEF Frame
<1>10. InTransaction => Len(Staging'.chunks) = 0 /\ host.at \in 1..3
  <2> SUFFICES ASSUME InTransaction PROVE Len(Staging'.chunks) = 0 /\ host.at \in 1..3
    OBVIOUS
  <2>1. Busy /\ Stage \in Transactions
    BY DEF InTransaction
  <2>2. Kind(Frames[1]) \in Kinds
    BY <2>1, FramesFacts DEF IInv, Transactions, Kinds, Kind
  <2>3. Staging' = LoggedOut.tx[Kind(Frames[1])]
    BY <1>1 DEF Staging
  <2>4. host.at \in 1..Len(Frames) /\ Len(Frames) \in 1..3
    BY <2>1, FramesFacts DEF IInv
  <2>5. host.at \in 1..3
    <3>1. \A n \in 1..3 : \A m \in 1..n : m \in 1..3
      OBVIOUS
    <3> QED BY <2>4, <3>1
  <2>6. Staging'.chunks = <<>>
    BY <1>2, <2>2, <2>3
  <2> QED BY <1>4, <2>5, <2>6
<1>11. \A a : Busy /\ Tells(a) => Tells(a)'
  <2>1. \A n : ReadAt(n)' = ReadAt(n)
    BY <1>2 DEF ReadAt
  <2> QED BY <1>1, <1>2, <1>8, <1>10, <2>1 DEF Tells, InTransaction
<1>12. MatchingRequest'
  <2>1. CASE requests' = requests
    BY <1>1, <1>6, <1>9, <2>1 DEF MatchingRequest, IInv
  <2>2. CASE requests' = <<>>
    BY <1>4, <2>2 DEF MatchingRequest
  <2> QED BY <2>1, <2>2
<1>13. MatchingAnswer'
  <2>1. CASE answers' = answers
    <3> SUFFICES ASSUME NEW i \in DOMAIN answers, answers[i].id = host.id, Current
                 PROVE  /\ host.waiting /\ i = Len(answers) /\ requests' = <<>>
                        /\ answers[i].op = Frames[host.at] /\ answers[i].from = Position
                        /\ Tells(answers[i])'
      BY <1>1, <1>6, <2>1 DEF MatchingAnswer
    <3>1. /\ host.waiting /\ i = Len(answers) /\ requests = <<>>
          /\ answers[i].op = Frames[host.at] /\ answers[i].from = Position
          /\ Tells(answers[i])
      BY DEF IInv, MatchingAnswer
    <3>2. Tells(answers[i])'
      <4>1. Busy /\ Tells(answers[i])
        BY <3>1 DEF Current
      <4>2. \A a : Busy /\ Tells(a) => Tells(a)'
        BY <1>11
      <4> QED BY <2>1, <4>1, <4>2
    <3>3. requests' = <<>>
      BY <3>1
    <3> QED BY <3>1, <3>2, <3>3
  <2>2. CASE answers' = <<>>
    BY <1>4, <2>2 DEF MatchingAnswer
  <2> QED BY <2>1, <2>2
<1>14. Transferred'
  <2> SUFFICES ASSUME InTransaction, host.at > 1 PROVE Transferred'
    BY <1>6 DEF Transferred
  <2>1. \A i \in DOMAIN requests' : requests'[i].id = host.id
    BY <1>4 DEF IInv, Transferred
  <2>2. Len(Staging'.chunks) # host.at - 1
    BY <1>10
  <2> QED BY <2>1, <2>2 DEF Transferred
<1>15. Reading'
  BY <1>1, <1>2, <1>4 DEF Reading, IInv
<1>16. Confirmed'
  BY <1>2, <1>4 DEF Confirmed, IInv
<1>17. Ended'
  <2>1. Ended
    BY DEF IInv
  <2>2. host.result = "ok" => SuccessIsTrue'
    <3> SUFFICES ASSUME host.result = "ok" PROVE SuccessIsTrue'
      OBVIOUS
    <3>1. SuccessIsTrue
      BY <2>1 DEF Ended
    <3>2. device'.slot = device.slot /\ device'.dynamic = device.dynamic
          /\ device'.credential = device.credential /\ ~device'.session
      BY <1>2
    <3>3. NewCredential' = NewCredential
      BY <1>1
    <3>4. host.op \in Simple \cup Dynamic \cup {"authenticate", "password"}
      BY <2>1, StageTable DEF Ended, IInv
    <3>5. CASE host.op \in {"set", "upload", "clear", "clear_dynamic"}
      BY <3>1, <3>2, <3>5 DEF SuccessIsTrue
    <3>6. CASE host.op \in {"get", "authenticate", "lock"}
      BY <3>1, <3>2, <3>6 DEF SuccessIsTrue
    <3>7. CASE host.op = "password"
      BY <3>1, <3>2, <3>3, <3>7 DEF SuccessIsTrue
    <3> QED BY <3>4, <3>5, <3>6, <3>7 DEF Simple, Dynamic
  <2> QED BY <1>2, <2>1, <2>2 DEF Ended
<1> QED BY <1>5, <1>12, <1>13, <1>14, <1>15, <1>16, <1>17 DEF IInv

ChunkOps == {"SET", "DYNAMIC_BEGIN", "DYNAMIC_DATA", "PASSWORD_SET"}

TxShape(t) == t = [id |-> t.id, chunks |-> t.chunks] /\ IsSeq(t.chunks)

LEMMA KindFacts ==
    /\ \A op \in ChunkOps : Kind(op) \in Kinds
    /\ Kind("SET") = "SET" /\ Kind("PASSWORD_SET") = "PASSWORD_SET"
    /\ Kind("DYNAMIC_BEGIN") = "DYNAMIC" /\ Kind("DYNAMIC_DATA") = "DYNAMIC"
    /\ "DYNAMIC" \in Kinds /\ "PASSWORD_SET" \in Kinds /\ "SET" \in Kinds
BY DEF ChunkOps, Kind, Kinds

LEMMA NoTxFacts ==
    TxShape(NoTx) /\ NoTx.chunks = <<>> /\ Len(NoTx.chunks) = 0 /\ DOMAIN NoTx.chunks = {}
<1>1. NoTx = [id |-> 0, chunks |-> <<>>] /\ NoTx.chunks = <<>>
  BY DEF NoTx
<1>2. IsSeq(<<>>) /\ Len(<<>>) = 0 /\ DOMAIN <<>> = {}
  BY EmptyFacts
<1> QED BY <1>1, <1>2 DEF TxShape

\* The transaction with this chunk continues the one with this identifier, or is none.
LEMMA StagedFacts ==
    ASSUME DeviceShape(device), NEW f, RequestOK(f), f.op \in ChunkOps, NEW t, t = Staged(f)
    PROVE  /\ TxShape(t)
           /\ \/ t = NoTx
              \/ /\ f.number = 1 /\ t.chunks = <<f.data>>
                 /\ t.id = f.id /\ Len(t.chunks) = f.number
              \/ /\ f.number > 1 /\ device.tx[Kind(f.op)].id = f.id
                 /\ Len(device.tx[Kind(f.op)].chunks) = f.number - 1
                 /\ t.chunks = Append(device.tx[Kind(f.op)].chunks, f.data)
                 /\ t.id = f.id /\ Len(t.chunks) = f.number
<1> DEFINE u == device.tx[Kind(f.op)]
<1>1. Kind(f.op) \in Kinds
  BY KindFacts
<1>2. u = [id |-> u.id, chunks |-> u.chunks] /\ IsSeq(u.chunks)
  BY <1>1 DEF DeviceShape
<1>3. f.number \in Nat /\ f.number >= 1
  BY DEF RequestOK
<1>4. CASE f.number = 1
  <2>1. t = [id |-> f.id, chunks |-> <<f.data>>]
    BY <1>4 DEF Staged
  <2>2. t.id = f.id /\ t.chunks = <<f.data>>
    BY <2>1
  <2> QED BY <1>4, <2>1, <2>2, SingleFacts DEF TxShape
<1>5. CASE f.number > 1 /\ u.id = f.id /\ Len(u.chunks) = f.number - 1
  <2>1. f.number # 1
    BY <1>5
  <2>2. t = [u EXCEPT !.chunks = Append(@, f.data)]
    BY <1>5, <2>1 DEF Staged
  <2> HIDE DEF u
  <2>3. t = [id |-> u.id, chunks |-> Append(u.chunks, f.data)]
    BY <1>2, <2>2
  <2>4. t.id = f.id /\ t.chunks = Append(u.chunks, f.data)
    BY <1>5, <2>3
  <2>5. IsSeq(t.chunks) /\ Len(t.chunks) = Len(u.chunks) + 1
    BY <1>2, <2>4, AppendFacts
  <2>6. Len(t.chunks) = f.number
    <3>1. \A n \in Nat : n - 1 + 1 = n
      OBVIOUS
    <3> QED BY <1>3, <1>5, <2>5, <3>1
  <2>7. TxShape(t)
    BY <2>3, <2>4, <2>5 DEF TxShape
  <2> QED BY <1>5, <2>4, <2>6, <2>7 DEF u
<1>6. CASE ~(f.number = 1) /\ ~(f.number > 1 /\ u.id = f.id /\ Len(u.chunks) = f.number - 1)
  <2>1. t = NoTx
    BY <1>6 DEF Staged
  <2> QED BY <2>1, NoTxFacts
<1> QED BY <1>4, <1>5, <1>6

LEMMA KeptFacts ==
    ASSUME DeviceShape(device), NEW f, f.op \in ChunkOps, NEW t, TxShape(t),
           NEW d, d = Kept(f, t)
    PROVE  /\ DeviceShape(d) /\ d.slot = device.slot /\ d.dynamic = device.dynamic
           /\ d.credential = device.credential /\ d.session = device.session
           /\ d.tx[Kind(f.op)] = t
           /\ \A k \in Kinds : k # Kind(f.op) => d.tx[k] = device.tx[k]
           /\ d = [slot |-> device.slot, dynamic |-> device.dynamic,
                   credential |-> device.credential, session |-> device.session,
                   nonce |-> device.nonce, tx |-> [device.tx EXCEPT ![Kind(f.op)] = t]]
<1> DEFINE x == [device.tx EXCEPT ![Kind(f.op)] = t]
<1>1. Kind(f.op) \in Kinds
  BY KindFacts
<1>2. device = [slot |-> device.slot, dynamic |-> device.dynamic,
                credential |-> device.credential, session |-> device.session,
                nonce |-> device.nonce, tx |-> device.tx]
  BY DEF DeviceShape
<1>3. device.tx = [k \in Kinds |-> [id |-> device.tx[k].id, chunks |-> device.tx[k].chunks]]
  BY DEF DeviceShape
<1>4. /\ x[Kind(f.op)] = t /\ \A k \in Kinds : k # Kind(f.op) => x[k] = device.tx[k]
      /\ x = [k \in Kinds |-> x[k]]
  BY <1>1, <1>3
<1>5. \A k \in Kinds : TxShape(x[k])
  BY <1>3, <1>4 DEF TxShape, DeviceShape
<1>6. x = [k \in Kinds |-> [id |-> x[k].id, chunks |-> x[k].chunks]]
  BY <1>4, <1>5 DEF TxShape
<1>7. d = [device EXCEPT !.tx = x]
  BY DEF Kept
<1> HIDE DEF x
<1>8. d = [slot |-> device.slot, dynamic |-> device.dynamic,
           credential |-> device.credential, session |-> device.session,
           nonce |-> device.nonce, tx |-> x]
  BY <1>2, <1>7
<1>9. DeviceShape(d)
  BY <1>5, <1>6, <1>8 DEF DeviceShape, TxShape
<1> QED BY <1>4, <1>8, <1>9 DEF x

LEMMA CommittedFacts ==
    ASSUME DeviceShape(device), NEW f, RequestOK(f), f.op \in ChunkOps, f.op # "DYNAMIC_BEGIN",
           NEW t, t = Staged(f), TxShape(t), NEW d, d = Committed(f)
    PROVE  /\ DeviceShape(d)
           /\ d.slot = IF f.op = "SET" THEN t.chunks ELSE device.slot
           /\ d.dynamic = IF f.op = "DYNAMIC_DATA" THEN Tail(t.chunks) ELSE device.dynamic
           /\ d.credential = IF f.op = "PASSWORD_SET" THEN t.chunks[1] ELSE device.credential
           /\ d.tx[Kind(f.op)].chunks = <<>>
           /\ \A k \in Kinds : d.tx[k] = device.tx[k] \/ d.tx[k].chunks = <<>>
<1> DEFINE e == Kept(f, NoTx)
           x == [device.tx EXCEPT ![Kind(f.op)] = NoTx]
<1>1. /\ DeviceShape(e)
      /\ e = [slot |-> device.slot, dynamic |-> device.dynamic,
              credential |-> device.credential, session |-> device.session,
              nonce |-> device.nonce, tx |-> x]
      /\ e.tx = x /\ x[Kind(f.op)] = NoTx
      /\ \A k \in Kinds : k # Kind(f.op) => x[k] = device.tx[k]
  <2>1. /\ DeviceShape(e) /\ e.tx[Kind(f.op)] = NoTx
        /\ \A k \in Kinds : k # Kind(f.op) => e.tx[k] = device.tx[k]
        /\ e = [slot |-> device.slot, dynamic |-> device.dynamic,
                credential |-> device.credential, session |-> device.session,
                nonce |-> device.nonce, tx |-> x]
    BY NoTxFacts, KeptFacts
  <2> HIDE DEF e, x
  <2>2. e.tx = x
    BY <2>1
  <2> QED BY <2>1, <2>2
<1>2. NoTx.chunks = <<>> /\ Kind(f.op) \in Kinds
  BY NoTxFacts, KindFacts
<1>3. CASE f.op = "SET"
  <2>1. d = [e EXCEPT !.slot = t.chunks]
    BY <1>3 DEF Committed
  <2> HIDE DEF e, x
  <2>2. d = [slot |-> t.chunks, dynamic |-> device.dynamic,
             credential |-> device.credential, session |-> device.session,
             nonce |-> device.nonce, tx |-> x]
    BY <1>1, <2>1
  <2>3. DeviceShape(d)
    BY <1>1, <2>2 DEF DeviceShape, TxShape
  <2> QED BY <1>1, <1>2, <1>3, <2>2, <2>3
<1>4. CASE f.op = "DYNAMIC_DATA"
  <2>1. d = [e EXCEPT !.dynamic = Tail(t.chunks)]
    BY <1>4 DEF Committed
  <2> HIDE DEF e, x
  <2>2. d = [slot |-> device.slot, dynamic |-> Tail(t.chunks),
             credential |-> device.credential, session |-> device.session,
             nonce |-> device.nonce, tx |-> x]
    BY <1>1, <2>1
  <2>3. DeviceShape(d)
    BY <1>1, <2>2 DEF DeviceShape
  <2> QED BY <1>1, <1>2, <1>4, <2>2, <2>3
<1>5. CASE f.op = "PASSWORD_SET"
  <2>1. d = [LoggedOut EXCEPT !.credential = t.chunks[1]]
    BY <1>5 DEF Committed
  <2>2. /\ DeviceShape(LoggedOut) /\ LoggedOut.slot = device.slot
        /\ LoggedOut.dynamic = device.dynamic
        /\ \A k \in Kinds : LoggedOut.tx[k].chunks = <<>>
    BY LoggedOutFacts
  <2>3. d = [slot |-> device.slot, dynamic |-> device.dynamic,
             credential |-> t.chunks[1], session |-> LoggedOut.session,
             nonce |-> LoggedOut.nonce, tx |-> LoggedOut.tx]
    BY <2>1, <2>2 DEF DeviceShape
  <2>4. DeviceShape(d)
    BY <2>2, <2>3 DEF DeviceShape
  <2> QED BY <1>2, <1>5, <2>2, <2>3, <2>4
<1> QED BY <1>3, <1>4, <1>5 DEF ChunkOps

\* What can become of a chunk.
LEMMA ChunkOutcomeFacts ==
    ASSUME DeviceShape(device), NEW f, RequestOK(f), f.op \in ChunkOps,
           NEW o \in ChunkOutcomes(f), NEW t, t = Staged(f)
    PROVE  \/ o.device = Kept(f, NoTx) /\ o.status # "OK"
           \/ /\ Len(t.chunks) = f.number /\ f.number < f.total /\ t # NoTx
              /\ o.device = Kept(f, t) /\ o.status = "OK" /\ o.value = f.number
           \/ /\ Len(t.chunks) = f.number /\ f.number = f.total /\ t # NoTx
              /\ f.op # "DYNAMIC_BEGIN"
              /\ o.device = Committed(f) /\ (o.status = "OK" => o.value = f.number)
<1> DEFINE n == Len(t.chunks)
<1>1. /\ TxShape(t)
      /\ \/ t = NoTx
         \/ t # NoTx /\ n = f.number
  <2>1. TxShape(t) /\ (t = NoTx \/ n = f.number)
    BY StagedFacts
  <2> QED BY <2>1
<1>2. f.number \in Nat /\ f.total \in Nat /\ f.number >= 1 /\ f.number <= f.total
  BY DEF RequestOK
<1>3. \A d, s, v : Outcome(d, s, v).device = d /\ Outcome(d, s, v).status = s
                   /\ Outcome(d, s, v).value = v
  BY DEF Outcome
<1>4. CASE t = NoTx
  <2>1. n = 0 /\ n \notin 1..f.total - 1 /\ n # f.total
    <3>1. n = 0
      BY <1>4, NoTxFacts
    <3>2. 0 \notin 1..f.total - 1 /\ 0 # f.total
      BY <1>2
    <3> QED BY <3>1, <3>2
  <2>2. o = Outcome(Kept(f, NoTx), "BAD_REQUEST", 0)
    BY <2>1 DEF ChunkOutcomes
  <2> QED BY <1>3, <2>2
<1>5. CASE t # NoTx /\ n = f.number /\ f.number < f.total
  <2>1. n # 0 /\ n \in 1..f.total - 1
    BY <1>2, <1>5
  <2>2. n # f.total
    BY <1>2, <1>5
  <2>3. o = Outcome(Kept(f, t), "OK", n)
    BY <2>1, <2>2 DEF ChunkOutcomes
  <2> QED BY <1>3, <1>5, <2>3
<1>6. CASE t # NoTx /\ n = f.number /\ ~(f.number < f.total)
  <2>1. n # 0 /\ n \notin 1..f.total - 1 /\ n = f.total
    BY <1>2, <1>6
  <2>2. o \in {Outcome(Committed(f), "OK", n)} \cup NotSaved(f)
    BY <2>1 DEF ChunkOutcomes
  <2>3. f.op # "DYNAMIC_BEGIN"
    BY <1>2, <2>1, <1>6 DEF RequestOK
  <2>4. o = Outcome(Committed(f), "OK", n) \/ o = Outcome(Committed(f), "STORAGE_ERROR", 0)
        \/ o = Outcome(Kept(f, NoTx), "STORAGE_ERROR", 0)
    BY <2>2, <2>3 DEF NotSaved, ChunkOps
  <2> QED BY <1>2, <1>3, <1>6, <2>1, <2>3, <2>4
<1> QED BY <1>1, <1>4, <1>5, <1>6

\* What can become of a request, by its operation.
LEMMA OutcomesFacts ==
    ASSUME NEW f, f.op \in Ops, NEW o \in Outcomes(f)
    PROVE  \/ o.device = Discarded /\ o.status # "OK"
              /\ f.op \in {"SET", "GET", "CLEAR", "PASSWORD_SET"}
           \/ f.op \in ChunkOps /\ o \in ChunkOutcomes(f)
           \/ f.op = "GET" /\ o.device = device /\ o.status = "OK"
              /\ o.value = [total |-> Len(device.slot), chunk |-> ReadAt(f.number)]
           \/ f.op = "CLEAR" /\ o.device = [device EXCEPT !.slot = <<>>]
           \/ f.op = "DYNAMIC_CLEAR"
              /\ o.device = [device EXCEPT !.dynamic = <<>>, !.tx["DYNAMIC"] = NoTx]
           \/ f.op = "CAPABILITIES" /\ o.device = device
           \/ f.op = "LOCK" /\ o.device = LoggedOut
           \/ f.op = "AUTH_INFO" /\ o.device = device /\ o.value.salt = device.credential.salt
           \/ f.op = "AUTH_CHALLENGE"
              /\ o.device \in {device, [device EXCEPT !.nonce = f.from]}
           \/ /\ f.op = "AUTH_PROVE"
              /\ \E good \in BOOLEAN :
                     /\ o.device = [LoggedOut EXCEPT !.session = good]
                     /\ o.status = "OK" => f.data.credential = device.credential
<1>3. \A d, s, v : Outcome(d, s, v).device = d /\ Outcome(d, s, v).status = s
                   /\ Outcome(d, s, v).value = v
  BY DEF Outcome
<1>4. CASE f.op \in {"SET", "GET", "CLEAR", "PASSWORD_SET"} /\ ~Allowed
  <2>1. o = Outcome(Discarded, "AUTH_REQUIRED", 0)
    BY <1>4 DEF Outcomes
  <2> QED BY <1>3, <1>4, <2>1
<1>5. CASE f.op = "GET" /\ Allowed
  <2>1. o = Outcome(device, "OK", [total |-> Len(device.slot), chunk |-> ReadAt(f.number)])
    BY <1>5 DEF Outcomes
  <2> QED BY <1>3, <1>5, <2>1
<1>6. CASE f.op = "CLEAR" /\ Allowed
  <2>1. \E s : o = Outcome([device EXCEPT !.slot = <<>>], s, 0)
    BY <1>6 DEF Outcomes
  <2> QED BY <1>3, <1>6, <2>1
<1>7. CASE f.op \in {"SET", "PASSWORD_SET"} /\ Allowed
  <2>1. o \in ChunkOutcomes(f)
    BY <1>7 DEF Outcomes
  <2> QED BY <1>7, <2>1 DEF ChunkOps
<1>8. CASE f.op \in {"DYNAMIC_BEGIN", "DYNAMIC_DATA"}
  <2>1. o \in ChunkOutcomes(f)
    BY <1>8 DEF Outcomes
  <2> QED BY <1>8, <2>1 DEF ChunkOps
<1>9. CASE f.op = "DYNAMIC_CLEAR"
  <2>1. o = Outcome([device EXCEPT !.dynamic = <<>>, !.tx["DYNAMIC"] = NoTx], "OK", 0)
    BY <1>9 DEF Outcomes
  <2> QED BY <1>3, <1>9, <2>1
<1>10. CASE f.op = "CAPABILITIES"
  <2>1. o = Outcome(device, "OK", 0)
    BY <1>10 DEF Outcomes
  <2> QED BY <1>3, <1>10, <2>1
<1>11. CASE f.op = "LOCK"
  <2>1. o = Outcome(LoggedOut, "OK", 0)
    BY <1>11 DEF Outcomes
  <2> QED BY <1>3, <1>11, <2>1
<1>12. CASE f.op = "AUTH_INFO"
  <2>1. o = Outcome(device, "OK", [configured |-> device.credential # Nothing,
                                   authenticated |-> device.session,
                                   salt |-> device.credential.salt])
    BY <1>12 DEF Outcomes
  <2> QED BY <1>3, <1>12, <2>1
<1>13. CASE f.op = "AUTH_CHALLENGE"
  <2>1. \/ o = Outcome(device, "AUTH_NOT_CONFIGURED", 0)
        \/ o = Outcome([device EXCEPT !.nonce = f.from], "OK", f.from)
    BY <1>13 DEF Outcomes
  <2> QED BY <1>3, <1>13, <2>1
<1>14. CASE f.op = "AUTH_PROVE"
  <2> DEFINE good == device.nonce # <<>> /\ f.data = [credential |-> device.credential,
                                                     nonce |-> device.nonce]
  <2>1. o = Outcome([LoggedOut EXCEPT !.session = good],
                    IF good THEN "OK" ELSE "AUTH_FAILED", 0)
    BY <1>14 DEF Outcomes, ProofOutcome
  <2>2. good \in BOOLEAN /\ (good => f.data.credential = device.credential)
    OBVIOUS
  <2> HIDE DEF good
  <2>3. o.device = [LoggedOut EXCEPT !.session = good] /\ (o.status = "OK" => good)
    BY <1>3, <2>1
  <2> QED BY <1>14, <2>2, <2>3
<1> QED BY <1>4, <1>5, <1>6, <1>7, <1>8, <1>9, <1>10, <1>11, <1>12, <1>13, <1>14 DEF Ops

\* A device that differs in what no credential and no slot depends on.
LEMMA DeviceOKIntro ==
    ASSUME DeviceOK(device), NEW d, DeviceShape(d), Len(d.slot) <= 2,
           CredentialOK(d.credential),
           LET new == d.tx["PASSWORD_SET"].chunks
               old == device.tx["PASSWORD_SET"].chunks
           IN  new = old \/ \A i \in DOMAIN new : CredentialOK(new[i])
    PROVE  DeviceOK(d)
BY DEF DeviceOK

\* Whatever request is served, the device stays good, and only some requests change the slot
\* or the credential.
LEMMA ChunkKeepsOK ==
    ASSUME DeviceOK(device), NEW f, RequestOK(f), f.op \in ChunkOps, NEW o \in ChunkOutcomes(f)
    PROVE  /\ DeviceOK(o.device)
           /\ f.op # "SET" => o.device.slot = device.slot
           /\ f.op # "PASSWORD_SET" => o.device.credential = device.credential
<1> DEFINE t == Staged(f)
           K == Kind(f.op)
           P == device.tx["PASSWORD_SET"].chunks
<1>1. /\ DeviceShape(device) /\ Len(device.slot) <= 2 /\ CredentialOK(device.credential)
      /\ \A i \in DOMAIN P : CredentialOK(P[i])
  BY DEF DeviceOK
<1>2. /\ TxShape(t)
      /\ \/ t = NoTx
         \/ /\ f.number = 1 /\ t.chunks = <<f.data>>
            /\ t.id = f.id /\ Len(t.chunks) = f.number
         \/ /\ f.number > 1 /\ device.tx[K].id = f.id
            /\ Len(device.tx[K].chunks) = f.number - 1
            /\ t.chunks = Append(device.tx[K].chunks, f.data)
            /\ t.id = f.id /\ Len(t.chunks) = f.number
  BY <1>1, StagedFacts
<1>3. K \in Kinds /\ "PASSWORD_SET" \in Kinds
      /\ (K = "PASSWORD_SET" <=> f.op = "PASSWORD_SET")
  BY KindFacts DEF ChunkOps
<1>4. /\ TxShape(NoTx) /\ NoTx.chunks = <<>> /\ DOMAIN NoTx.chunks = {} /\ DOMAIN <<>> = {}
  BY NoTxFacts, EmptyFacts
<1>5. /\ \/ o.device = Kept(f, NoTx) /\ o.status # "OK"
         \/ /\ Len(t.chunks) = f.number /\ f.number < f.total /\ t # NoTx
            /\ o.device = Kept(f, t) /\ o.status = "OK" /\ o.value = f.number
         \/ /\ Len(t.chunks) = f.number /\ f.number = f.total /\ t # NoTx
            /\ f.op # "DYNAMIC_BEGIN"
            /\ o.device = Committed(f) /\ (o.status = "OK" => o.value = f.number)
  BY <1>1, ChunkOutcomeFacts
<1>6. f.op = "PASSWORD_SET" => \A i \in DOMAIN t.chunks : CredentialOK(t.chunks[i])
  <2> SUFFICES ASSUME f.op = "PASSWORD_SET"
               PROVE  \A i \in DOMAIN t.chunks : CredentialOK(t.chunks[i])
    OBVIOUS
  <2>1. CredentialOK(f.data) /\ K = "PASSWORD_SET" /\ IsSeq(P)
    BY <1>1, <1>3 DEF RequestOK, DeviceShape
  <2>2. CASE t = NoTx
    BY <1>4, <2>2
  <2>3. CASE t.chunks = <<f.data>>
    BY <2>1, <2>3, SingleFacts
  <2>4. CASE t.chunks = Append(P, f.data)
    <3> HIDE DEF P, t
    <3>1. \A i \in DOMAIN Append(P, f.data) :
              \/ i \in DOMAIN P /\ Append(P, f.data)[i] = P[i]
              \/ Append(P, f.data)[i] = f.data
      BY <2>1, AppendFacts
    <3> QED BY <1>1, <2>1, <2>4, <3>1
  <2> QED BY <1>2, <2>1, <2>2, <2>3, <2>4
<1> HIDE DEF t
<1>7. ASSUME NEW u, TxShape(u), u = NoTx \/ u = t, NEW d, d = Kept(f, u)
      PROVE  /\ DeviceOK(d) /\ d.slot = device.slot /\ d.credential = device.credential
  <2>1. /\ DeviceShape(d) /\ d.slot = device.slot /\ d.credential = device.credential
        /\ d.tx[K] = u /\ \A k \in Kinds : k # K => d.tx[k] = device.tx[k]
    BY <1>1, <1>7, KeptFacts
  <2>2. CASE f.op = "PASSWORD_SET"
    <3>1. d.tx["PASSWORD_SET"] = u
      BY <1>3, <2>1, <2>2
    <3>2. \A i \in DOMAIN u.chunks : CredentialOK(u.chunks[i])
      BY <1>4, <1>6, <1>7, <2>2
    <3> QED BY <1>1, <2>1, <3>1, <3>2, DeviceOKIntro
  <2>3. CASE f.op # "PASSWORD_SET"
    <3>1. d.tx["PASSWORD_SET"] = device.tx["PASSWORD_SET"]
      BY <1>3, <2>1, <2>3
    <3> QED BY <1>1, <2>1, <3>1, DeviceOKIntro
  <2> QED BY <2>2, <2>3
<1>8. CASE o.device = Kept(f, NoTx)
  BY <1>4, <1>7, <1>8
<1>9. CASE o.device = Kept(f, t)
  BY <1>2, <1>7, <1>9
<1>10. CASE o.device = Committed(f) /\ Len(t.chunks) = f.total /\ f.op # "DYNAMIC_BEGIN"
  <2> DEFINE d == o.device
  <2>1. /\ DeviceShape(d)
        /\ d.slot = IF f.op = "SET" THEN t.chunks ELSE device.slot
        /\ d.dynamic = IF f.op = "DYNAMIC_DATA" THEN Tail(t.chunks) ELSE device.dynamic
        /\ d.credential = IF f.op = "PASSWORD_SET" THEN t.chunks[1] ELSE device.credential
        /\ d.tx[K].chunks = <<>>
        /\ \A k \in Kinds : d.tx[k] = device.tx[k] \/ d.tx[k].chunks = <<>>
    BY <1>1, <1>2, <1>10, CommittedFacts DEF t
  <2>2. Len(d.slot) <= 2
    <3>1. f.op = "SET" => f.total <= 2
      BY DEF RequestOK
    <3> QED BY <1>1, <1>10, <2>1, <3>1
  <2>3. CredentialOK(d.credential)
    <3>1. CASE f.op = "PASSWORD_SET"
      <4>1. f.total \in 1..3
        BY DEF RequestOK
      <4>2. DOMAIN t.chunks = 1..Len(t.chunks)
        BY <1>2, IsSeqFacts DEF TxShape
      <4>3. \A n \in 1..3 : 1 \in 1..n
        OBVIOUS
      <4>4. 1 \in DOMAIN t.chunks
        BY <1>10, <4>1, <4>2, <4>3
      <4> QED BY <1>6, <2>1, <3>1, <4>4
    <3>2. CASE f.op # "PASSWORD_SET"
      BY <1>1, <2>1, <3>2
    <3> QED BY <3>1, <3>2
  <2>4. d.tx["PASSWORD_SET"].chunks = device.tx["PASSWORD_SET"].chunks
        \/ d.tx["PASSWORD_SET"].chunks = <<>>
    BY <1>3, <2>1
  <2>5. DeviceOK(d)
    BY <1>4, <2>1, <2>2, <2>3, <2>4, DeviceOKIntro
  <2> QED BY <2>1, <2>5
<1> QED BY <1>5, <1>8, <1>9, <1>10

LEMMA OutcomeKeepsOK ==
    ASSUME DeviceOK(device), NEW f, RequestOK(f), NEW o \in Outcomes(f)
    PROVE  /\ DeviceOK(o.device)
           /\ f.op \notin {"SET", "CLEAR"} => o.device.slot = device.slot
           /\ f.op # "PASSWORD_SET" => o.device.credential = device.credential
           /\ f.op = "CLEAR" /\ o.status = "OK" => o.device.slot = <<>>
           /\ f.op = "DYNAMIC_CLEAR" => o.device.dynamic = <<>>
           /\ f.op = "LOCK" => ~o.device.session
<1> DEFINE d == o.device
           P == device.tx["PASSWORD_SET"].chunks
<1>1. /\ DeviceShape(device) /\ Len(device.slot) <= 2 /\ CredentialOK(device.credential)
      /\ \A i \in DOMAIN P : CredentialOK(P[i])
      /\ device = [slot |-> device.slot, dynamic |-> device.dynamic,
                   credential |-> device.credential, session |-> device.session,
                   nonce |-> device.nonce, tx |-> device.tx]
  BY DEF DeviceOK, DeviceShape
<1>2. IsSeq(<<>>) /\ Len(<<>>) = 0 /\ DOMAIN <<>> = {} /\ "PASSWORD_SET" \in Kinds
  BY EmptyFacts, KindFacts
<1>3. /\ DeviceShape(LoggedOut) /\ LoggedOut.slot = device.slot
      /\ LoggedOut.dynamic = device.dynamic /\ LoggedOut.credential = device.credential
      /\ LoggedOut.session = FALSE
      /\ \A k \in Kinds : LoggedOut.tx[k] = NoTx /\ LoggedOut.tx[k].chunks = <<>>
      /\ Discarded.slot = device.slot /\ Discarded.credential = device.credential
  BY <1>1, LoggedOutFacts
<1>4. DeviceOK(LoggedOut) /\ DeviceOK(Discarded)
  BY LoggedOutOK
<1>5. f.op \in Ops
  BY DEF RequestOK
<1>6. /\ \/ d = Discarded /\ o.status # "OK"
            /\ f.op \in {"SET", "GET", "CLEAR", "PASSWORD_SET"}
         \/ f.op \in ChunkOps /\ o \in ChunkOutcomes(f)
         \/ f.op = "GET" /\ d = device
         \/ f.op = "CLEAR" /\ d = [device EXCEPT !.slot = <<>>]
         \/ f.op = "DYNAMIC_CLEAR"
            /\ d = [device EXCEPT !.dynamic = <<>>, !.tx["DYNAMIC"] = NoTx]
         \/ f.op = "CAPABILITIES" /\ d = device
         \/ f.op = "LOCK" /\ d = LoggedOut
         \/ f.op = "AUTH_INFO" /\ d = device
         \/ f.op = "AUTH_CHALLENGE" /\ d \in {device, [device EXCEPT !.nonce = f.from]}
         \/ f.op = "AUTH_PROVE" /\ \E good \in BOOLEAN : d = [LoggedOut EXCEPT !.session = good]
  BY <1>5, OutcomesFacts, ZenonT(20)
<1>7. CASE d = Discarded /\ o.status # "OK" /\ f.op \in {"SET", "GET", "CLEAR", "PASSWORD_SET"}
  BY <1>3, <1>4, <1>7
<1>8. CASE f.op \in ChunkOps /\ o \in ChunkOutcomes(f)
  BY <1>8, ChunkKeepsOK DEF ChunkOps
<1>9. CASE f.op \in {"GET", "CAPABILITIES", "AUTH_INFO", "AUTH_CHALLENGE"} /\ d = device
  BY <1>9
<1>10. CASE f.op = "CLEAR" /\ d = [device EXCEPT !.slot = <<>>]
  <2> HIDE DEF d
  <2>1. d = [slot |-> <<>>, dynamic |-> device.dynamic,
             credential |-> device.credential, session |-> device.session,
             nonce |-> device.nonce, tx |-> device.tx]
    BY <1>1, <1>10
  <2>2. d.slot = <<>> /\ d.credential = device.credential /\ d.tx = device.tx
    BY <2>1
  <2>3. DeviceShape(d)
    BY <1>1, <1>2, <2>1, <2>2 DEF DeviceShape
  <2>4. DeviceOK(d)
    BY <1>1, <1>2, <2>2, <2>3, DeviceOKIntro
  <2> QED BY <1>10, <2>2, <2>4 DEF d
<1>11. CASE f.op = "DYNAMIC_CLEAR"
            /\ d = [device EXCEPT !.dynamic = <<>>, !.tx["DYNAMIC"] = NoTx]
  <2> HIDE DEF d
  <2> DEFINE x == [device.tx EXCEPT !["DYNAMIC"] = NoTx]
             e == [device EXCEPT !.dynamic = <<>>]
  <2>1. e = [slot |-> device.slot, dynamic |-> <<>>,
             credential |-> device.credential, session |-> device.session,
             nonce |-> device.nonce, tx |-> device.tx]
    BY <1>1
  <2>2. d = [e EXCEPT !.tx = [e.tx EXCEPT !["DYNAMIC"] = NoTx]]
    BY <1>11
  <2>3. TxShape(NoTx) /\ "DYNAMIC" \in Kinds
    BY NoTxFacts, KindFacts
  <2>4. /\ \A k \in Kinds : TxShape(x[k])
        /\ x = [k \in Kinds |-> x[k]] /\ x["PASSWORD_SET"] = device.tx["PASSWORD_SET"]
    BY <1>1, <1>2, <2>3 DEF DeviceShape, TxShape
  <2>5. x = [k \in Kinds |-> [id |-> x[k].id, chunks |-> x[k].chunks]]
    BY <2>4 DEF TxShape
  <2>6. e.tx = device.tx
    BY <2>1
  <2> HIDE DEF e
  <2>7. d = [e EXCEPT !.tx = x]
    BY <2>2, <2>6
  <2> HIDE DEF x
  <2>8. d = [slot |-> device.slot, dynamic |-> <<>>,
             credential |-> device.credential, session |-> device.session,
             nonce |-> device.nonce, tx |-> x]
    BY <2>1, <2>7
  <2>9. /\ d.slot = device.slot /\ d.credential = device.credential /\ d.tx = x
        /\ d.dynamic = <<>>
    BY <2>8
  <2>10. DeviceShape(d)
    BY <1>1, <2>4, <2>5, <2>8, <2>9 DEF DeviceShape, TxShape
  <2>11. DeviceOK(d)
    BY <1>1, <2>4, <2>9, <2>10, DeviceOKIntro
  <2> QED BY <1>11, <2>9, <2>11 DEF d
<1>12. CASE f.op = "LOCK" /\ d = LoggedOut
  BY <1>3, <1>4, <1>12
<1>13. CASE f.op = "AUTH_CHALLENGE" /\ d = [device EXCEPT !.nonce = f.from]
  <2> HIDE DEF d
  <2>1. d = [slot |-> device.slot, dynamic |-> device.dynamic,
             credential |-> device.credential, session |-> device.session,
             nonce |-> f.from, tx |-> device.tx]
    BY <1>1, <1>13
  <2>2. d.slot = device.slot /\ d.credential = device.credential /\ d.tx = device.tx
    BY <2>1
  <2>3. DeviceShape(d)
    BY <1>1, <2>1, <2>2 DEF DeviceShape
  <2>4. DeviceOK(d)
    BY <1>1, <2>2, <2>3, DeviceOKIntro
  <2> QED BY <1>13, <2>2, <2>4 DEF d
<1>14. CASE f.op = "AUTH_PROVE" /\ \E good : d = [LoggedOut EXCEPT !.session = good]
  <2> HIDE DEF d
  <2>1. PICK good : d = [LoggedOut EXCEPT !.session = good]
    BY <1>14
  <2>2. LoggedOut = [slot |-> LoggedOut.slot, dynamic |-> LoggedOut.dynamic,
                     credential |-> LoggedOut.credential, session |-> LoggedOut.session,
                     nonce |-> LoggedOut.nonce, tx |-> LoggedOut.tx]
    BY <1>3 DEF DeviceShape
  <2>3. d = [slot |-> LoggedOut.slot, dynamic |-> LoggedOut.dynamic,
             credential |-> LoggedOut.credential, session |-> good,
             nonce |-> LoggedOut.nonce, tx |-> LoggedOut.tx]
    BY <2>1, <2>2
  <2>4. /\ d.slot = device.slot /\ d.credential = device.credential /\ d.tx = LoggedOut.tx
    BY <1>3, <2>3
  <2>5. DeviceShape(d)
    BY <1>3, <2>3, <2>4 DEF DeviceShape
  <2>6. DeviceOK(d)
    BY <1>1, <1>2, <1>3, <2>4, <2>5, DeviceOKIntro
  <2> QED BY <1>14, <2>4, <2>6 DEF d
<1> QED BY <1>6, <1>7, <1>8, <1>9, <1>10, <1>11, <1>12, <1>13, <1>14

\* The frames of a transaction are staged together and have one payload.
LEMMA TransactionFacts ==
    ASSUME HostOK, Busy, Stage \in Transactions
    PROVE  /\ Frames[host.at] \in ChunkOps /\ Frames[1] \in ChunkOps
           /\ Kind(Frames[host.at]) = Kind(Frames[1]) /\ Kind(Frames[1]) \in Kinds
           /\ Payload(Frames[host.at]) = Payload(Frames[1])
           /\ Stage = "set" => Payload(Frames[1]) = host.data /\ Frames[host.at] = "SET"
           /\ Stage = "upload" => Payload(Frames[1]) = host.data
           /\ Stage = "password" =>
                  Payload(Frames[1]) = NewCredential /\ Frames[host.at] = "PASSWORD_SET"
           /\ host.at \in 1..3 /\ Len(Frames) \in 1..3 /\ host.at <= Len(Frames)
<1>1. host.at \in 1..Len(Frames) /\ Len(Frames) \in 1..3
  BY FramesFacts
<1>2. host.at \in 1..3 /\ host.at <= Len(Frames)
  <2>1. \A n \in 1..3 : \A m \in 1..n : m \in 1..3 /\ m <= n
    OBVIOUS
  <2> QED BY <1>1, <2>1
<1>3. CASE Stage = "set"
  <2>1. Frames[1] = "SET" /\ Frames[host.at] = "SET"
    BY <1>3, FramesFacts
  <2> QED BY <1>1, <1>2, <1>3, <2>1 DEF Payload, Kind, Kinds, ChunkOps
<1>4. CASE Stage = "upload"
  <2>1. Frames[1] = "DYNAMIC_BEGIN" /\ (host.at > 1 => Frames[host.at] = "DYNAMIC_DATA")
    BY <1>4, FramesFacts
  <2>2. Frames[host.at] \in {"DYNAMIC_BEGIN", "DYNAMIC_DATA"}
    BY <1>2, <2>1
  <2> QED BY <1>1, <1>2, <1>4, <2>1, <2>2 DEF Payload, Kind, Kinds, ChunkOps
<1>5. CASE Stage = "password"
  <2>1. Frames[1] = "PASSWORD_SET" /\ Frames[host.at] = "PASSWORD_SET"
    BY <1>5, FramesFacts
  <2> QED BY <1>1, <1>2, <1>5, <2>1 DEF Payload, Kind, Kinds, ChunkOps
<1> QED BY <1>3, <1>4, <1>5 DEF Transactions

\* What the device stages for the frame under way are copies of the payload.
LEMMA StagedCopies ==
    ASSUME IInv, Busy, Stage \in Transactions,
           NEW f, f = Frame(host.id), NEW t, t = Staged(f), t # NoTx
    PROVE  t.chunks = Copies(host.at) /\ t.id = host.id
<1>1. /\ f.op = Frames[host.at] /\ f.id = host.id /\ f.number = host.at
      /\ f.data = Payload(Frames[host.at]) /\ RequestOK(f)
  BY FrameFacts DEF IInv
<1>2. /\ Frames[host.at] \in ChunkOps /\ Kind(Frames[host.at]) = Kind(Frames[1])
      /\ Payload(Frames[host.at]) = Payload(Frames[1]) /\ host.at \in 1..3
  BY TransactionFacts DEF IInv
<1>3. /\ TxShape(t)
      /\ \/ /\ f.number = 1 /\ t.chunks = <<f.data>>
            /\ t.id = f.id /\ Len(t.chunks) = f.number
         \/ /\ f.number > 1 /\ device.tx[Kind(f.op)].id = f.id
            /\ Len(device.tx[Kind(f.op)].chunks) = f.number - 1
            /\ t.chunks = Append(device.tx[Kind(f.op)].chunks, f.data)
            /\ t.id = f.id /\ Len(t.chunks) = f.number
  BY <1>1, <1>2, StagedFacts DEF IInv, DeviceOK
<1> DEFINE p == Payload(Frames[1])
<1> HIDE DEF p
<1>4. \A n : Copies(n) = [i \in 1..n |-> p]
  BY DEF Copies, p
<1>5. CASE host.at = 1
  <2>1. t.chunks = <<p>>
    BY <1>1, <1>2, <1>3, <1>5 DEF p
  <2>2. <<p>> = [i \in 1..1 |-> p]
    <3> DEFINE u == [i \in 1..1 |-> p]
    <3>1. u \in Seq({p}) /\ Len(u) = 1 /\ u[1] = p
      OBVIOUS
    <3> HIDE DEF u
    <3>2. IsSeq(u)
      BY <3>1, IsSeqIntro
    <3>3. u = <<p>>
      BY <3>1, <3>2, SeqOfTwo
    <3> QED BY <3>3 DEF u
  <2>3. Copies(host.at) = [i \in 1..1 |-> p]
    BY <1>4, <1>5
  <2> QED BY <1>1, <1>3, <2>1, <2>2, <2>3
<1>6. CASE host.at > 1
  <2>1. /\ Staging.id = host.id /\ Len(Staging.chunks) = host.at - 1
        /\ t.chunks = Append(Staging.chunks, p)
    <3>1. f.number > 1 /\ f.number # 1
      BY <1>1, <1>2, <1>6
    <3>2. /\ device.tx[Kind(f.op)].id = f.id
          /\ Len(device.tx[Kind(f.op)].chunks) = f.number - 1
          /\ t.chunks = Append(device.tx[Kind(f.op)].chunks, f.data)
      BY <1>3, <3>1
    <3> QED BY <1>1, <1>2, <3>2 DEF Staging, p
  <2>2. Staging.chunks = Copies(host.at - 1)
    BY <1>6, <2>1 DEF IInv, Transferred, InTransaction
  <2>3. \A n \in 1..3 : Append([i \in 1..n - 1 |-> p], p) = [i \in 1..n |-> p]
    <3> SUFFICES ASSUME NEW n \in 1..3
                 PROVE  Append([i \in 1..n - 1 |-> p], p) = [i \in 1..n |-> p]
      OBVIOUS
    <3>1. [i \in 1..n - 1 |-> p] \in Seq({p}) /\ Len([i \in 1..n - 1 |-> p]) = n - 1
      OBVIOUS
    <3>2. [i \in 1..n |-> p] \in Seq({p}) /\ Len([i \in 1..n |-> p]) = n
      OBVIOUS
    <3> DEFINE s == Append([i \in 1..n - 1 |-> p], p)
               u == [i \in 1..n |-> p]
    <3>3. s \in Seq({p}) /\ Len(s) = n /\ u \in Seq({p}) /\ Len(u) = n
      BY <3>1, <3>2
    <3>4. \A i \in 1..n : s[i] \in {p} /\ u[i] \in {p}
      BY <3>3
    <3> HIDE DEF s, u
    <3>5. s = u
      BY <3>3, <3>4, SeqEqual
    <3> QED BY <3>5 DEF s, u
  <2>4. t.chunks = Append([i \in 1..host.at - 1 |-> p], p)
    BY <1>4, <2>1, <2>2
  <2>5. t.chunks = [i \in 1..host.at |-> p]
    BY <1>2, <2>3, <2>4
  <2> QED BY <1>1, <1>3, <1>4, <2>5
<1> QED BY <1>2, <1>5, <1>6

\* The device serves the frame of a transaction that is under way.
LEMMA ServesTransaction ==
    ASSUME IInv, Busy, Stage \in Transactions,
           NEW f, f = Frame(host.id), NEW o \in Outcomes(f), NEW d, d = o.device,
           NEW x, x = d.tx[Kind(Frames[1])]
    PROVE  /\ Len(x.chunks) = 0 \/ Len(x.chunks) = host.at
           /\ o.status = "OK" /\ host.at < Len(Frames) => x.chunks = Copies(host.at)
           /\ o.status = "OK" /\ host.at = Len(Frames) /\ Stage = "set" =>
                  d.slot = Chunks(host.data)
           /\ o.status = "OK" /\ host.at = Len(Frames) /\ Stage = "upload" =>
                  d.dynamic = Chunks(host.data)
<1> DEFINE t == Staged(f)
           K == Kind(Frames[1])
<1>1. /\ f.op = Frames[host.at] /\ f.id = host.id /\ f.number = host.at
      /\ f.total = Len(Frames) /\ RequestOK(f) /\ f.op \in Ops
  BY FrameFacts DEF IInv, RequestOK
<1>2. /\ f.op \in ChunkOps /\ Kind(f.op) = K /\ K \in Kinds
      /\ host.at \in 1..3 /\ Len(Frames) \in 1..3 /\ host.at <= Len(Frames)
      /\ Stage = "set" => Payload(Frames[1]) = host.data /\ f.op = "SET"
      /\ Stage = "upload" => Payload(Frames[1]) = host.data
  BY <1>1, TransactionFacts DEF IInv
<1>3. DeviceShape(device)
  BY DEF IInv, DeviceOK
<1>4. TxShape(t)
  BY <1>1, <1>2, <1>3, StagedFacts
<1>5. \/ d = Discarded /\ o.status # "OK"
      \/ d = Kept(f, NoTx) /\ o.status # "OK"
      \/ /\ Len(t.chunks) = host.at /\ host.at < Len(Frames) /\ t # NoTx /\ d = Kept(f, t)
      \/ /\ Len(t.chunks) = host.at /\ host.at = Len(Frames) /\ t # NoTx
         /\ f.op # "DYNAMIC_BEGIN" /\ d = Committed(f)
  <2>1. \/ d = Discarded /\ o.status # "OK"
        \/ o \in ChunkOutcomes(f)
    BY <1>1, <1>2, OutcomesFacts DEF ChunkOps
  <2> QED BY <1>1, <1>2, <1>3, <2>1, ChunkOutcomeFacts
<1> HIDE DEF t, K
<1>6. CASE d = Discarded /\ o.status # "OK"
  <2>1. Discarded.tx[K].chunks = <<>>
    BY <1>2, <1>3, LoggedOutFacts
  <2> QED BY <1>6, <2>1, EmptyFacts DEF K
<1>7. CASE d = Kept(f, NoTx) /\ o.status # "OK"
  <2>1. d.tx[Kind(f.op)] = NoTx
    BY <1>2, <1>3, <1>7, KeptFacts, NoTxFacts
  <2> QED BY <1>2, <1>7, <2>1, NoTxFacts DEF K
<1>8. CASE /\ Len(t.chunks) = host.at /\ host.at < Len(Frames) /\ t # NoTx
           /\ d = Kept(f, t)
  <2>1. x = t
    BY <1>2, <1>3, <1>4, <1>8, KeptFacts DEF K
  <2>2. t.chunks = Copies(host.at)
    BY <1>8, StagedCopies DEF t
  <2>3. host.at # Len(Frames)
    BY <1>2, <1>8
  <2> QED BY <1>8, <2>1, <2>2, <2>3
<1>9. CASE /\ Len(t.chunks) = host.at /\ host.at = Len(Frames) /\ t # NoTx
           /\ f.op # "DYNAMIC_BEGIN" /\ d = Committed(f)
  <2>1. /\ d.slot = IF f.op = "SET" THEN t.chunks ELSE device.slot
        /\ d.dynamic = IF f.op = "DYNAMIC_DATA" THEN Tail(t.chunks) ELSE device.dynamic
        /\ d.tx[Kind(f.op)].chunks = <<>>
    BY <1>1, <1>2, <1>3, <1>4, <1>9, CommittedFacts DEF t
  <2>2. Len(x.chunks) = 0
    BY <1>2, <2>1, EmptyFacts DEF K
  <2>3. ~(host.at < Len(Frames))
    BY <1>2, <1>9
  <2>4. t.chunks = Copies(host.at)
    BY <1>9, StagedCopies DEF t
  <2>5. Stage = "set" => d.slot = Chunks(host.data)
    <3> SUFFICES ASSUME Stage = "set" PROVE d.slot = Chunks(host.data)
      OBVIOUS
    <3>1. t.chunks = [i \in 1..Len(Chunks(host.data)) |-> host.data]
      BY <1>2, <1>9, <2>4, FramesFacts DEF IInv, Copies
    <3>2. d.slot = t.chunks
      BY <1>2, <2>1
    <3> QED BY <3>1, <3>2, ChunksAre
  <2>6. Stage = "upload" => d.dynamic = Chunks(host.data)
    <3> SUFFICES ASSUME Stage = "upload" PROVE d.dynamic = Chunks(host.data)
      OBVIOUS
    <3>1. t.chunks = [i \in 1..Len(Chunks(host.data)) + 1 |-> host.data]
      BY <1>2, <1>9, <2>4, FramesFacts DEF IInv, Copies
    <3>2. f.op = "DYNAMIC_DATA"
      <4>1. Len(Frames) \in 2..3 /\ (host.at > 1 => Frames[host.at] = "DYNAMIC_DATA")
        BY FramesFacts DEF IInv
      <4>2. \A n \in 2..3 : n > 1
        OBVIOUS
      <4>3. host.at > 1
        BY <1>9, <4>1, <4>2
      <4> QED BY <1>1, <4>1, <4>3
    <3>3. d.dynamic = Tail(t.chunks)
      BY <2>1, <3>2
    <3> QED BY <3>1, <3>3, ChunksAre
  <2> QED BY <2>2, <2>3, <2>5, <2>6
<1> QED BY <1>5, <1>6, <1>7, <1>8, <1>9

\* What the device answers to the frame under way is what a good answer tells.
LEMMA ServesCurrent ==
    ASSUME IInv, Busy, UNCHANGED <<host, calls>>,
           NEW f, f = Frame(host.id), NEW o \in Outcomes(f), device' = o.device,
           NEW a, a.op = f.op, a.status = o.status, a.value = o.value
    PROVE  Tells(a)'
<1>1. /\ Stage' = Stage /\ Frames' = Frames /\ NewCredential' = NewCredential
  <2>1. Stage' = Stage
    BY DEF Stage
  <2> QED BY <2>1 DEF Frames, NewCredential
<1>2. /\ f.op = Frames[host.at] /\ f.number = host.at
      /\ f.data = Payload(Frames[host.at]) /\ RequestOK(f) /\ f.op \in Ops
      /\ DeviceOK(device)
  BY FrameFacts DEF IInv, RequestOK
<1>3. /\ f.op \notin {"SET", "CLEAR"} => device'.slot = device.slot
      /\ f.op # "PASSWORD_SET" => device'.credential = device.credential
      /\ f.op = "CLEAR" /\ o.status = "OK" => device'.slot = <<>>
      /\ f.op = "DYNAMIC_CLEAR" => device'.dynamic = <<>>
      /\ f.op = "LOCK" => ~device'.session
  BY <1>2, OutcomeKeepsOK
<1>4. Stage \in AllStages
  BY FramesFacts DEF IInv
<1>5. Staging' = device'.tx[Kind(Frames[1])] /\ Copies(host.at)' = Copies(host.at)
  <2>1. \A op : Payload(op)' = Payload(op)
    BY <1>1 DEF Payload
  <2> QED BY <1>1, <2>1 DEF Copies, Staging
<1> SUFFICES ASSUME a.status = "OK" PROVE Tells(a)'
  BY DEF Tells
<1>6. CASE Stage \in Transactions
  <2>1. /\ host.at < Len(Frames) => Staging'.chunks = Copies(host.at)
        /\ host.at = Len(Frames) /\ Stage = "set" => device'.slot = Chunks(host.data)
        /\ host.at = Len(Frames) /\ Stage = "upload" => device'.dynamic = Chunks(host.data)
    BY <1>5, <1>6, ServesTransaction
  <2>2. f.op # "AUTH_PROVE"
    BY <1>2, <1>6, TransactionFacts DEF IInv, ChunkOps
  <2> QED BY <1>1, <1>5, <1>6, <2>1, <2>2 DEF Tells, Transactions
<1>7. CASE Stage = "get"
  <2>1. f.op = "GET" /\ f.op \notin ChunkOps
    BY <1>2, <1>7, FramesFacts DEF IInv, ChunkOps
  <2>2. o.value = [total |-> Len(device.slot), chunk |-> ReadAt(host.at)]
    BY <1>2, <2>1, OutcomesFacts
  <2>3. ReadAt(host.at)' = ReadAt(host.at) /\ device'.slot = device.slot
    BY <1>3, <2>1 DEF ReadAt
  <2> QED BY <1>1, <1>7, <2>1, <2>2, <2>3 DEF Tells, Transactions
<1>8. CASE Stage \in {"clear", "clear_dynamic", "lock", "capabilities", "info"}
  <2>1. /\ Stage = "clear" => f.op = "CLEAR"
        /\ Stage = "clear_dynamic" => f.op = "DYNAMIC_CLEAR"
        /\ Stage = "lock" => f.op = "LOCK"
        /\ f.op # "AUTH_PROVE"
    BY <1>2, <1>8, FramesFacts DEF IInv
  <2> QED BY <1>1, <1>3, <1>8, <2>1 DEF Tells, Transactions
<1>9. CASE Stage = "confirm"
  <2>1. f.op = "AUTH_INFO" /\ f.op \notin ChunkOps
    BY <1>2, <1>9, FramesFacts DEF IInv, ChunkOps
  <2>2. o.value.salt = device'.credential.salt
    BY <1>2, <1>3, <2>1, OutcomesFacts
  <2> QED BY <1>1, <1>9, <2>1, <2>2 DEF Tells, Transactions
<1>10. CASE Stage = "login"
  <2>1. f.op = "AUTH_PROVE" => device'.credential.password = host.data
    <3> SUFFICES ASSUME f.op = "AUTH_PROVE" PROVE device'.credential.password = host.data
      OBVIOUS
    <3>1. f.data.credential = device.credential
      <4>1. f.op \in Ops /\ f.op \notin ChunkOps /\ o.status = "OK"
        BY <1>2 DEF ChunkOps
      <4> QED BY <4>1, OutcomesFacts
    <3>2. f.data = [credential |-> [password |-> host.data, salt |-> host.salt],
                    nonce |-> host.nonce]
      BY <1>2 DEF Payload
    <3>3. f.data.credential.password = host.data
      BY <3>2
    <3> QED BY <1>3, <3>1, <3>3
  <2> QED BY <1>1, <1>10, <2>1 DEF Tells, Transactions
<1> QED BY <1>4, <1>6, <1>7, <1>8, <1>9, <1>10
        DEF AllStages, Simple, Dynamic, Transactions

\* The device serves a request: of the call that waits, or an old one of no consequence.
LEMMA DeviceServesInv ==
    ASSUME IInv, DeviceServes
    PROVE  IInv'
<1> DEFINE f == Head(requests)
           answer(o) == [op |-> f.op, id |-> f.id, status |-> o.status,
                         value |-> o.value, from |-> f.from]
<1>1. PICK o \in Outcomes(f) :
          device' = o.device /\ (answers' = Append(answers, answer(o)) \/ answers' = answers)
  BY DEF DeviceServes
<1>2. /\ requests # <<>> /\ requests' = Tail(requests) /\ UNCHANGED <<host, calls>>
      /\ HostOK /\ DeviceOK(device) /\ RequestsOK /\ MatchingRequest /\ MatchingAnswer
      /\ Transferred /\ Reading /\ Confirmed /\ Ended
  BY DEF DeviceServes, IInv
<1>3. PICK e : /\ e = answer(o)
               /\ e.op = f.op /\ e.id = f.id /\ e.status = o.status /\ e.value = o.value
               /\ e.from = f.from
  <2>1. \E e : e = answer(o)
    OBVIOUS
  <2>2. PICK e : e = answer(o)
    BY <2>1
  <2>3. /\ e.op = f.op /\ e.id = f.id /\ e.status = o.status /\ e.value = o.value
        /\ e.from = f.from
    BY <2>2
  <2> HIDE DEF answer
  <2> QED BY <2>2, <2>3
<1>4. /\ IsSeq(requests') /\ Len(requests') = Len(requests) - 1 /\ Len(requests) \in Nat
      /\ 1 \in DOMAIN requests /\ f = requests[1]
      /\ \A i \in DOMAIN requests' : i + 1 \in DOMAIN requests /\ requests'[i] = requests[i + 1]
  BY <1>2, TailFacts, IsSeqFacts DEF RequestsOK
<1> HIDE DEF f, answer
<1>5. answers' = Append(answers, e) \/ answers' = answers
  BY <1>1, <1>3
<1>6. RequestOK(f)
  BY <1>2, <1>4 DEF RequestsOK
<1>7. /\ Stage' = Stage /\ Frames' = Frames /\ NewCredential' = NewCredential
      /\ Position' = Position /\ Busy' = Busy
  <2>1. Stage' = Stage
    BY <1>2 DEF Stage
  <2> QED BY <1>2, <2>1 DEF Frames, NewCredential, Position, Busy
<1>8. InTransaction' = InTransaction /\ Current' = Current
  BY <1>2, <1>7 DEF InTransaction, Current
<1>9. /\ \A id : Frame(id)' = Frame(id)
      /\ \A n : Copies(n)' = Copies(n)
  <2>1. \A op : Payload(op)' = Payload(op)
    BY <1>2, <1>7 DEF Payload
  <2> QED BY <1>2, <1>7, <2>1 DEF Frame, Copies
<1>10. /\ \A g : RequestOK(g)' <=> RequestOK(g)
       /\ \A d : DeviceOK(d)' <=> DeviceOK(d)
  BY <1>2, SameCallFacts
<1>11. /\ DeviceOK(device)'
       /\ f.op \notin {"SET", "CLEAR"} => device'.slot = device.slot
       /\ f.op # "PASSWORD_SET" => device'.credential = device.credential
  BY <1>1, <1>2, <1>6, <1>10, OutcomeKeepsOK
<1>12. HostOK'
  BY <1>2, <1>7 DEF HostOK
<1>13. RequestsOK'
  <2>1. IsSeq(answers')
    <3>1. IsSeq(answers)
      BY <1>2 DEF RequestsOK
    <3>2. IsSeq(Append(answers, e))
      BY <3>1, AppendFacts
    <3> QED BY <1>5, <3>1, <3>2
  <2> QED BY <1>2, <1>4, <1>10, <2>1 DEF RequestsOK
<1>14. MatchingRequest'
  <2> SUFFICES ASSUME NEW i \in DOMAIN requests', requests'[i].id = host.id, Current
               PROVE  host.waiting /\ i = Len(requests') /\ requests'[i] = Frame(host.id)
    BY <1>2, <1>7, <1>8, <1>9 DEF MatchingRequest
  <2>1. host.waiting /\ i + 1 = Len(requests) /\ requests[i + 1] = Frame(host.id)
    BY <1>2, <1>4 DEF MatchingRequest
  <2>2. i \in Nat
    BY <1>4, IsSeqFacts
  <2> QED BY <1>4, <2>1, <2>2
<1>15. Current /\ f.id = host.id =>
           host.waiting /\ Len(requests) = 1 /\ f = Frame(host.id) /\ requests' = <<>>
  <2> SUFFICES ASSUME Current, f.id = host.id
               PROVE  /\ host.waiting /\ Len(requests) = 1 /\ f = Frame(host.id)
                      /\ requests' = <<>>
    OBVIOUS
  <2>1. host.waiting /\ Len(requests) = 1 /\ f = Frame(host.id)
    BY <1>2, <1>4 DEF MatchingRequest
  <2> QED BY <1>4, <2>1, IsSeqFacts
<1>16. Current /\ f.id = host.id => Tells(e)'
  BY <1>1, <1>2, <1>3, <1>15, ServesCurrent DEF Current
<1>17. MatchingAnswer'
  <2> SUFFICES ASSUME NEW i \in DOMAIN answers', answers'[i].id = host.id, Current
               PROVE  /\ host.waiting /\ i = Len(answers') /\ requests' = <<>>
                      /\ answers'[i].op = Frames[host.at] /\ answers'[i].from = Position
                      /\ Tells(answers[i])'
    BY <1>2, <1>7, <1>8 DEF MatchingAnswer
  <2>1. i \in DOMAIN answers => answers'[i] # answers[i]
    BY <1>2 DEF MatchingAnswer
  <2>2. /\ answers' = Append(answers, e) /\ i = Len(answers) + 1 /\ answers'[i] = e
        /\ i = Len(answers')
    <3>1. answers' # answers
      BY <2>1
    <3>2. answers' = Append(answers, e) /\ IsSeq(answers)
      BY <1>2, <1>5, <3>1 DEF RequestsOK
    <3>3. /\ DOMAIN answers' = 1..Len(answers) + 1 /\ DOMAIN answers = 1..Len(answers)
          /\ Len(answers') = Len(answers) + 1
          /\ Len(answers) \in Nat /\ answers'[Len(answers) + 1] = e
          /\ \A j \in DOMAIN answers : answers'[j] = answers[j]
      BY <3>2, AppendFacts
    <3>4. \A n \in Nat : \A j \in 1..n + 1 : j \notin 1..n => j = n + 1
      OBVIOUS
    <3> QED BY <2>1, <3>2, <3>3, <3>4
  <2>3. f.id = host.id
    BY <1>3, <2>2
  <2>4. host.waiting /\ f = Frame(host.id) /\ requests' = <<>> /\ Tells(e)'
    BY <1>15, <1>16, <2>3
  <2>5. e.op = Frames[host.at] /\ e.from = Position
    BY <1>3, <2>4 DEF Frame
  <2>6. \A a : a = e /\ Tells(e)' => Tells(a)'
    OBVIOUS
  <2> QED BY <2>2, <2>4, <2>5, <2>6
<1>18. Transferred'
  <2> SUFFICES ASSUME InTransaction, host.at > 1 PROVE Transferred'
    BY <1>2, <1>8 DEF Transferred
  <2>1. Current /\ Busy /\ Stage \in Transactions
    BY DEF Current, InTransaction
  <2>2. /\ \A i \in DOMAIN requests' : requests'[i].id = host.id
        /\ f.id = host.id
    BY <1>2, <1>4 DEF Transferred
  <2>3. f = Frame(host.id)
    BY <1>15, <2>1, <2>2
  <2>4. Staging' = device'.tx[Kind(Frames[1])]
    BY <1>7 DEF Staging
  <2>5. Len(Staging'.chunks) = 0 \/ Len(Staging'.chunks) = host.at
    BY <1>1, <2>1, <2>3, <2>4, ServesTransaction
  <2>6. host.at \in 1..3
    BY <1>2, <2>1, TransactionFacts
  <2>7. Len(Staging'.chunks) # host.at - 1
    BY <2>5, <2>6
  <2> QED BY <1>2, <2>2, <2>7 DEF Transferred
<1>19. Reading'
  <2> SUFFICES ASSUME Busy, Stage = "get", host.at # 1 PROVE Reading'
    BY <1>2, <1>7 DEF Reading
  <2>1. /\ \A i \in DOMAIN requests : requests[i].op = "GET"
        /\ Len(device.slot) = 2 /\ host.total = 2 /\ host.got = <<device.slot[1]>>
    BY <1>2 DEF Reading
  <2>2. device'.slot = device.slot
    BY <1>4, <1>11, <2>1
  <2>3. \A i \in DOMAIN requests' : requests'[i].op = "GET"
    BY <1>4, <2>1
  <2> QED BY <1>2, <2>1, <2>2, <2>3 DEF Reading
<1>20. Confirmed'
  <2> SUFFICES ASSUME host.op = "password", host.stage = 4, host.result \in {"none", "ok"}
               PROVE  Confirmed'
    BY <1>2 DEF Confirmed
  <2>1. /\ device.credential.salt = calls
        /\ \A i \in DOMAIN requests : requests[i].op # "PASSWORD_SET"
    BY <1>2 DEF Confirmed
  <2>2. device'.credential = device.credential
    BY <1>4, <1>11, <2>1
  <2>3. \A i \in DOMAIN requests' : requests'[i].op # "PASSWORD_SET"
    BY <1>4, <2>1
  <2> QED BY <1>2, <2>1, <2>2, <2>3 DEF Confirmed
<1>21. Ended'
  BY <1>2 DEF Ended
<1> QED BY <1>11, <1>12, <1>13, <1>14, <1>17, <1>18, <1>19, <1>20, <1>21 DEF IInv

---------------------------------------------------------------------------
(* The invariant. *)

LEMMA InitInv ==
    ASSUME Init
    PROVE  IInv
<1>1. /\ host = NotCalled /\ requests = <<>> /\ answers = <<>> /\ calls = 0
  BY DEF Init
<1>2. PICK c \in {Nothing} \cup [password : Passwords, salt : {0}] :
          device = [slot |-> <<>>, dynamic |-> <<>>, credential |-> c, session |-> FALSE,
                    nonce |-> <<>>, tx |-> [k \in Kinds |-> NoTx]]
  BY DEF Init
<1>3. IsSeq(<<>>) /\ Len(<<>>) = 0 /\ DOMAIN <<>> = {}
  BY EmptyFacts
<1>4. /\ HostShape(host) /\ host.op = "none" /\ host.result = "none" /\ host.at = 1
  BY <1>1 DEF NotCalled, HostShape
<1>5. ~Busy
  BY <1>4 DEF Busy
<1>6. HostOK
  BY <1>1, <1>4, <1>5 DEF HostOK
<1>7. c.salt = 0
  BY DEF Nothing
<1>8. DeviceOK(device)
  <2>1. CredentialOK(c)
    BY <1>1, <1>4, <1>7 DEF CredentialOK
  <2>2. /\ device.slot = <<>> /\ device.credential = c
        /\ device.tx = [k \in Kinds |-> NoTx]
    BY <1>2
  <2>3. \A k \in Kinds : device.tx[k] = NoTx
    BY <2>2
  <2>4. DeviceShape(device)
    <3>1. device = [slot |-> device.slot, dynamic |-> device.dynamic,
                    credential |-> device.credential, session |-> device.session,
                    nonce |-> device.nonce, tx |-> device.tx]
      BY <1>2
    <3>2. NoTx = [id |-> NoTx.id, chunks |-> NoTx.chunks] /\ NoTx.chunks = <<>>
      BY DEF NoTx
    <3>3. device.tx = [k \in Kinds |-> [id |-> device.tx[k].id, chunks |-> device.tx[k].chunks]]
      BY <2>2, <2>3, <3>2
    <3> QED BY <1>3, <2>2, <2>3, <3>1, <3>2, <3>3 DEF DeviceShape
  <2>5. device.tx["PASSWORD_SET"].chunks = <<>>
    BY <2>3 DEF Kinds, NoTx
  <2> QED BY <1>3, <2>1, <2>2, <2>4, <2>5 DEF DeviceOK
<1>9. RequestsOK /\ MatchingRequest /\ MatchingAnswer
  BY <1>1, <1>3 DEF RequestsOK, MatchingRequest, MatchingAnswer
<1>10. Transferred /\ Reading /\ Confirmed /\ Ended
  BY <1>4, <1>5 DEF Transferred, InTransaction, Reading, Confirmed, Ended
<1> QED BY <1>6, <1>8, <1>9, <1>10 DEF IInv

LEMMA Stutters ==
    ASSUME IInv, UNCHANGED <<host, requests, answers, device, calls>>
    PROVE  IInv'
<1>1. /\ Stage' = Stage /\ Frames' = Frames /\ NewCredential' = NewCredential
      /\ Position' = Position /\ Busy' = Busy
  <2>1. Stage' = Stage
    BY DEF Stage
  <2> QED BY <2>1 DEF Frames, NewCredential, Position, Busy
<1>2. /\ InTransaction' = InTransaction /\ Current' = Current
      /\ \A op : Payload(op)' = Payload(op)
  BY <1>1 DEF InTransaction, Current, Payload
<1>3. /\ \A n : Copies(n)' = Copies(n)
      /\ \A id : Frame(id)' = Frame(id)
      /\ \A n : ReadAt(n)' = ReadAt(n)
      /\ Staging' = Staging
  BY <1>1, <1>2 DEF Copies, Frame, ReadAt, Staging
<1>4. \A a : Tells(a)' <=> Tells(a)
  BY <1>1, <1>3 DEF Tells
<1>5. /\ \A f : RequestOK(f)' <=> RequestOK(f)
      /\ \A d : DeviceOK(d)' <=> DeviceOK(d)
  BY SameCallFacts
<1>6. HostOK' /\ DeviceOK(device)' /\ RequestsOK'
  BY <1>1, <1>5 DEF IInv, HostOK, RequestsOK
<1>7. MatchingRequest' /\ MatchingAnswer'
  BY <1>1, <1>2, <1>3, <1>4 DEF IInv, MatchingRequest, MatchingAnswer
<1>8. Transferred' /\ Reading' /\ Confirmed'
  BY <1>1, <1>2, <1>3 DEF IInv, Transferred, Reading, Confirmed
<1>9. Ended'
  BY <1>1 DEF IInv, Ended, SuccessIsTrue
<1> QED BY <1>6, <1>7, <1>8, <1>9 DEF IInv

LEMMA NextInv ==
    ASSUME IInv, IdsAreFresh, [Next]_vars
    PROVE  IInv'
<1>1. CASE Send
  BY <1>1, SendInv
<1>2. CASE Receive
  BY <1>2, ReceiveInv
<1>3. CASE Timeout
  BY <1>3, TimeoutInv
<1>4. CASE Calls
  <2>1. PICK op \in DOMAIN Program : \E data : Call(op, data)
    BY <1>4, CallsAre
  <2> QED BY <2>1, CallInv
<1>5. CASE NewProcess
  BY <1>5, NewProcessInv
<1>6. CASE DeviceServes
  BY <1>6, DeviceServesInv
<1>7. CASE TransportReset
  BY <1>7, LosesSession DEF TransportReset
<1>8. CASE SessionExpires
  BY <1>8, LosesSession DEF SessionExpires
<1>9. CASE UNCHANGED vars
  <2>1. UNCHANGED <<host, requests, answers, device, calls>>
    BY <1>9 DEF vars
  <2> QED BY <2>1, Stutters
<1> QED BY <1>1, <1>2, <1>3, <1>4, <1>5, <1>6, <1>7, <1>8, <1>9 DEF Next

---------------------------------------------------------------------------
(* Why the identifiers are fresh: a call takes at most six for every attempt.  A report that is *)
(* no more than K calls old has an identifier that was taken at most 6 * Attempts * (K + 1)     *)
(* identifiers ago: with more of them than that, they have not come round to it.                *)

Quota(n) == 6 * Attempts * n

\* Identifiers a call may have taken before this stage, and in it.
Base(stage) ==
    CASE stage \in {"password", "upload", "clear_dynamic"} -> Attempts
      [] stage = "confirm" -> 2 * Attempts
      [] stage = "login" -> 3 * Attempts
      [] OTHER -> 0

Share(stage) ==
    CASE stage = "login" -> 3 * Attempts
      [] stage = "get" -> 2 * Attempts
      [] OTHER -> Attempts

Taken(h, stage) ==
    LET pending == IF h.waiting THEN 1 ELSE 0
    IN  CASE stage = "login" -> 3 * (h.attempt - 1) + (h.at - 1) + pending
          [] stage = "get" -> (IF h.at = 1 THEN 0 ELSE Attempts) + (h.attempt - 1) + pending
          [] stage \in Transactions -> (h.attempt - 1) + (IF h.at = 1 THEN pending ELSE 1)
          [] OTHER -> (h.attempt - 1) + pending

\* Bounds the identifiers taken: a call that has ended is charged with all it might have taken.
Total == Quota(calls) + (IF Busy THEN Base(Stage) + Taken(host, Stage) ELSE Quota(1))

\* id was taken in call c or later, fewer than IdSpace identifiers before the next one.
Aged(id, c, next, total) ==
    /\ id \in 0..IdSpace - 1 /\ c \in Nat
    /\ \E d \in 1..IdSpace - 1 : Quota(c) + d <= total /\ next \in {id + d, id + d - IdSpace}

AgedReport(r) == Aged(r.id, r.from[1], nextId, Total)

AttemptOK == Busy => host.attempt \in 1..Attempts

Accounted ==
    /\ nextId \in 0..IdSpace - 1
    /\ AttemptOK
    /\ Current => Aged(host.id, calls, nextId, Total)
    /\ \A i \in DOMAIN requests : AgedReport(requests[i])
    /\ \A i \in DOMAIN answers : AgedReport(answers[i])

\* No report that is under way is more than K calls old.
Recent(K) ==
    /\ \A i \in DOMAIN requests : calls <= requests[i].from[1] + K
    /\ \A i \in DOMAIN answers : calls <= answers[i].from[1] + K

\* A process is started when no request of an earlier one is under way.
StartsClean == NewProcess => requests = <<>>

LEMMA QuotaFacts ==
    /\ \A n \in Nat : Quota(n) \in Nat /\ Quota(n + 1) = Quota(n) + Quota(1)
    /\ \A n, m \in Nat : n <= m => Quota(n) <= Quota(m)
    /\ \A n, m \in Nat : Quota(n + m) = Quota(n) + Quota(m)
    /\ Quota(1) = 6 * Attempts /\ Attempts \in Nat \ {0}
<1> DEFINE A == Attempts
<1>1. A \in Nat \ {0}
  BY ClientAssumption
<1> HIDE DEF A
<1>2. \A n \in Nat : 6 * A * n \in Nat /\ 6 * A * (n + 1) = 6 * A * n + 6 * A
  BY <1>1
<1>3. \A n, m \in Nat : 6 * A * (n + m) = 6 * A * n + 6 * A * m
  BY <1>1
<1>4. \A n, m \in Nat : n <= m => 6 * A * n <= 6 * A * m
  <2> SUFFICES ASSUME NEW n \in Nat, NEW m \in Nat, n <= m PROVE 6 * A * n <= 6 * A * m
    OBVIOUS
  <2>1. PICK k \in Nat : m = n + k
    <3>1. m - n \in Nat /\ m = n + (m - n)
      OBVIOUS
    <3> QED BY <3>1
  <2>2. 6 * A * m = 6 * A * n + 6 * A * k
    BY <1>3, <2>1
  <2>3. 6 * A * k \in Nat /\ 6 * A * n \in Nat
    BY <1>1
  <2> QED BY <2>2, <2>3
<1>5. 6 * A * 1 = 6 * A
  BY <1>1
<1> QED BY <1>1, <1>2, <1>3, <1>4, <1>5 DEF Quota, A

\* A stage takes its share, and the shares of all stages of a call are its quota.
LEMMA TakenBounds ==
    ASSUME NEW stage \in AllStages, NEW h,
           h.attempt \in 1..Attempts, h.at \in 1..3
    PROVE  /\ Base(stage) \in Nat /\ Share(stage) \in Nat /\ Taken(h, stage) \in Nat
           /\ Base(stage) + Share(stage) <= Quota(1)
           /\ Taken(h, stage) <= Share(stage)
<1> DEFINE A == Attempts
           pending == IF h.waiting THEN 1 ELSE 0
           n == h.attempt
           at == h.at
<1>1. /\ A \in Nat \ {0} /\ n \in 1..A /\ at \in 1..3 /\ pending \in 0..1
      /\ Quota(1) = 6 * A
  BY QuotaFacts
<1> HIDE DEF A, pending, n, at
<1>3. CASE stage = "login"
  <2>1. /\ Base(stage) = 3 * A /\ Share(stage) = 3 * A
        /\ Taken(h, stage) = 3 * (n - 1) + (at - 1) + pending
    BY <1>3 DEF Base, Share, Taken, Transactions, A, pending, n, at
  <2> QED BY <1>1, <2>1
<1>4. CASE stage = "get"
  <2>1. /\ Base(stage) = 0 /\ Share(stage) = 2 * A
        /\ Taken(h, stage) = (IF at = 1 THEN 0 ELSE A) + (n - 1) + pending
    BY <1>4 DEF Base, Share, Taken, Transactions, A, pending, n, at
  <2> QED BY <1>1, <2>1
<1>5. CASE stage \notin {"login", "get"}
  <2>1. /\ Base(stage) \in {0, A, 2 * A} /\ Share(stage) = A
        /\ Taken(h, stage) \in {(n - 1) + (IF at = 1 THEN pending ELSE 1), (n - 1) + pending}
    BY <1>5 DEF Base, Share, Taken, Transactions, A, pending, n, at
  <2> QED BY <1>1, <2>1
<1> QED BY <1>3, <1>4, <1>5

\* What an exchange, answered or not, makes of the call h that has made it.
Moves(h, g) ==
    /\ g.op = h.op
    /\ \/ g.result # "none"
       \/ /\ g.result = "none" /\ ~g.waiting
          /\ \/ /\ g.stage = h.stage /\ h.attempt # Attempts /\ g.attempt = h.attempt + 1
                /\ g.at = IF Stage = "get" THEN h.at ELSE 1
             \/ /\ h.stage # Len(Program[h.op])
                /\ g.stage = h.stage + 1 /\ g.attempt = 1 /\ g.at = 1
             \/ /\ g.stage = h.stage /\ g.at = h.at + 1 /\ g.id = h.id
                /\ g.attempt = IF Stage = "get" THEN 1 ELSE h.attempt

LEMMA AgainMoves ==
    ASSUME NEW h, HostShape(h), h.result = "none"
    PROVE  Moves(h, Again(h))
BY AgainFacts DEF Moves

LEMMA FinishedMoves ==
    ASSUME NEW h, HostShape(h), NEW result, result # "none"
    PROVE  Moves(h, Finished(h, result))
BY FinishedFacts DEF Moves

LEMMA NextStageMoves ==
    ASSUME NEW h, HostShape(h), h.result = "none"
    PROVE  Moves(h, NextStage(h))
<1> DEFINE g == NextStage(h)
<1>1. /\ g.op = h.op
      /\ IF h.stage = Len(Program[h.op]) THEN g.stage = h.stage /\ g.result = "ok"
         ELSE /\ g.stage = h.stage + 1 /\ g.at = 1 /\ g.result = "none"
              /\ g.attempt = 1
      /\ ~g.waiting
  BY NextStageFacts
<1> HIDE DEF g
<1>2. Moves(h, g)
  BY <1>1 DEF Moves
<1> QED BY <1>2 DEF g

LEMMA UnansweredMoves ==
    ASSUME NEW h, HostShape(h), h.result = "none"
    PROVE  Moves(h, Unanswered(h))
<1>1. Unanswered(h) = NextStage(h) \/ Unanswered(h) = Again(h)
  BY DEF Unanswered
<1> QED BY <1>1, AgainMoves, NextStageMoves

LEMMA ProgressedMoves ==
    ASSUME HostOK, Busy, NEW a, Matches(a)
    PROVE  Moves(host, Progressed(a))
<1> DEFINE h == Learned(a)
           g == Progressed(a)
<1>1. /\ HostShape(h) /\ h.op = host.op /\ h.stage = host.stage
      /\ h.result = "none" => h.at = host.at /\ h.id = host.id /\ h.attempt = host.attempt
  BY LearnedFacts DEF Matches
<1>2. g = IF h.result # "none" THEN h
          ELSE IF LastOfStage(h, a) THEN NextStage(h)
          ELSE [h EXCEPT !.waiting = FALSE, !.at = @ + 1,
                         !.attempt = IF Stage = "get" THEN 1 ELSE @]
  BY DEF Progressed
<1> SUFFICES Moves(host, g)
  OBVIOUS
<1> HIDE DEF h, g
<1>3. CASE h.result # "none"
  BY <1>1, <1>2, <1>3 DEF Moves
<1>4. CASE h.result = "none" /\ g = NextStage(h)
  <2>1. Moves(h, g)
    BY <1>1, <1>4, NextStageMoves
  <2> QED BY <1>1, <1>4, <2>1 DEF Moves
<1>5. CASE h.result = "none" /\ g = [h EXCEPT !.waiting = FALSE, !.at = @ + 1,
                                     !.attempt = IF Stage = "get" THEN 1 ELSE @]
  <2>1. /\ g.op = h.op /\ g.stage = h.stage /\ g.at = h.at + 1 /\ g.id = h.id
        /\ g.result = "none" /\ g.waiting = FALSE
        /\ g.attempt = IF Stage = "get" THEN 1 ELSE h.attempt
    BY <1>1, <1>5 DEF HostShape
  <2> QED BY <1>1, <1>5, <2>1 DEF Moves
<1> QED BY <1>2, <1>3, <1>4, <1>5

\* The next stage of the call begins where the share of this one ends.
LEMMA NextStageIs ==
    ASSUME HostOK, Busy, host.stage # Len(Program[host.op]),
           NEW next, next = Program[host.op][host.stage + 1]
    PROVE  next \in AllStages /\ Base(next) = Base(Stage) + Share(Stage)
<1>1. Attempts \in Nat
  BY ClientAssumption
<1>2. \/ Stage = "capabilities" /\ next \in {"upload", "clear_dynamic"}
      \/ Stage = "info" /\ next = "password"
      \/ Stage = "password" /\ next = "confirm"
      \/ Stage = "confirm" /\ next = "login"
  <2>1. host.op # "none"
    BY DEF Busy
  <2>2. CASE host.op \in Dynamic
    <3>1. Program[host.op] = <<"capabilities", host.op>>
      BY <2>2 DEF Program, Dynamic
    <3>2. host.stage = 1 /\ Stage = "capabilities"
      <4>1. /\ Len(Program[host.op]) = 2 /\ host.stage \in 1..2
            /\ host.stage = 1 => Stage = "capabilities"
        BY <2>1, <2>2, StageTable
      <4>2. host.stage # 2
        BY <4>1
      <4> QED BY <4>1, <4>2
    <3> QED BY <2>2, <3>1, <3>2 DEF Dynamic
  <2>3. CASE host.op = "password"
    <3>1. Program[host.op] = <<"info", "password", "confirm", "login">>
      BY <2>3 DEF Program
    <3>2. /\ host.stage \in 1..4 /\ host.stage # 4
          /\ host.stage = 1 => Stage = "info"
          /\ host.stage = 2 => Stage = "password"
          /\ host.stage = 3 => Stage = "confirm"
      BY <2>1, <2>3, StageTable
    <3> QED BY <3>1, <3>2
  <2>4. CASE host.op \notin Dynamic \cup {"password"}
    BY <2>1, <2>4, StageTable
  <2> QED BY <2>2, <2>3, <2>4
<1>3. CASE Stage = "capabilities" /\ next \in {"upload", "clear_dynamic"}
  BY <1>1, <1>3 DEF Base, Share, AllStages, Dynamic
<1>4. CASE Stage = "info" /\ next = "password"
  BY <1>1, <1>4 DEF Base, Share, AllStages
<1>5. CASE Stage = "password" /\ next = "confirm"
  BY <1>1, <1>5 DEF Base, Share, AllStages
<1>6. CASE Stage = "confirm" /\ next = "login"
  BY <1>1, <1>6 DEF Base, Share, AllStages
<1> QED BY <1>2, <1>3, <1>4, <1>5, <1>6

LEMMA TakenMoves ==
    ASSUME NEW stage \in AllStages, NEW h, NEW g, h.waiting, ~g.waiting,
           h.attempt \in 1..Attempts, h.at \in 1..3
    PROVE  /\ /\ h.attempt # Attempts /\ g.attempt = h.attempt + 1
              /\ g.at = IF stage = "get" THEN h.at ELSE 1
              => Taken(g, stage) >= Taken(h, stage) /\ g.attempt \in 1..Attempts
           /\ g.attempt = 1 /\ g.at = 1 => Taken(g, stage) = 0
           /\ /\ g.at = h.at + 1 /\ g.attempt = IF stage = "get" THEN 1 ELSE h.attempt
              /\ stage = "get" => h.at = 1
              /\ stage \in Transactions \cup {"login", "get"}
              => Taken(g, stage) >= Taken(h, stage) /\ g.attempt \in 1..Attempts
<1> DEFINE A == Attempts
           n == h.attempt
           at == h.at
           m == g.attempt
           to == g.at
<1>1. A \in Nat \ {0} /\ n \in 1..A /\ at \in 1..3
  BY QuotaFacts
<1> SUFFICES /\ n # A /\ m = n + 1 /\ to = (IF stage = "get" THEN at ELSE 1)
                => Taken(g, stage) >= Taken(h, stage) /\ m \in 1..A
             /\ m = 1 /\ to = 1 => Taken(g, stage) = 0
             /\ /\ to = at + 1 /\ m = IF stage = "get" THEN 1 ELSE n
                /\ stage = "get" => at = 1
                /\ stage \in Transactions \cup {"login", "get"}
                => Taken(g, stage) >= Taken(h, stage) /\ m \in 1..A
  OBVIOUS
<1> HIDE DEF A, n, at, m, to
<1>2. CASE stage = "login"
  <2>1. /\ Taken(h, stage) = 3 * (n - 1) + (at - 1) + 1
        /\ Taken(g, stage) = 3 * (m - 1) + (to - 1) + 0
    BY <1>2 DEF Taken, Transactions, n, at, m, to
  <2> QED BY <1>1, <1>2, <2>1
<1>3. CASE stage = "get"
  <2>1. /\ Taken(h, stage) = (IF at = 1 THEN 0 ELSE A) + (n - 1) + 1
        /\ Taken(g, stage) = (IF to = 1 THEN 0 ELSE A) + (m - 1) + 0
    BY <1>3 DEF Taken, Transactions, n, at, m, to, A
  <2> QED BY <1>1, <1>3, <2>1
<1>4. CASE stage \in Transactions
  <2>1. /\ Taken(h, stage) = (n - 1) + 1
        /\ Taken(g, stage) = (m - 1) + (IF to = 1 THEN 0 ELSE 1)
    BY <1>4 DEF Taken, Transactions, n, at, m, to
  <2>2. stage # "get"
    BY <1>4 DEF Transactions
  <2> QED BY <1>1, <2>1, <2>2
<1>5. CASE stage \notin Transactions \cup {"login", "get"}
  <2>1. /\ Taken(h, stage) = (n - 1) + 1
        /\ Taken(g, stage) = (m - 1) + 0
    BY <1>5 DEF Taken, n, at, m, to
  <2> QED BY <1>1, <1>5, <2>1
<1> QED BY <1>2, <1>3, <1>4, <1>5

\* The total after a step, from the stage the step leads to.
LEMMA TotalThen ==
    ASSUME NEW stage, Stage' = stage, Busy'
    PROVE  Total' = Quota(calls') + (Base(stage) + Taken(host', stage))
BY DEF Total, Quota, Base, Taken

LEMMA TotalEnded ==
    ASSUME ~Busy'
    PROVE  Total' = Quota(calls') + Quota(1)
BY DEF Total, Quota

LEMMA TotalBounds ==
    ASSUME HostOK, AttemptOK
    PROVE  /\ Total \in Nat /\ calls \in Nat /\ Quota(calls) \in Nat /\ Quota(1) \in Nat
           /\ Quota(calls) <= Total /\ Total <= Quota(calls) + Quota(1)
<1>1. calls \in Nat /\ Quota(calls) \in Nat /\ Quota(1) \in Nat
  <2>1. calls \in Nat /\ 1 \in Nat
    BY DEF HostOK
  <2> QED BY <2>1, QuotaFacts
<1>2. CASE ~Busy
  BY <1>1, <1>2 DEF Total
<1>3. CASE Busy
  <2>1. Stage \in AllStages /\ host.at \in 1..3
    <3>1. Stage \in AllStages /\ host.at \in 1..Len(Frames) /\ Len(Frames) \in 1..3
      BY <1>3, FramesFacts
    <3>2. \A n \in 1..3 : \A m \in 1..n : m \in 1..3
      OBVIOUS
    <3> QED BY <3>1, <3>2
  <2>2. /\ Base(Stage) \in Nat /\ Share(Stage) \in Nat /\ Taken(host, Stage) \in Nat
        /\ Base(Stage) + Share(Stage) <= Quota(1) /\ Taken(host, Stage) <= Share(Stage)
    BY <1>3, <2>1, TakenBounds DEF AttemptOK
  <2>3. Total = Quota(calls) + (Base(Stage) + Taken(host, Stage))
    BY <1>3 DEF Total
  <2> QED BY <1>1, <2>2, <2>3
<1> QED BY <1>2, <1>3

TotalBounded ==
    /\ Total \in Nat /\ calls \in Nat /\ Quota(calls) \in Nat
    /\ Quota(calls) <= Total /\ Total <= Quota(calls) + Quota(1)

LEMMA TotalIsBounded == HostOK /\ AttemptOK => TotalBounded
BY TotalBounds DEF TotalBounded

LEMMA TotalStaysBounded == HostOK' /\ AttemptOK' => TotalBounded'
BY TotalIsBounded, PTL

LEMMA TotalBoundsThen ==
    ASSUME HostOK', AttemptOK'
    PROVE  /\ Total' \in Nat /\ calls' \in Nat /\ Quota(calls') \in Nat
           /\ Quota(calls') <= Total' /\ Total' <= Quota(calls') + Quota(1)
<1>1. TotalBounded'
  BY TotalStaysBounded
<1> QED BY <1>1 DEF TotalBounded, Quota

---------------------------------------------------------------------------
(* The age of an identifier. *)

LEMMA AgedIsFresh ==
    ASSUME NEW id, NEW c, NEW next, NEW total, Aged(id, c, next, total)
    PROVE  id # next
<1>1. IdSpace \in Nat
  BY ClientAssumption
<1> QED BY <1>1 DEF Aged

LEMMA AgedGrows ==
    ASSUME NEW id, NEW c, NEW next, NEW t \in Nat, NEW u \in Nat, t <= u, Aged(id, c, next, t)
    PROVE  Aged(id, c, next, u)
<1>1. c \in Nat /\ Quota(c) \in Nat /\ IdSpace \in Nat
  BY QuotaFacts, ClientAssumption DEF Aged
<1>2. PICK d \in 1..IdSpace - 1 : Quota(c) + d <= t /\ next \in {id + d, id + d - IdSpace}
  BY DEF Aged
<1>3. Quota(c) + d <= u
  BY <1>1, <1>2
<1> QED BY <1>2, <1>3 DEF Aged

Succ(n) == (n + 1) % IdSpace

LEMMA SuccIs ==
    ASSUME NEW n \in 0..IdSpace - 1
    PROVE  /\ Succ(n) \in 0..IdSpace - 1
           /\ \/ Succ(n) = n + 1 /\ n + 1 < IdSpace
              \/ Succ(n) = 0 /\ n + 1 = IdSpace
<1>1. IdSpace \in Nat \ {0}
  BY ClientAssumption
<1>2. CASE n + 1 < IdSpace
  <2>1. \A m \in Nat \ {0} : \A k \in 0..m - 1 : k % m = k
    OBVIOUS
  <2>2. n + 1 \in 0..IdSpace - 1
    BY <1>1, <1>2
  <2>3. Succ(n) = n + 1
    BY <1>1, <2>1, <2>2 DEF Succ
  <2> QED BY <1>2, <2>2, <2>3
<1>3. CASE n + 1 = IdSpace
  <2>1. \A m \in Nat \ {0} : m % m = 0
    OBVIOUS
  <2>2. Succ(n) = 0
    BY <1>1, <1>3, <2>1 DEF Succ
  <2> QED BY <1>1, <1>3, <2>2
<1> QED BY <1>1, <1>2, <1>3

\* One more identifier is taken, and the report is no more than K calls old.
LEMMA AgedAdvances ==
    ASSUME NEW K \in Nat, IdSpace > Quota(K + 1), NEW id, NEW c, NEW n \in 0..IdSpace - 1,
           NEW m \in Nat, m <= c + K,
           NEW t \in Nat, NEW u \in Nat, t + 1 <= u, u <= Quota(m) + Quota(1), Aged(id, c, n, t)
    PROVE  Aged(id, c, Succ(n), u)
<1>1. c \in Nat /\ id \in 0..IdSpace - 1
  BY DEF Aged
<1>2. /\ IdSpace \in Nat \ {0} /\ Quota(c) \in Nat /\ Quota(m) \in Nat /\ Quota(K) \in Nat
      /\ Quota(1) \in Nat /\ Quota(m) <= Quota(c) + Quota(K)
      /\ Quota(K + 1) = Quota(K) + Quota(1)
  <2>1. 1 \in Nat /\ c + K \in Nat
    BY <1>1
  <2>2. Quota(m) <= Quota(c + K) /\ Quota(c + K) = Quota(c) + Quota(K)
    BY <1>1, <2>1, QuotaFacts
  <2>3. IdSpace \in Nat \ {0}
    BY ClientAssumption
  <2> QED BY <1>1, <2>1, <2>2, <2>3, QuotaFacts
<1>3. PICK d \in 1..IdSpace - 1 : Quota(c) + d <= t /\ n \in {id + d, id + d - IdSpace}
  BY DEF Aged
<1>4. Quota(c) + (d + 1) <= u /\ d + 1 \in 1..IdSpace - 1
  BY <1>2, <1>3
<1>5. Succ(n) \in {id + (d + 1), id + (d + 1) - IdSpace}
  BY <1>1, <1>2, <1>3, <1>4, SuccIs
<1> QED BY <1>1, <1>4, <1>5 DEF Aged

\* The identifier that is taken now.
LEMMA AgedNow ==
    ASSUME NEW c \in Nat, NEW n \in 0..IdSpace - 1, NEW u \in Nat, Quota(c) + 1 <= u
    PROVE  Aged(n, c, Succ(n), u)
<1>1. IdSpace \in Nat /\ IdSpace > 2
  BY ClientAssumption
<1>2. 1 \in 1..IdSpace - 1 /\ Succ(n) \in {n + 1, n + 1 - IdSpace}
  BY <1>1, SuccIs
<1> QED BY <1>2 DEF Aged

LEMMA AccountedIsFresh ==
    ASSUME Accounted
    PROVE  IdsAreFresh
BY AgedIsFresh DEF Accounted, AgedReport, IdsAreFresh

---------------------------------------------------------------------------
(* What each step does to the account. *)

\* A move takes no identifier, and charges the call with no less than it has taken.
LEMMA MovesTotal ==
    ASSUME HostOK, HostOK', Busy, NEW h, h.stage = host.stage, h.at = host.at,
           h.attempt = host.attempt, h.op = host.op, h.waiting, h.attempt \in 1..Attempts,
           Moves(h, host'), host'.data = host.data, calls' = calls
    PROVE  /\ AttemptOK' /\ Total' \in Nat
           /\ Quota(calls) + (Base(Stage) + Taken(h, Stage)) <= Total'
           /\ Current' => host'.id = h.id
<1>1. /\ Attempts \in Nat \ {0} /\ Quota(1) \in Nat /\ calls \in Nat
      /\ Quota(calls) \in Nat /\ Quota(calls') = Quota(calls)
  <2>1. calls \in Nat /\ 1 \in Nat
    BY DEF HostOK
  <2> QED BY <2>1, QuotaFacts
<1>2. /\ Stage \in AllStages /\ host.at \in 1..3 /\ host.op # "none"
      /\ host.at \in 1..Len(Frames) /\ Len(Frames) \in 1..3
  <2>1. Stage \in AllStages /\ host.at \in 1..Len(Frames) /\ Len(Frames) \in 1..3
        /\ host.op # "none"
    BY FramesFacts
  <2>2. \A n \in 1..3 : \A m \in 1..n : m \in 1..3
    OBVIOUS
  <2> QED BY <2>1, <2>2
<1>3. /\ Base(Stage) \in Nat /\ Share(Stage) \in Nat /\ Taken(h, Stage) \in Nat
      /\ Base(Stage) + Share(Stage) <= Quota(1)
      /\ Taken(h, Stage) <= Share(Stage)
  BY <1>2, TakenBounds
<1>4. CASE host'.result # "none"
  <2>1. ~Busy'
    BY <1>4 DEF Busy
  <2>2. Total' = Quota(calls') + Quota(1)
    BY <2>1, TotalEnded
  <2>3. Total' \in Nat /\ Quota(calls) + (Base(Stage) + Taken(h, Stage)) <= Total'
    BY <1>1, <1>3, <2>2
  <2> QED BY <2>1, <2>3 DEF AttemptOK, Current
<1>5. CASE host'.result = "none"
  <2>1. Busy' /\ host'.op = host.op /\ ~host'.waiting
    BY <1>2, <1>5 DEF Busy, Moves
  <2>2. ASSUME NEW stage, Stage' = stage,
               host'.attempt \in 1..Attempts,
               Base(stage) + Taken(host', stage) >= Base(Stage) + Taken(h, Stage),
               Base(stage) \in Nat, Taken(host', stage) \in Nat
        PROVE  /\ AttemptOK' /\ Total' \in Nat
               /\ Quota(calls) + (Base(Stage) + Taken(h, Stage)) <= Total'
    <3>1. Total' = Quota(calls') + (Base(stage) + Taken(host', stage))
      BY <2>1, <2>2, TotalThen
    <3>2. Total' \in Nat /\ Quota(calls) + (Base(Stage) + Taken(h, Stage)) <= Total'
      BY <1>1, <1>3, <2>2, <3>1
    <3> QED BY <2>2, <3>2 DEF AttemptOK
  <2>3. CASE /\ host'.stage = h.stage /\ h.attempt # Attempts
             /\ host'.attempt = h.attempt + 1
             /\ host'.at = IF Stage = "get" THEN h.at ELSE 1
    <3>1. Stage' = Stage
      BY <2>1, <2>3, SameStageFacts
    <3>2. Taken(host', Stage) >= Taken(h, Stage) /\ host'.attempt \in 1..Attempts
      BY <1>2, <2>1, <2>3, TakenMoves
    <3>3. host'.at \in 1..3
      BY <1>2, <2>3
    <3>4. Taken(host', Stage) \in Nat
      BY <1>2, <3>2, <3>3, TakenBounds
    <3>5. Base(Stage) + Taken(host', Stage) >= Base(Stage) + Taken(h, Stage)
      BY <1>3, <3>2, <3>4
    <3>6. ~Current'
      BY <2>1, <2>3, <3>1 DEF Current, InTransaction, Transactions
    <3> QED BY <1>3, <2>2, <3>1, <3>2, <3>4, <3>5, <3>6
  <2>4. CASE /\ h.stage # Len(Program[h.op])
             /\ host'.stage = h.stage + 1 /\ host'.attempt = 1 /\ host'.at = 1
    <3> DEFINE next == Program[host.op][host.stage + 1]
    <3>1. Stage' = next
      BY <2>1, <2>4 DEF Stage
    <3>2. next \in AllStages /\ Base(next) = Base(Stage) + Share(Stage)
      BY <2>4, NextStageIs
    <3> HIDE DEF next
    <3>3. Taken(host', next) = 0
      BY <1>2, <2>1, <2>4, <3>2, TakenMoves
    <3>4. host'.attempt \in 1..Attempts
      BY <1>1, <2>4
    <3>5. /\ Base(next) + Taken(host', next) >= Base(Stage) + Taken(h, Stage)
          /\ Base(next) \in Nat /\ Taken(host', next) \in Nat
      BY <1>3, <3>2, <3>3
    <3>6. ~Current'
      BY <2>1, <2>4 DEF Current
    <3> QED BY <2>2, <3>1, <3>4, <3>5, <3>6
  <2>5. CASE /\ host'.stage = h.stage /\ host'.at = h.at + 1 /\ host'.id = h.id
             /\ host'.attempt = IF Stage = "get" THEN 1 ELSE h.attempt
    <3>1. Stage' = Stage /\ Frames' = Frames
      BY <2>1, <2>5, SameStageFacts
    <3>2. host'.at \in 1..Len(Frames)
      BY <2>1, <3>1 DEF HostOK
    <3>3. /\ Stage = "get" => Len(Frames) = 2
          /\ Stage \notin Transactions \cup {"login", "get"} => Len(Frames) = 1
      BY FramesFacts DEF AllStages, Simple, Dynamic, Transactions
    <3>4. \A n \in 1..3 : \A i \in 1..n : i + 1 \in 1..n =>
              (n = 2 => i = 1) /\ n # 1 /\ i + 1 \in 1..3
      OBVIOUS
    <3>5. /\ Stage = "get" => h.at = 1
          /\ Stage \in Transactions \cup {"login", "get"} /\ host'.at \in 1..3
      <4>1. host'.at = host.at + 1 /\ h.at = host.at
        BY <2>5
      <4>2. /\ Len(Frames) = 2 => host.at = 1
            /\ Len(Frames) # 1 /\ host.at + 1 \in 1..3
        BY <1>2, <3>2, <3>4, <4>1
      <4> QED BY <3>3, <4>1, <4>2
    <3>6. Taken(host', Stage) >= Taken(h, Stage) /\ host'.attempt \in 1..Attempts
      BY <1>2, <2>1, <2>5, <3>5, TakenMoves
    <3>7. Taken(host', Stage) \in Nat
      BY <1>2, <3>5, <3>6, TakenBounds
    <3>8. Base(Stage) + Taken(host', Stage) >= Base(Stage) + Taken(h, Stage)
      BY <1>3, <3>6, <3>7
    <3> QED BY <1>3, <2>2, <2>5, <3>1, <3>6, <3>7, <3>8
  <2> QED BY <1>5, <2>3, <2>4, <2>5 DEF Moves
<1> QED BY <1>4, <1>5

\* A request that is written takes an identifier unless its transaction has one.
LEMMA SendTakes ==
    ASSUME HostOK, AttemptOK, Busy, ~host.waiting,
           NEW fresh, fresh = (host.at = 1 \/ Stage \notin Transactions),
           NEW h, h.waiting, h.attempt = host.attempt, h.at = host.at
    PROVE  /\ Quota(calls) + (Base(Stage) + Taken(h, Stage)) = Total + (IF fresh THEN 1 ELSE 0)
           /\ ~fresh => Current
<1>1. /\ Attempts \in Nat \ {0} /\ host.attempt \in 1..Attempts
      /\ Quota(calls) \in Nat /\ Quota(1) \in Nat
  BY QuotaFacts, TotalBounds DEF AttemptOK
<1>2. Stage \in AllStages /\ host.at \in 1..3
  <2>1. Stage \in AllStages /\ host.at \in 1..Len(Frames) /\ Len(Frames) \in 1..3
    BY FramesFacts
  <2>2. \A n \in 1..3 : \A m \in 1..n : m \in 1..3
    OBVIOUS
  <2> QED BY <2>1, <2>2
<1>3. /\ Base(Stage) \in Nat /\ Taken(h, Stage) \in Nat /\ Taken(host, Stage) \in Nat
  BY <1>1, <1>2, TakenBounds
<1>4. Taken(h, Stage) = Taken(host, Stage) + (IF fresh THEN 1 ELSE 0)
  <2> DEFINE A == Attempts
             n == host.attempt
             at == host.at
  <2>1. A \in Nat /\ n \in 1..A /\ at \in 1..3 /\ fresh = (at = 1 \/ Stage \notin Transactions)
    BY <1>1, <1>2
  <2>2. CASE Stage = "login"
    <3>1. /\ Taken(h, Stage) = 3 * (n - 1) + (at - 1) + 1
          /\ Taken(host, Stage) = 3 * (n - 1) + (at - 1) + 0
      BY <2>2 DEF Taken, Transactions
    <3>2. fresh
      BY <2>2 DEF Transactions
    <3> HIDE DEF A, n, at
    <3> QED BY <2>1, <3>1, <3>2
  <2>3. CASE Stage = "get"
    <3>1. /\ Taken(h, Stage) = (IF at = 1 THEN 0 ELSE A) + (n - 1) + 1
          /\ Taken(host, Stage) = (IF at = 1 THEN 0 ELSE A) + (n - 1) + 0
      BY <2>3 DEF Taken, Transactions
    <3>2. fresh
      BY <2>3 DEF Transactions
    <3> HIDE DEF A, n, at
    <3> QED BY <2>1, <3>1, <3>2
  <2>4. CASE Stage \in Transactions
    <3>1. /\ Taken(h, Stage) = (n - 1) + 1
          /\ Taken(host, Stage) = (n - 1) + (IF at = 1 THEN 0 ELSE 1)
      BY <2>4 DEF Taken, Transactions
    <3>2. (IF fresh THEN 1 ELSE 0) = (IF at = 1 THEN 1 ELSE 0)
      BY <2>1, <2>4
    <3> HIDE DEF A, n, at
    <3> QED BY <2>1, <3>1, <3>2
  <2>5. CASE Stage \notin Transactions \cup {"login", "get"}
    <3>1. /\ Taken(h, Stage) = (n - 1) + 1
          /\ Taken(host, Stage) = (n - 1) + 0
      BY <2>5 DEF Taken
    <3>2. fresh
      BY <2>5
    <3> HIDE DEF A, n, at
    <3> QED BY <2>1, <3>1, <3>2
  <2> QED BY <2>2, <2>3, <2>4, <2>5
<1>5. Total = Quota(calls) + (Base(Stage) + Taken(host, Stage))
  BY DEF Total
<1>6. ASSUME ~fresh PROVE Current
  <2>1. host.at # 1 /\ Stage \in Transactions
    BY <1>6, Zenon
  <2>2. \A n \in 1..3 : n # 1 => n > 1
    OBVIOUS
  <2>3. host.at > 1
    BY <1>2, <2>1, <2>2
  <2> QED BY <2>1, <2>3 DEF Current, InTransaction
<1>7. (IF fresh THEN 1 ELSE 0) \in {0, 1}
  OBVIOUS
<1>8. Quota(calls) + (Base(Stage) + Taken(h, Stage)) = Total + (IF fresh THEN 1 ELSE 0)
  BY <1>1, <1>3, <1>4, <1>5, <1>7
<1> QED BY <1>6, <1>8

\* What writing a request does to the identifiers that had been taken, and to the one it has.
LEMMA SendAges ==
    ASSUME HostOK, HostOK', Accounted, Busy, ~host.waiting, calls' = calls, AttemptOK',
           NEW K \in Nat, IdSpace > Quota(K + 1), NEW h, h.waiting,
           h.attempt = host.attempt, h.at = host.at,
           Quota(calls) + (Base(Stage) + Taken(h, Stage)) <= Total',
           NEW fresh, fresh = (host.at = 1 \/ Stage \notin Transactions),
           NEW i, i = (IF fresh THEN nextId ELSE host.id),
           nextId' = (IF fresh THEN NextRequestId ELSE nextId)
    PROVE  /\ nextId' \in 0..IdSpace - 1
           /\ Aged(i, calls, nextId', Total')
           /\ \A id, c : calls <= c + K /\ Aged(id, c, nextId, Total) => Aged(id, c, nextId', Total')
<1>1. /\ Total \in Nat /\ Total' \in Nat /\ calls \in Nat
      /\ Quota(calls) \in Nat /\ Quota(1) \in Nat
      /\ Quota(calls) <= Total /\ Total' <= Quota(calls) + Quota(1)
  BY TotalBounds, TotalBoundsThen DEF Accounted
<1>2. /\ Quota(calls) + (Base(Stage) + Taken(h, Stage)) = Total + (IF fresh THEN 1 ELSE 0)
      /\ ~fresh => Current
  BY SendTakes DEF Accounted
<1>3. Total + (IF fresh THEN 1 ELSE 0) <= Total' /\ nextId \in 0..IdSpace - 1
  BY <1>2 DEF Accounted
<1>4. CASE fresh
  <2>1. nextId' = Succ(nextId) /\ Total + 1 <= Total' /\ i = nextId
    BY <1>3, <1>4 DEF Succ, NextRequestId
  <2>2. Quota(calls) + 1 <= Total'
    BY <1>1, <2>1
  <2>3. Aged(i, calls, nextId', Total') /\ nextId' \in 0..IdSpace - 1
    BY <1>1, <1>3, <2>1, <2>2, AgedNow, SuccIs
  <2>4. ASSUME NEW id, NEW c, calls <= c + K, Aged(id, c, nextId, Total)
        PROVE  Aged(id, c, nextId', Total')
    BY <1>1, <1>3, <2>1, <2>4, AgedAdvances
  <2> QED BY <2>3, <2>4
<1>5. CASE ~fresh
  <2>1. nextId' = nextId /\ Total <= Total' /\ i = host.id /\ Current
    BY <1>1, <1>2, <1>3, <1>5
  <2>2. ASSUME NEW id, NEW c, Aged(id, c, nextId, Total)
        PROVE  Aged(id, c, nextId', Total')
    BY <1>1, <2>1, <2>2, AgedGrows
  <2> QED BY <1>3, <2>1, <2>2 DEF Accounted
<1> QED BY <1>4, <1>5

LEMMA SendAccounted ==
    ASSUME HostOK, HostOK', RequestsOK, Accounted, Send,
           NEW K \in Nat, IdSpace > Quota(K + 1), Recent(K)
    PROVE  Accounted'
<1> DEFINE fresh == host.at = 1 \/ Stage \notin Transactions
           id == IF fresh THEN nextId ELSE host.id
           sending == [host EXCEPT !.id = id, !.waiting = TRUE]
<1>1. /\ Busy /\ ~host.waiting /\ UNCHANGED <<answers, calls>>
      /\ nextId' = IF fresh THEN NextRequestId ELSE nextId
      /\ requests' = requests \/ requests' = Append(requests, Frame(id))
      /\ host' = sending \/ host' = Unanswered(sending)
      /\ host.attempt \in 1..Attempts
  BY DEF Send, Accounted, AttemptOK
<1>2. PICK h : h = sending
  OBVIOUS
<1>3. /\ HostShape(h) /\ h.op = host.op /\ h.data = host.data /\ h.stage = host.stage
      /\ h.attempt = host.attempt /\ h.at = host.at /\ h.result = "none" /\ h.waiting
      /\ h.id = id
  <2>1. HostShape(host) /\ host.result = "none"
    BY <1>1 DEF HostOK, Busy
  <2> HIDE DEF id
  <2>2. h = [host EXCEPT !.id = id, !.waiting = TRUE]
    BY <1>2
  <2> HIDE DEF sending
  <2> QED BY <2>1, <2>2 DEF HostShape
<1>4. PICK i : i = id
  OBVIOUS
<1>5. \E b : /\ b = (host.at = 1 \/ Stage \notin Transactions)
             /\ i = (IF b THEN nextId ELSE host.id)
             /\ nextId' = (IF b THEN NextRequestId ELSE nextId)
  BY <1>1, <1>4
<1>6. /\ requests' = requests \/ requests' = Append(requests, Frame(i))
      /\ host' = h \/ host' = Unanswered(h)
      /\ h.id = i
  BY <1>1, <1>2, <1>3, <1>4
<1> HIDE DEF id, sending, fresh
<1>7. /\ AttemptOK'
      /\ Quota(calls) + (Base(Stage) + Taken(h, Stage)) <= Total'
      /\ Current' => host'.id = i
  <2>1. CASE host' = h
    <3>1. Stage' = Stage /\ Busy' /\ calls' = calls
      <4>1. Stage' = Stage
        BY <1>3, <2>1, SameStageFacts
      <4> QED BY <1>1, <1>3, <2>1, <4>1 DEF Busy
    <3>2. AttemptOK' /\ host'.id = i
      BY <1>1, <1>3, <1>6, <2>1 DEF AttemptOK
    <3>3. Total' = Quota(calls') + (Base(Stage) + Taken(host', Stage))
      BY <3>1, TotalThen
    <3>4. Total' \in Nat
      BY <3>2, TotalBoundsThen
    <3>5. Total' = Quota(calls) + (Base(Stage) + Taken(h, Stage))
      BY <2>1, <3>1, <3>3
    <3> QED BY <3>2, <3>4, <3>5
  <2>2. CASE host' = Unanswered(h)
    <3>1. Moves(h, host')
      BY <1>3, <2>2, UnansweredMoves
    <3>2. host'.data = host.data
      <4>1. host' = NextStage(h) \/ host' = Again(h)
        BY <2>2 DEF Unanswered
      <4> QED BY <1>3, <4>1, NextStageFacts, AgainFacts
    <3>3. h.attempt \in 1..Attempts
      BY <1>1, <1>3
    <3> QED BY <1>1, <1>3, <1>6, <3>1, <3>2, <3>3, MovesTotal
  <2> QED BY <1>6, <2>1, <2>2
<1>8. /\ nextId' \in 0..IdSpace - 1
      /\ Aged(i, calls, nextId', Total')
      /\ \A j, c : calls <= c + K /\ Aged(j, c, nextId, Total) => Aged(j, c, nextId', Total')
  BY <1>1, <1>3, <1>5, <1>7, SendAges
<1>9. /\ \A k \in DOMAIN requests : Aged(requests[k].id, requests[k].from[1], nextId', Total')
      /\ \A k \in DOMAIN answers : Aged(answers[k].id, answers[k].from[1], nextId', Total')
  BY <1>8 DEF Accounted, AgedReport, Recent
<1>10. \A k \in DOMAIN requests' : Aged(requests'[k].id, requests'[k].from[1], nextId', Total')
  <2>1. CASE requests' = requests
    BY <1>9, <2>1
  <2>2. CASE requests' = Append(requests, Frame(i))
    <3>1. /\ DOMAIN requests' = 1..Len(requests) + 1
          /\ DOMAIN requests = 1..Len(requests) /\ Len(requests) \in Nat
          /\ requests'[Len(requests) + 1] = Frame(i)
          /\ \A j \in DOMAIN requests : requests'[j] = requests[j]
      BY <2>2, AppendFacts DEF RequestsOK
    <3>2. \A n \in Nat : \A j \in 1..n + 1 : j \notin 1..n => j = n + 1
      OBVIOUS
    <3>3. Frame(i).id = i /\ Frame(i).from[1] = calls
      BY DEF Frame, Position
    <3> QED BY <1>8, <1>9, <3>1, <3>2, <3>3
  <2> QED BY <1>6, <2>1, <2>2
<1>11. (Current => Aged(host.id, calls, nextId, Total))'
  <2>1. Current' => Aged(host'.id, calls', nextId', Total')
    BY <1>1, <1>7, <1>8
  <2> QED BY <2>1 DEF Aged, Quota
<1>12. /\ (\A k \in DOMAIN requests : AgedReport(requests[k]))'
       /\ (\A k \in DOMAIN answers : AgedReport(answers[k]))'
  BY <1>1, <1>9, <1>10 DEF AgedReport, Aged, Quota
<1> QED BY <1>7, <1>8, <1>11, <1>12 DEF Accounted

\* No identifier is taken, and the call is charged with no less than before.
LEMMA KeptAccounted ==
    ASSUME HostOK, HostOK', Accounted, AttemptOK', nextId' = nextId, Total <= Total',
           Current' => Aged(host'.id, calls', nextId, Total),
           \A i \in DOMAIN requests' :
               Aged(requests'[i].id, requests'[i].from[1], nextId, Total),
           \A i \in DOMAIN answers' : Aged(answers'[i].id, answers'[i].from[1], nextId, Total)
    PROVE  Accounted'
<1>1. Total \in Nat /\ Total' \in Nat
  BY TotalBounds, TotalBoundsThen DEF Accounted
<1>2. \A id, c : Aged(id, c, nextId, Total) => Aged(id, c, nextId', Total')
  BY <1>1, AgedGrows
<1>3. /\ Current' => Aged(host'.id, calls', nextId', Total')
      /\ \A i \in DOMAIN requests' :
             Aged(requests'[i].id, requests'[i].from[1], nextId', Total')
      /\ \A i \in DOMAIN answers' : Aged(answers'[i].id, answers'[i].from[1], nextId', Total')
  BY <1>2
<1>4. /\ (Current => Aged(host.id, calls, nextId, Total))'
      /\ (\A k \in DOMAIN requests : AgedReport(requests[k]))'
      /\ (\A k \in DOMAIN answers : AgedReport(answers[k]))'
  BY <1>3 DEF AgedReport, Aged, Quota
<1> QED BY <1>4 DEF Accounted

\* Nothing but the reports under way changes.
LEMMA UnmovedAccounted ==
    ASSUME HostOK, HostOK', Accounted, UNCHANGED <<host, nextId, calls>>,
           \A i \in DOMAIN requests' :
               Aged(requests'[i].id, requests'[i].from[1], nextId, Total),
           \A i \in DOMAIN answers' : Aged(answers'[i].id, answers'[i].from[1], nextId, Total)
    PROVE  Accounted'
<1>1. Stage' = Stage /\ Busy' = Busy
  BY DEF Stage, Busy
<1>2. Current' = Current
  BY <1>1 DEF Current, InTransaction
<1>3. Total' = Total /\ AttemptOK'
  BY <1>1 DEF Total, Quota, Base, Taken, Accounted, AttemptOK
<1>4. Total \in Nat
  BY TotalBounds DEF Accounted
<1>5. Total <= Total' /\ (Current' => Aged(host'.id, calls', nextId, Total))
  BY <1>2, <1>3, <1>4 DEF Accounted
<1> QED BY <1>3, <1>5, KeptAccounted

\* The move of a call that has been waiting.
LEMMA WaitingAccounted ==
    ASSUME HostOK, HostOK', Accounted, Busy, host.waiting, Moves(host, host'),
           host'.data = host.data, UNCHANGED <<nextId, requests, calls>>,
           \A i \in DOMAIN answers' : Aged(answers'[i].id, answers'[i].from[1], nextId, Total)
    PROVE  Accounted'
<1>1. host.attempt \in 1..Attempts /\ Current
  BY DEF Accounted, AttemptOK, Current
<1>2. /\ AttemptOK' /\ Total' \in Nat
      /\ Quota(calls) + (Base(Stage) + Taken(host, Stage)) <= Total'
      /\ Current' => host'.id = host.id
  BY <1>1, MovesTotal
<1>3. Total <= Total'
  BY <1>2 DEF Total
<1> QED BY <1>1, <1>2, <1>3, KeptAccounted DEF Accounted, AgedReport

LEMMA TimeoutAccounted ==
    ASSUME HostOK, HostOK', Accounted, Timeout
    PROVE  Accounted'
<1>1. /\ Busy /\ host.waiting /\ host' = Unanswered(host)
      /\ UNCHANGED <<nextId, requests, answers, calls>>
      /\ HostShape(host) /\ host.result = "none"
  BY DEF Timeout, HostOK, Busy
<1>2. Moves(host, host')
  BY <1>1, UnansweredMoves
<1>3. host'.data = host.data
  <2>1. host' = NextStage(host) \/ host' = Again(host)
    BY <1>1 DEF Unanswered
  <2> QED BY <1>1, <2>1, NextStageFacts, AgainFacts
<1> QED BY <1>1, <1>2, <1>3, WaitingAccounted DEF Accounted, AgedReport

LEMMA ProgressedData ==
    ASSUME HostOK, Busy, NEW a, Matches(a)
    PROVE  Progressed(a).data = host.data
<1> DEFINE h == Learned(a)
           g == Progressed(a)
<1>1. HostShape(h) /\ h.data = host.data
  BY LearnedFacts DEF Matches
<1>2. g = IF h.result # "none" THEN h
          ELSE IF LastOfStage(h, a) THEN NextStage(h)
          ELSE [h EXCEPT !.waiting = FALSE, !.at = @ + 1,
                         !.attempt = IF Stage = "get" THEN 1 ELSE @]
  BY DEF Progressed
<1> SUFFICES g.data = host.data
  OBVIOUS
<1> HIDE DEF h, g
<1>3. CASE g = h
  BY <1>1, <1>3
<1>4. CASE h.result = "none" /\ g = NextStage(h)
  BY <1>1, <1>4, NextStageFacts
<1>5. CASE g = [h EXCEPT !.waiting = FALSE, !.at = @ + 1,
                         !.attempt = IF Stage = "get" THEN 1 ELSE @]
  BY <1>1, <1>5 DEF HostShape
<1> QED BY <1>2, <1>3, <1>4, <1>5

LEMMA ReceiveAccounted ==
    ASSUME HostOK, HostOK', RequestsOK, Accounted, Receive
    PROVE  Accounted'
<1> DEFINE a == Head(answers)
<1>1. /\ Busy /\ host.waiting /\ answers # <<>> /\ answers' = Tail(answers)
      /\ UNCHANGED <<nextId, requests, calls>>
      /\ \/ host' = host
         \/ Matches(a) /\ host' = Progressed(a)
         \/ host' = Again(host)
         \/ host' = Finished(host, "failed")
  BY DEF Receive
<1> HIDE DEF a
<1>2. HostShape(host) /\ host.result = "none"
  BY <1>1 DEF HostOK, Busy
<1>3. \A i \in DOMAIN answers : Aged(answers[i].id, answers[i].from[1], nextId, Total)
  BY DEF Accounted, AgedReport
<1>4. \A i \in DOMAIN answers' : Aged(answers'[i].id, answers'[i].from[1], nextId, Total)
  BY <1>1, <1>3, TailFacts DEF RequestsOK
<1>5. CASE host' = host
  BY <1>1, <1>4, <1>5, UnmovedAccounted DEF Accounted, AgedReport
<1>6. CASE Matches(a) /\ host' = Progressed(a)
  BY <1>1, <1>4, <1>6, ProgressedMoves, ProgressedData, WaitingAccounted
<1>7. CASE host' = Again(host)
  BY <1>1, <1>2, <1>4, <1>7, AgainMoves, AgainFacts, WaitingAccounted
<1>8. CASE host' = Finished(host, "failed")
  BY <1>1, <1>2, <1>4, <1>8, FinishedMoves, FinishedFacts, WaitingAccounted
<1> QED BY <1>1, <1>5, <1>6, <1>7, <1>8

LEMMA CallAccounted ==
    ASSUME Accounted, HostOK, HostOK', RequestsOK,
           NEW op \in DOMAIN Program, NEW data, Call(op, data)
    PROVE  Accounted'
<1>1. /\ ~Busy /\ calls' = calls + 1
      /\ UNCHANGED <<nextId, requests, answers>>
      /\ host' = [NotCalled EXCEPT !.op = op, !.data = data]
  BY DEF Call
<1>2. /\ host'.op = op /\ host'.stage = 1 /\ host'.at = 1 /\ host'.attempt = 1
      /\ host'.waiting = FALSE /\ host'.result = "none"
  BY <1>1 DEF NotCalled
<1>3. ~Current'
  BY <1>2 DEF Current, InTransaction
<1>4. AttemptOK'
  <2>1. 1 \in 1..Attempts
    BY ClientAssumption
  <2> QED BY <1>2, <2>1 DEF AttemptOK
<1>5. /\ Total' \in Nat /\ Quota(calls') <= Total' /\ calls \in Nat /\ Total \in Nat
      /\ Quota(calls) \in Nat /\ Quota(1) \in Nat /\ Quota(calls') \in Nat
  BY <1>4, TotalBounds, TotalBoundsThen DEF Accounted
<1>6. Quota(calls + 1) = Quota(calls) + Quota(1)
  BY <1>5, QuotaFacts
<1>7. Quota(calls') = Quota(calls + 1)
  BY <1>1
<1>8. Total = Quota(calls) + Quota(1)
  BY <1>1 DEF Total
<1>9. Total <= Total'
  BY <1>5, <1>6, <1>7, <1>8
<1> QED BY <1>1, <1>3, <1>4, <1>9, KeptAccounted DEF Accounted, AgedReport

LEMMA NewProcessAccounted ==
    ASSUME HostOK', NewProcess, requests = <<>>
    PROVE  Accounted'
<1>1. host' = NotCalled /\ nextId' = 0 /\ answers' = <<>> /\ requests' = <<>>
  BY DEF NewProcess
<1>2. ~Busy' /\ ~Current'
  BY <1>1 DEF Busy, NotCalled, Current
<1>3. nextId' \in 0..IdSpace - 1
  <2>1. IdSpace \in Nat \ {0}
    BY ClientAssumption
  <2> QED BY <1>1, <2>1
<1> QED BY <1>1, <1>2, <1>3, EmptyFacts DEF Accounted, AttemptOK

LEMMA DeviceServesAccounted ==
    ASSUME HostOK, HostOK', RequestsOK, Accounted, DeviceServes
    PROVE  Accounted'
<1>1. /\ requests # <<>> /\ requests' = Tail(requests) /\ UNCHANGED <<host, nextId, calls>>
      /\ \/ answers' = answers
         \/ \E e : /\ answers' = Append(answers, e)
                   /\ e.id = Head(requests).id /\ e.from = Head(requests).from
  <2>1. PICK o : \/ answers' = answers
                 \/ answers' = Append(answers, [op |-> Head(requests).op,
                        id |-> Head(requests).id, status |-> o.status,
                        value |-> o.value, from |-> Head(requests).from])
    BY DEF DeviceServes
  <2> QED BY <2>1 DEF DeviceServes
<1>2. /\ \A i \in DOMAIN requests : Aged(requests[i].id, requests[i].from[1], nextId, Total)
      /\ \A i \in DOMAIN answers : Aged(answers[i].id, answers[i].from[1], nextId, Total)
  BY DEF Accounted, AgedReport
<1>3. /\ Aged(Head(requests).id, Head(requests).from[1], nextId, Total)
      /\ \A i \in DOMAIN requests' : Aged(requests'[i].id, requests'[i].from[1], nextId, Total)
  BY <1>1, <1>2, TailFacts DEF RequestsOK
<1>4. \A i \in DOMAIN answers' : Aged(answers'[i].id, answers'[i].from[1], nextId, Total)
  <2>1. ASSUME NEW e, answers' = Append(answers, e), e.id = Head(requests).id,
               e.from = Head(requests).from
        PROVE  \A i \in DOMAIN answers' : Aged(answers'[i].id, answers'[i].from[1], nextId, Total)
    <3>1. /\ DOMAIN answers' = 1..Len(answers) + 1 /\ DOMAIN answers = 1..Len(answers)
          /\ Len(answers) \in Nat /\ answers'[Len(answers) + 1] = e
          /\ \A j \in DOMAIN answers : answers'[j] = answers[j]
      BY <2>1, AppendFacts DEF RequestsOK
    <3>2. \A n \in Nat : \A j \in 1..n + 1 : j \notin 1..n => j = n + 1
      OBVIOUS
    <3>3. Aged(e.id, e.from[1], nextId, Total)
      BY <1>3, <2>1
    <3> QED BY <1>2, <3>1, <3>2, <3>3
  <2> QED BY <1>1, <1>2, <2>1
<1> QED BY <1>1, <1>3, <1>4, UnmovedAccounted

LEMMA NextAccounted ==
    ASSUME IInv, IInv', Accounted, NEW K \in Nat, IdSpace > Quota(K + 1), Recent(K),
           [Next]_vars, [StartsClean]_vars
    PROVE  Accounted'
<1>1. HostOK /\ HostOK' /\ RequestsOK
  BY DEF IInv
<1>2. /\ \A i \in DOMAIN requests : Aged(requests[i].id, requests[i].from[1], nextId, Total)
      /\ \A i \in DOMAIN answers : Aged(answers[i].id, answers[i].from[1], nextId, Total)
  BY DEF Accounted, AgedReport
<1>3. CASE Send
  BY <1>1, <1>3, SendAccounted
<1>4. CASE Receive
  BY <1>1, <1>4, ReceiveAccounted
<1>5. CASE Timeout
  BY <1>1, <1>5, TimeoutAccounted
<1>6. CASE Calls
  <2>1. PICK op \in DOMAIN Program : \E data : Call(op, data)
    BY <1>6, CallsAre
  <2> QED BY <1>1, <2>1, CallAccounted
<1>7. CASE NewProcess /\ StartsClean
  BY <1>1, <1>7, NewProcessAccounted DEF StartsClean
<1>8. CASE DeviceServes
  BY <1>1, <1>8, DeviceServesAccounted
<1>9. CASE TransportReset
  BY <1>1, <1>2, <1>9, EmptyFacts, UnmovedAccounted DEF TransportReset
<1>10. CASE SessionExpires
  BY <1>1, <1>2, <1>10, UnmovedAccounted DEF SessionExpires
<1>11. CASE UNCHANGED vars
  BY <1>1, <1>2, <1>11, UnmovedAccounted DEF vars
<1> QED BY <1>3, <1>4, <1>5, <1>6, <1>7, <1>8, <1>9, <1>10, <1>11 DEF Next

LEMMA InitAccounted ==
    ASSUME Init
    PROVE  Accounted
<1>1. /\ host = NotCalled /\ nextId = 0 /\ requests = <<>> /\ answers = <<>>
  BY DEF Init
<1>2. ~Busy /\ ~Current
  BY <1>1 DEF Busy, NotCalled, Current
<1>3. nextId \in 0..IdSpace - 1
  <2>1. IdSpace \in Nat \ {0}
    BY ClientAssumption
  <2> QED BY <1>1, <2>1
<1> QED BY <1>1, <1>2, <1>3, EmptyFacts DEF Accounted, AttemptOK

---------------------------------------------------------------------------
(* The theorems. *)

\* What holds of a call that has ended, of the answers under way and of the transaction being
\* sent is inductive, as long as the identifiers are fresh.
THEOREM Inductive == Spec /\ []IdsAreFresh => []IInv
<1>1. Init => IInv
  BY InitInv
<1>2. IInv /\ IdsAreFresh /\ [Next]_vars => IInv'
  BY NextInv
<1> QED BY <1>1, <1>2, PTL DEF Spec

LEMMA InvImplies ==
    ASSUME IInv
    PROVE  SuccessIsTrue /\ UnconfirmedIsOld /\ StaleDiscarded
<1>1. SuccessIsTrue
  BY DEF IInv, Ended, SuccessIsTrue
<1>2. UnconfirmedIsOld
  <2> SUFFICES ASSUME host.result = "unconfirmed"
               PROVE  /\ device.credential # NewCredential
                      /\ \A i \in DOMAIN requests : requests[i].op # "PASSWORD_SET"
    BY DEF UnconfirmedIsOld
  <2>1. requests = <<>> /\ device.credential.salt # calls
    BY DEF IInv, Ended
  <2>2. NewCredential.salt = calls
    BY DEF NewCredential
  <2> QED BY <2>1, <2>2, EmptyFacts
<1>3. StaleDiscarded
  <2> SUFFICES ASSUME Busy, host.waiting, answers # <<>>, Matches(Head(answers))
               PROVE  Head(answers).from = Position
    BY DEF StaleDiscarded
  <2>1. 1 \in DOMAIN answers /\ Head(answers) = answers[1]
    BY TailFacts DEF IInv, RequestsOK
  <2> QED BY <2>1 DEF Matches, IInv, MatchingAnswer, Current
<1> QED BY <1>1, <1>2, <1>3

\* A call that reports success has done what it was asked for, whatever was lost, late or repeated
\* on the way, in every run in which no identifier is taken that is still under way.
THEOREM SuccessTrue == Spec /\ []IdsAreFresh => []SuccessIsTrue
<1>1. IInv => SuccessIsTrue
  BY InvImplies
<1> QED BY <1>1, Inductive, PTL

\* In such a run PasswordSetUnconfirmed means that the device has the old password, for good.
THEOREM UnconfirmedOld == Spec /\ []IdsAreFresh => []UnconfirmedIsOld
<1>1. IInv => UnconfirmedIsOld
  BY InvImplies
<1> QED BY <1>1, Inductive, PTL

\* In such a run no exchange takes the answer to an earlier request for its own.
THEOREM StaleAreDiscarded == Spec /\ []IdsAreFresh => []StaleDiscarded
<1>1. IInv => StaleDiscarded
  BY InvImplies
<1> QED BY <1>1, Inductive, PTL

LEMMA AccountedStep ==
    ASSUME NEW K \in Nat, IdSpace > Quota(K + 1), IInv, Accounted, Recent(K), [Next]_vars,
           [StartsClean]_vars
    PROVE  IInv' /\ Accounted'
<1>1. IInv'
  BY AccountedIsFresh, NextInv
<1> QED BY <1>1, NextAccounted

\* Identifiers come round, yet none is taken that is under way: it is enough that no report is
\* more than K calls old, for a K with 6 * Attempts * (K + 1) identifiers fewer than there are (13,
\* with 256 of them and three attempts), and that no process finds the requests of another queued.
\* Any number of calls, processes and faults is allowed for.
THEOREM IdsStayFresh ==
    ASSUME NEW K \in Nat, IdSpace > 6 * Attempts * (K + 1)
    PROVE  Spec /\ []Recent(K) /\ [][StartsClean]_vars => [](IInv /\ IdsAreFresh)
<1> DEFINE I == IInv /\ Accounted
<1>1. IdSpace > Quota(K + 1)
  BY DEF Quota
<1>2. Init => I
  BY InitInv, InitAccounted
<1>3. I /\ Recent(K) /\ [Next]_vars /\ [StartsClean]_vars => I'
  BY <1>1, AccountedStep
<1>4. I => IInv /\ IdsAreFresh
  BY AccountedIsFresh
<1> QED BY <1>2, <1>3, <1>4, PTL DEF Spec

\* In such runs, then, success is true, an unconfirmed password is the old one and stale answers
\* are discarded, though the identifiers come round.
THEOREM ClientIsRight ==
    ASSUME NEW K \in Nat, IdSpace > 6 * Attempts * (K + 1)
    PROVE  Spec /\ []Recent(K) /\ [][StartsClean]_vars
             => [](SuccessIsTrue /\ UnconfirmedIsOld /\ StaleDiscarded)
<1>1. IInv => SuccessIsTrue /\ UnconfirmedIsOld /\ StaleDiscarded
  BY InvImplies
<1> QED BY <1>1, IdsStayFresh, PTL

=============================================================================
