------------------------- MODULE UsbTransportProofs -------------------------
(***************************************************************************)
(* Proofs, for any queue depth, status codes and number of status changes, *)
(* of the safety properties of UsbTransport.                               *)
(***************************************************************************)
EXTENDS UsbTransport, TLAPS

\* Requests carry the generation in which they were sent.
Sent == {r \in Request : r.generation = r.since}

WorkQueues == {<<>>, <<"hid">>, <<"notify">>, <<"hid", "notify">>, <<"notify", "hid">>}

ConnStates == {"HID", "NONE", "POWERED"}

ThreadType ==
    {Idle}
      \cup [at : {"raised"}, event : ConnStates]
      \cup [at : {"reset", "offline", "advanced", "purged"}, event : ConnStates, before : Known]
      \cup [at : {"reclaim", "reclaimed", "publish"}, event : ConnStates, status : Known]
      \cup [at : {"holding", "writing"}]
      \cup [at : {"served"}, request : Sent]

UsbType ==
    {Idle}
      \cup [at : {"sampled", "checked"}, request : Sent]
      \cup [at : {"queued", "ready", "completed", "given"}]

Types ==
    /\ TypeOK
    /\ thread \in ThreadType
    /\ usb \in UsbType
    /\ work \in WorkQueues
    /\ queue \in Seq(Sent)

Resetting == thread.at \in {"raised", "reset", "offline", "advanced", "purged"}
Serving == thread.at \in {"holding", "served", "writing"}
Completing == usb.at \in {"ready", "completed"}

\* A transfer that was not written under a waiting notification has seen no boundary since, as
\* long as one is to come: the reset that comes will leave it alone.
HeldIsRecent ==
    /\ (endpoint.holds \/ Completing) /\ ~ghost.early /\ (Pending("notify") \/ Resetting)
         => ~Reclaims(status)
    /\ thread.at \in {"reclaim", "reclaimed"} /\ ~ghost.early => ~endpoint.holds /\ ~Completing
    /\ thread.at = "reclaimed" => ~inFlight

\* The permit is free, or the handler has it, or a transfer, or the completion of one.
OnePermit ==
    ~ghost.early =>
        /\ permit = 1 => ~endpoint.holds /\ ~inFlight /\ ~Completing /\ ~Serving
        /\ Serving => /\ ~endpoint.holds /\ ~Completing
                      /\ inFlight <=> thread.at = "writing"
        /\ endpoint.holds \/ usb.at = "ready" => inFlight
        /\ usb.at = "completed" => ~inFlight
        /\ Completing => ~endpoint.holds

\* A permit that is taken is on its way back.
PermitAccounted ==
    permit = 0 => \/ thread.at \in {"holding", "served", "reclaimed"}
                  \/ inFlight \/ usb.at = "completed"

\* The transport is offline from the reset on until it publishes the new state.
OnlineSteady ==
    /\ thread.at \in {"served", "writing"} => online
    /\ thread.at \in {"offline", "advanced", "purged", "reclaim", "reclaimed", "publish"} => ~online

\* QueueIsAttended while the thread is busy: by what is there when it is done.
AttendedLater ==
    /\ thread.at \in {"purged", "reclaim", "reclaimed", "publish"} /\ queue # <<>> =>
          work # <<>> \/ usb.at = "queued" \/ ghost.unsubmitted
    /\ thread.at = "writing" =>
          inFlight \/ usb.at \in {"completed", "given"} \/ work # <<>> \/ ghost.unsubmitted

\* A transfer in flight that the endpoint no longer has was dropped by a boundary, and unless
\* another status has replaced it, a reset will still see it.
DroppedIsKnown ==
    /\ inFlight /\ ~endpoint.holds /\ usb.at # "ready" /\ thread.at \notin {"writing", "reclaim"} =>
          ghost.boundary \/ ghost.missed
    /\ ghost.boundary /\ ~ghost.missed =>
          /\ Reclaims(status)
          /\ Pending("notify") \/ Resetting
          /\ thread.at \in {"reset", "offline", "advanced", "purged"} /\ thread.before # status =>
                Pending("notify")

Coordination ==
    /\ HeldIsRecent /\ OnePermit /\ PermitAccounted
    /\ OnlineSteady /\ AttendedLater /\ DroppedIsKnown
    /\ ServedInItsGeneration /\ QueueIsAttended

IInv == Types /\ Coordination

---------------------------------------------------------------------------
(* The work queue, and the places of the two contexts. *)

LEMMA PendingIn ==
    ASSUME work \in WorkQueues
    PROVE  /\ Pending("hid") <=> work \in {<<"hid">>, <<"hid", "notify">>, <<"notify", "hid">>}
           /\ Pending("notify") <=> work \in {<<"notify">>, <<"hid", "notify">>, <<"notify", "hid">>}
BY DEF WorkQueues, Pending

LEMMA PendingInNext ==
    ASSUME work' \in WorkQueues
    PROVE  Pending("notify")' <=> work' \in {<<"notify">>, <<"hid", "notify">>, <<"notify", "hid">>}
BY DEF WorkQueues, Pending

LEMMA LastOfAppend ==
    ASSUME NEW S, NEW s \in Seq(S), NEW b \in S
    PROVE  Append(s, b)[Len(s) + 1] = b
OBVIOUS

LEMMA AppendToOne ==
    ASSUME NEW S, NEW s \in Seq(S), NEW b \in S, Len(s) = 1
    PROVE  /\ Append(s, b) \in Seq(S) /\ Len(Append(s, b)) = 2
           /\ Append(s, b)[1] = s[1] /\ Append(s, b)[2] = b
<1>1. Append(s, b) \in Seq(S)
  OBVIOUS
<1>2. Len(Append(s, b)) = 2
  OBVIOUS
<1>3. Append(s, b)[1] = s[1]
  OBVIOUS
<1>4. Append(s, b)[2] = b
  <2> DEFINE n == Len(s) + 1
  <2>1. Append(s, b)[n] = b
    BY LastOfAppend
  <2>2. n = 2
    OBVIOUS
  <2> HIDE DEF n
  <2> QED BY <2>1, <2>2
<1> QED BY <1>1, <1>2, <1>3, <1>4

LEMMA TwoElements ==
    ASSUME NEW S, NEW s \in Seq(S), Len(s) = 2,
           NEW a \in S, NEW b \in S, s[1] = a, s[2] = b
    PROVE  s = <<a, b>>
OBVIOUS

LEMMA OneElement ==
    ASSUME NEW S, NEW a \in S
    PROVE  <<a>> \in Seq(S) /\ Len(<<a>>) = 1 /\ <<a>>[1] = a
OBVIOUS

LEMMA AppendOne ==
    ASSUME NEW S, NEW a \in S, NEW b \in S
    PROVE  Append(<<a>>, b) = <<a, b>>
<1> DEFINE s == <<a>>
<1>1. s \in Seq(S) /\ Len(s) = 1 /\ s[1] = a
  BY OneElement
<1> HIDE DEF s
<1> DEFINE t == Append(s, b)
<1>2. t \in Seq(S) /\ Len(t) = 2 /\ t[1] = a /\ t[2] = b
  BY <1>1, AppendToOne
<1> HIDE DEF t
<1>3. t = <<a, b>>
  BY <1>2, TwoElements
<1> QED BY <1>3 DEF t, s

LEMMA SubmitFacts ==
    ASSUME work \in WorkQueues, NEW item \in {"hid", "notify"}, Submit(item)
    PROVE  /\ work' \in WorkQueues /\ work' # <<>>
           /\ Pending("notify") => Pending("notify")'
           /\ Pending("notify")' => Pending("notify") \/ item = "notify"
           /\ item = "notify" => Pending("notify")'
<1>1. work' = IF Pending(item) THEN work ELSE Append(work, item)
  BY DEF Submit
<1>2. CASE item = "hid"
  <2>1. CASE Pending("hid")
    BY <1>1, <1>2, <2>1, PendingIn, PendingInNext DEF WorkQueues
  <2>2. CASE work = <<>>
    <3>1. work' = <<"hid">>
      BY <1>1, <1>2, <2>2, PendingIn
    <3> QED BY <1>2, <2>2, <3>1, PendingIn, PendingInNext DEF WorkQueues
  <2>3. CASE work = <<"notify">>
    <3>1. work' = <<"notify", "hid">>
      <4>1. work' = Append(<<"notify">>, "hid")
        BY <1>1, <1>2, <2>3, PendingIn
      <4>2. "hid" \in {"hid", "notify"} /\ "notify" \in {"hid", "notify"}
        OBVIOUS
      <4> QED BY <4>1, <4>2, AppendOne
    <3> QED BY <1>2, <2>3, <3>1, PendingIn, PendingInNext DEF WorkQueues
  <2> QED BY <2>1, <2>2, <2>3, PendingIn DEF WorkQueues
<1>3. CASE item = "notify"
  <2>1. CASE Pending("notify")
    BY <1>1, <1>3, <2>1, PendingIn, PendingInNext DEF WorkQueues
  <2>2. CASE work = <<>>
    <3>1. work' = <<"notify">>
      BY <1>1, <1>3, <2>2, PendingIn
    <3> QED BY <1>3, <2>2, <3>1, PendingIn, PendingInNext DEF WorkQueues
  <2>3. CASE work = <<"hid">>
    <3>1. work' = <<"hid", "notify">>
      <4>1. work' = Append(<<"hid">>, "notify")
        BY <1>1, <1>3, <2>3, PendingIn
      <4>2. "hid" \in {"hid", "notify"} /\ "notify" \in {"hid", "notify"}
        OBVIOUS
      <4> QED BY <4>1, <4>2, AppendOne
    <3> QED BY <1>3, <2>3, <3>1, PendingIn, PendingInNext DEF WorkQueues
  <2> QED BY <2>1, <2>2, <2>3, PendingIn DEF WorkQueues
<1> QED BY <1>2, <1>3

LEMMA RunsFacts ==
    ASSUME work \in WorkQueues, NEW item \in {"hid", "notify"}, Runs(item)
    PROVE  /\ thread = Idle /\ work' \in WorkQueues
           /\ item = "hid" => (Pending("notify")' <=> Pending("notify"))
           /\ item = "notify" => Pending("notify") /\ ~Pending("notify")'
<1>1. work # <<>> /\ Head(work) = item /\ work' = Tail(work) /\ thread = Idle
  BY DEF Runs
<1>2. CASE work = <<"hid">> \/ work = <<"notify">>
  <2>1. work' = <<>> /\ work = <<item>>
    BY <1>1, <1>2
  <2> QED BY <1>1, <2>1, PendingIn, PendingInNext DEF WorkQueues
<1>3. CASE work = <<"hid", "notify">>
  <2>1. work' = <<"notify">> /\ item = "hid"
    BY <1>1, <1>3
  <2> QED BY <1>1, <1>3, <2>1, PendingIn, PendingInNext DEF WorkQueues
<1>4. CASE work = <<"notify", "hid">>
  <2>1. work' = <<"hid">> /\ item = "notify"
    BY <1>1, <1>4
  <2> QED BY <1>1, <1>4, <2>1, PendingIn, PendingInNext DEF WorkQueues
<1> QED BY <1>1, <1>2, <1>3, <1>4 DEF WorkQueues

LEMMA WorkQueueType ==
    ASSUME NEW w \in WorkQueues
    PROVE  w \in Seq({"hid", "notify"}) /\ Len(w) <= 2
<1>1. <<>> \in Seq({"hid", "notify"}) /\ Len(<<>>) <= 2
  OBVIOUS
<1>2. ASSUME NEW i \in {"hid", "notify"}
      PROVE  <<i>> \in Seq({"hid", "notify"}) /\ Len(<<i>>) <= 2
  OBVIOUS
<1>3. ASSUME NEW i \in {"hid", "notify"}, NEW j \in {"hid", "notify"}
      PROVE  <<i, j>> \in Seq({"hid", "notify"}) /\ Len(<<i, j>>) <= 2
  OBVIOUS
<1> QED BY <1>1, <1>2, <1>3 DEF WorkQueues

LEMMA Places ==
    /\ thread \in ThreadType => (thread = Idle <=> thread.at = "idle")
    /\ usb \in UsbType => (usb = Idle <=> usb.at = "idle")
    /\ thread' \in ThreadType => (thread' = Idle <=> thread'.at = "idle")
    /\ usb' \in UsbType => (usb' = Idle <=> usb'.at = "idle")
BY DEF ThreadType, UsbType, Idle

LEMMA PendingSame ==
    ASSUME work' = work
    PROVE  Pending("notify")' <=> Pending("notify")
BY DEF Pending

LEMMA QueueFacts ==
    ASSUME NEW q \in Seq(Sent)
    PROVE  /\ q \in Seq(Request) /\ Len(q) \in Nat
           /\ \A r \in Sent : Append(q, r) \in Seq(Sent) /\ Append(q, r) # <<>>
                              /\ Len(Append(q, r)) = Len(q) + 1
           /\ q # <<>> => /\ Head(q) \in Sent /\ Tail(q) \in Seq(Sent)
                          /\ Len(Tail(q)) = Len(q) - 1
<1>1. Sent \subseteq Request
  BY DEF Sent
<1> QED BY <1>1

---------------------------------------------------------------------------
(* Initially, and under the steps of the USB context. *)

LEMMA InitIInv == Init => IInv
<1> SUFFICES ASSUME Init PROVE IInv
  OBVIOUS
<1>1. ~Pending("notify") /\ ~Pending("hid")
  BY PendingIn DEF Init, WorkQueues
<1>2. Types
  <2>1. 0 \in 0..MaxChanges /\ 0 \in 0..GenerationWrap - 1 /\ 0 <= QueueDepth
    BY TransportAssumption
  <2>2. status \in Known /\ thread \in ThreadType /\ usb \in UsbType
    BY DEF Init, Known, ThreadType, UsbType
  <2>3. /\ endpoint \in [enabled : BOOLEAN, holds : BOOLEAN]
        /\ ghost \in [boundary : BOOLEAN, missed : BOOLEAN, early : BOOLEAN, unsubmitted : BOOLEAN]
    BY DEF Init
  <2>4. work \in WorkQueues /\ queue \in Seq(Sent)
    BY DEF Init, WorkQueues
  <2>5. queue \in Seq(Request) /\ Len(queue) = 0
    BY DEF Init
  <2> QED BY <2>1, <2>2, <2>3, <2>4, <2>5, WorkQueueType DEF Init, Types, TypeOK
<1>3. Coordination
  BY <1>1 DEF Init, Idle, Coordination, HeldIsRecent, OnePermit, PermitAccounted, OnlineSteady,
     AttendedLater, DroppedIsKnown, ServedInItsGeneration, QueueIsAttended, Resetting, Serving,
     Completing
<1> QED BY <1>2, <1>3 DEF IInv

LEMMA StatusChangeStep ==
    ASSUME IInv, NEW s \in Statuses, StatusChange(s)
    PROVE  IInv'
<1>1. /\ work' \in WorkQueues /\ work' # <<>>
      /\ Pending("notify")'
  BY SubmitFacts DEF StatusChange, IInv, Types
<1>2. /\ ghost'.boundary <=> ghost.boundary \/ Drops(s)
      /\ ghost'.missed <=> ghost.missed \/ (ghost.boundary /\ ~Drops(s))
      /\ ghost'.early = ghost.early /\ ghost'.unsubmitted = ghost.unsubmitted
  BY DEF StatusChange, IInv, Types, TypeOK
<1>3. /\ endpoint'.holds <=> endpoint.holds /\ ~Drops(s)
      /\ endpoint' \in [enabled : BOOLEAN, holds : BOOLEAN]
      /\ endpoint'.holds => endpoint'.enabled
  BY DEF StatusChange, EndpointAfter, IInv, Types, TypeOK
<1>4. Drops(s) <=> Reclaims(status')
  BY DEF StatusChange, Drops, Reclaims
<1>5. Types'
  <2>1. status' \in Known /\ changes' \in 0..MaxChanges
    BY TransportAssumption DEF StatusChange, IInv, Types, TypeOK
  <2>2. ghost' \in [boundary : BOOLEAN, missed : BOOLEAN, early : BOOLEAN, unsubmitted : BOOLEAN]
    BY DEF StatusChange, IInv, Types, TypeOK
  <2> QED BY <1>1, <1>3, <2>1, <2>2, WorkQueueType DEF StatusChange, IInv, Types, TypeOK
<1>6. Coordination'
  BY <1>1, <1>2, <1>3, <1>4, Places
  DEF StatusChange, IInv, Types, Idle, Coordination, HeldIsRecent, OnePermit, PermitAccounted,
      OnlineSteady, AttendedLater, DroppedIsKnown, ServedInItsGeneration, QueueIsAttended,
      Resetting, Serving, Completing
<1> QED BY <1>5, <1>6 DEF IInv

LEMMA ReportBeginsStep == IInv /\ ReportBegins => IInv'
<1> SUFFICES ASSUME IInv, ReportBegins PROVE IInv'
  OBVIOUS
<1>1. usb' \in UsbType /\ usb'.at = "sampled" /\ usb.at = "idle"
  <2>1. Report \in Sent
    BY DEF IInv, Types, TypeOK, Report, Sent, Request
  <2> QED BY <2>1 DEF ReportBegins, UsbType, Idle
<1>2. Types'
  BY <1>1, WorkQueueType DEF ReportBegins, IInv, Types, TypeOK
<1>3. Coordination'
  BY <1>1, PendingSame
  DEF ReportBegins, IInv, Coordination, HeldIsRecent, OnePermit, PermitAccounted,
      OnlineSteady, AttendedLater, DroppedIsKnown, ServedInItsGeneration, QueueIsAttended,
      Resetting, Serving, Completing
<1> QED BY <1>2, <1>3 DEF IInv

LEMMA ReportCheckedStep == IInv /\ ReportChecked => IInv'
<1> SUFFICES ASSUME IInv, ReportChecked PROVE IInv'
  OBVIOUS
<1>1. usb' \in UsbType /\ usb'.at \in {"idle", "checked"}
  BY DEF IInv, Types, ReportChecked, CheckedRequest, UsbType, Idle
<1>2. Types'
  BY <1>1, WorkQueueType DEF ReportChecked, IInv, Types, TypeOK
<1>3. Coordination'
  BY <1>1, PendingSame
  DEF ReportChecked, IInv, Coordination, HeldIsRecent, OnePermit, PermitAccounted,
      OnlineSteady, AttendedLater, DroppedIsKnown, ServedInItsGeneration, QueueIsAttended,
      Resetting, Serving, Completing
<1> QED BY <1>2, <1>3 DEF IInv

LEMMA ReportQueuedStep == IInv /\ ReportQueued => IInv'
<1> SUFFICES ASSUME IInv, ReportQueued PROVE IInv'
  OBVIOUS
<1>1. usb.request \in Sent
  BY DEF IInv, Types, ReportQueued, UsbType, Idle
<1>2. /\ usb' \in UsbType /\ usb'.at \in {"idle", "queued"}
      /\ usb'.at = "idle" => queue' = queue
  BY DEF ReportQueued, UsbType, Idle
<1>3. queue' \in Seq(Sent) /\ queue' \in Seq(Request) /\ Len(queue') <= QueueDepth
  <2>1. CASE Len(queue) < QueueDepth
    <3>1. queue' = Append(queue, usb.request)
      BY <2>1 DEF ReportQueued
    <3>2. queue' \in Seq(Sent) /\ Len(queue') = Len(queue) + 1 /\ Len(queue) \in Nat
      BY <1>1, <3>1, QueueFacts DEF IInv, Types
    <3> QED BY <2>1, <3>2, QueueFacts, TransportAssumption
  <2>2. CASE ~(Len(queue) < QueueDepth)
    BY <2>2 DEF ReportQueued, IInv, Types, TypeOK
  <2> QED BY <2>1, <2>2
<1>4. Types'
  BY <1>2, <1>3, WorkQueueType DEF ReportQueued, IInv, Types, TypeOK
<1>5. Coordination'
  BY <1>2, PendingSame
  DEF ReportQueued, IInv, Coordination, HeldIsRecent, OnePermit, PermitAccounted,
      OnlineSteady, AttendedLater, DroppedIsKnown, ServedInItsGeneration, QueueIsAttended,
      Resetting, Serving, Completing
<1> QED BY <1>4, <1>5 DEF IInv

LEMMA SubmittedStep == IInv /\ Submitted => IInv'
<1> SUFFICES ASSUME IInv, Submitted PROVE IInv'
  OBVIOUS
<1>1. usb' \in UsbType /\ usb'.at = "idle" /\ usb.at \in {"queued", "given"}
  BY DEF Submitted, UsbType, Idle
<1>2. /\ work' \in WorkQueues
      /\ Pending("notify") => Pending("notify")'
      /\ Pending("notify")' => Pending("notify")
      /\ work # <<>> => work' # <<>>
      /\ work' # <<>> \/ ghost'.unsubmitted
      /\ ghost.unsubmitted => ghost'.unsubmitted \/ work' # <<>>
  <2>1. CASE Submit("hid")
    BY <2>1, SubmitFacts DEF IInv, Types
  <2>2. CASE work' = work /\ ghost' = [ghost EXCEPT !.unsubmitted = TRUE]
    BY <2>2, PendingSame DEF IInv, Types, TypeOK
  <2> QED BY <2>1, <2>2 DEF Submitted
<1>3. /\ ghost' \in [boundary : BOOLEAN, missed : BOOLEAN, early : BOOLEAN, unsubmitted : BOOLEAN]
      /\ ghost'.boundary = ghost.boundary /\ ghost'.missed = ghost.missed
      /\ ghost'.early = ghost.early
  BY DEF Submitted, IInv, Types, TypeOK
<1>4. Types'
  BY <1>1, <1>2, <1>3, WorkQueueType DEF Submitted, IInv, Types, TypeOK
<1>5. Coordination'
  BY <1>1, <1>2, <1>3
  DEF Submitted, IInv, Coordination, HeldIsRecent, OnePermit, PermitAccounted,
      OnlineSteady, AttendedLater, DroppedIsKnown, ServedInItsGeneration, QueueIsAttended,
      Resetting, Serving, Completing
<1> QED BY <1>4, <1>5 DEF IInv

LEMMA ReadyBeginsStep == IInv /\ ReadyBegins => IInv'
<1> SUFFICES ASSUME IInv, ReadyBegins PROVE IInv'
  OBVIOUS
<1>1. usb' \in UsbType /\ usb'.at = "ready" /\ usb.at = "idle"
  BY DEF ReadyBegins, UsbType, Idle
<1>2. endpoint' \in [enabled : BOOLEAN, holds : BOOLEAN] /\ ~endpoint'.holds /\ endpoint.holds
  BY DEF ReadyBegins, IInv, Types, TypeOK
<1>3. Types'
  BY <1>1, <1>2, WorkQueueType DEF ReadyBegins, IInv, Types, TypeOK
<1>4. Coordination'
  BY <1>1, <1>2, PendingSame
  DEF ReadyBegins, IInv, Coordination, HeldIsRecent, OnePermit, PermitAccounted,
      OnlineSteady, AttendedLater, DroppedIsKnown, ServedInItsGeneration, QueueIsAttended,
      Resetting, Serving, Completing
<1> QED BY <1>3, <1>4 DEF IInv

LEMMA ReadyCompletesStep == IInv /\ ReadyCompletes => IInv'
<1> SUFFICES ASSUME IInv, ReadyCompletes PROVE IInv'
  OBVIOUS
<1>1. /\ usb' \in UsbType /\ usb.at = "ready" /\ inFlight' = FALSE
      /\ usb'.at = IF inFlight THEN "completed" ELSE "idle"
  <2>1. inFlight \in BOOLEAN /\ usb.at = "ready"
    BY DEF ReadyCompletes, IInv, Types, TypeOK
  <2>2. CASE inFlight
    <3>1. usb' = [at |-> "completed"] /\ inFlight' = FALSE
      BY <2>2 DEF ReadyCompletes
    <3> QED BY <2>1, <2>2, <3>1 DEF UsbType
  <2>3. CASE ~inFlight
    <3>1. usb' = Idle /\ inFlight' = inFlight
      BY <2>3 DEF ReadyCompletes
    <3> QED BY <2>1, <2>3, <3>1 DEF UsbType, Idle
  <2> QED BY <2>2, <2>3
<1>2. Types'
  BY <1>1, WorkQueueType DEF ReadyCompletes, IInv, Types, TypeOK
<1>3. Coordination'
  BY <1>1, PendingSame
  DEF ReadyCompletes, IInv, Coordination, HeldIsRecent, OnePermit, PermitAccounted,
      OnlineSteady, AttendedLater, DroppedIsKnown, ServedInItsGeneration, QueueIsAttended,
      Resetting, Serving, Completing
<1> QED BY <1>2, <1>3 DEF IInv

LEMMA ReadyGivesStep == IInv /\ ReadyGives => IInv'
<1> SUFFICES ASSUME IInv, ReadyGives PROVE IInv'
  OBVIOUS
<1>1. usb' \in UsbType /\ usb'.at = "given" /\ usb.at = "completed"
  BY DEF ReadyGives, UsbType
<1>2. Types'
  BY <1>1, WorkQueueType DEF ReadyGives, IInv, Types, TypeOK
<1>3. Coordination'
  BY <1>1, PendingSame
  DEF ReadyGives, IInv, Coordination, HeldIsRecent, OnePermit, PermitAccounted,
      OnlineSteady, AttendedLater, DroppedIsKnown, ServedInItsGeneration, QueueIsAttended,
      Resetting, Serving, Completing
<1> QED BY <1>2, <1>3 DEF IInv

LEMMA ReadyOfflineStep == IInv /\ ReadyOffline => IInv'
<1> SUFFICES ASSUME IInv, ReadyOffline PROVE IInv'
  OBVIOUS
<1>1. usb' \in UsbType /\ usb'.at = "idle" /\ usb.at = "given"
  BY DEF ReadyOffline, UsbType, Idle
<1>2. Types'
  BY <1>1, WorkQueueType DEF ReadyOffline, IInv, Types, TypeOK
<1>3. Coordination'
  BY <1>1, PendingSame
  DEF ReadyOffline, IInv, Coordination, HeldIsRecent, OnePermit, PermitAccounted,
      OnlineSteady, AttendedLater, DroppedIsKnown, ServedInItsGeneration, QueueIsAttended,
      Resetting, Serving, Completing
<1> QED BY <1>2, <1>3 DEF IInv

---------------------------------------------------------------------------
(* Under the steps of the listener. *)

LEMMA NotifyRunsStep == IInv /\ NotifyRuns => IInv'
<1> SUFFICES ASSUME IInv, NotifyRuns PROVE IInv'
  OBVIOUS
<1>1. /\ thread' \in ThreadType /\ thread'.at = "raised" /\ thread.at = "idle"
  BY DEF NotifyRuns, Runs, ThreadType, ConnStates, ConnState, Idle
<1>2. work' \in WorkQueues /\ Pending("notify") /\ ~Pending("notify")'
  BY RunsFacts DEF NotifyRuns, IInv, Types
<1>3. Types'
  BY <1>1, <1>2, WorkQueueType DEF NotifyRuns, IInv, Types, TypeOK
<1>4. Coordination'
  BY <1>1, <1>2, Places
  DEF NotifyRuns, IInv, Coordination, HeldIsRecent, OnePermit, PermitAccounted,
      OnlineSteady, AttendedLater, DroppedIsKnown, ServedInItsGeneration, QueueIsAttended,
      Resetting, Serving, Completing
<1> QED BY <1>3, <1>4 DEF IInv

LEMMA StatusSampledStep == IInv /\ StatusSampled => IInv'
<1> SUFFICES ASSUME IInv, StatusSampled PROVE IInv'
  OBVIOUS
<1>1. /\ thread' \in ThreadType /\ thread'.at = "reset" /\ thread.at = "raised"
      /\ thread'.before = status
  BY DEF StatusSampled, ThreadType, IInv, Types, TypeOK, Idle
<1>2. Types'
  BY <1>1, WorkQueueType DEF StatusSampled, IInv, Types, TypeOK
<1>3. Coordination'
  BY <1>1, PendingSame, Places
  DEF StatusSampled, IInv, Coordination, HeldIsRecent, OnePermit, PermitAccounted,
      OnlineSteady, AttendedLater, DroppedIsKnown, ServedInItsGeneration, QueueIsAttended,
      Resetting, Serving, Completing
<1> QED BY <1>2, <1>3 DEF IInv

LEMMA GoesOfflineStep == IInv /\ GoesOffline => IInv'
<1> SUFFICES ASSUME IInv, GoesOffline PROVE IInv'
  OBVIOUS
<1>1. /\ thread' \in ThreadType /\ thread'.at = "offline" /\ thread.at = "reset"
      /\ thread'.before = thread.before
  BY DEF GoesOffline, ThreadType, IInv, Types, Idle
<1>2. Types'
  BY <1>1, WorkQueueType DEF GoesOffline, IInv, Types, TypeOK
<1>3. Coordination'
  BY <1>1, PendingSame, Places
  DEF GoesOffline, IInv, Coordination, HeldIsRecent, OnePermit, PermitAccounted,
      OnlineSteady, AttendedLater, DroppedIsKnown, ServedInItsGeneration, QueueIsAttended,
      Resetting, Serving, Completing
<1> QED BY <1>2, <1>3 DEF IInv

LEMMA NextGenerationStep == IInv /\ NextGeneration => IInv'
<1> SUFFICES ASSUME IInv, NextGeneration PROVE IInv'
  OBVIOUS
<1>1. /\ thread' \in ThreadType /\ thread'.at = "advanced" /\ thread.at = "offline"
      /\ thread'.before = thread.before
  BY DEF NextGeneration, ThreadType, IInv, Types, Idle
<1>2. generation' \in 0..GenerationWrap - 1
  BY TransportAssumption DEF NextGeneration, IInv, Types, TypeOK
<1>3. Types'
  BY <1>1, <1>2, WorkQueueType DEF NextGeneration, IInv, Types, TypeOK
<1>4. Coordination'
  BY <1>1, PendingSame, Places
  DEF NextGeneration, IInv, Coordination, HeldIsRecent, OnePermit, PermitAccounted,
      OnlineSteady, AttendedLater, DroppedIsKnown, ServedInItsGeneration, QueueIsAttended,
      Resetting, Serving, Completing
<1> QED BY <1>3, <1>4 DEF IInv

LEMMA PurgedStep == IInv /\ Purged => IInv'
<1> SUFFICES ASSUME IInv, Purged PROVE IInv'
  OBVIOUS
<1>1. /\ thread' \in ThreadType /\ thread'.at = "purged" /\ thread.at = "advanced"
      /\ thread'.before = thread.before
  BY DEF Purged, ThreadType, IInv, Types, Idle
<1>2. /\ ghost' \in [boundary : BOOLEAN, missed : BOOLEAN, early : BOOLEAN, unsubmitted : BOOLEAN]
      /\ ghost'.boundary = ghost.boundary /\ ghost'.missed = ghost.missed
      /\ ghost'.early = ghost.early
  BY DEF Purged, IInv, Types, TypeOK
<1>3. queue' \in Seq(Sent) /\ queue' \in Seq(Request) /\ Len(queue') <= QueueDepth
  BY TransportAssumption DEF Purged
<1>4. Types'
  BY <1>1, <1>2, <1>3, WorkQueueType DEF Purged, IInv, Types, TypeOK
<1>5. Coordination'
  BY <1>1, <1>2, PendingSame, Places
  DEF Purged, IInv, Coordination, HeldIsRecent, OnePermit, PermitAccounted,
      OnlineSteady, AttendedLater, DroppedIsKnown, ServedInItsGeneration, QueueIsAttended,
      Resetting, Serving, Completing
<1> QED BY <1>4, <1>5 DEF IInv

LEMMA StatusComparedStep == IInv /\ StatusCompared => IInv'
<1> SUFFICES ASSUME IInv, StatusCompared PROVE IInv'
  OBVIOUS
<1>1. /\ thread.at = "purged"
      /\ Stable /\ Reclaims(status) => thread'.at = "reclaim"
      /\ Stable /\ ~Reclaims(status) => thread'.at = "publish"
      /\ ~Stable => thread'.at = "idle"
  BY DEF StatusCompared, Idle
<1>2. thread' \in ThreadType
  BY DEF StatusCompared, ThreadType, IInv, Types, TypeOK, Idle
<1>3. /\ ghost' \in [boundary : BOOLEAN, missed : BOOLEAN, early : BOOLEAN, unsubmitted : BOOLEAN]
      /\ ghost'.early = ghost.early /\ ghost'.unsubmitted = ghost.unsubmitted
      /\ Stable /\ Reclaims(status) => ~ghost'.boundary /\ ~ghost'.missed
      /\ ~(Stable /\ Reclaims(status)) => ghost' = ghost
  BY DEF StatusCompared, IInv, Types, TypeOK
<1>4. Types'
  BY <1>2, <1>3, WorkQueueType DEF StatusCompared, IInv, Types, TypeOK
<1>5. Coordination'
  BY <1>1, <1>2, <1>3, PendingSame, Places
  DEF StatusCompared, Stable, IInv, Coordination, HeldIsRecent, OnePermit, PermitAccounted,
      OnlineSteady, AttendedLater, DroppedIsKnown, ServedInItsGeneration, QueueIsAttended,
      Resetting, Serving, Completing
<1> QED BY <1>4, <1>5 DEF IInv

LEMMA ReclaimsFlightStep == IInv /\ ReclaimsFlight => IInv'
<1> SUFFICES ASSUME IInv, ReclaimsFlight PROVE IInv'
  OBVIOUS
<1>1. thread' \in ThreadType /\ thread'.at = "reclaimed" /\ thread.at = "reclaim"
  BY DEF ReclaimsFlight, ThreadType, IInv, Types, Idle
<1>2. Types'
  BY <1>1, WorkQueueType DEF ReclaimsFlight, IInv, Types, TypeOK
<1>3. Coordination'
  BY <1>1, PendingSame, Places
  DEF ReclaimsFlight, IInv, Coordination, HeldIsRecent, OnePermit, PermitAccounted,
      OnlineSteady, AttendedLater, DroppedIsKnown, ServedInItsGeneration, QueueIsAttended,
      Resetting, Serving, Completing
<1> QED BY <1>2, <1>3 DEF IInv

LEMMA ReclaimsPermitStep == IInv /\ ReclaimsPermit => IInv'
<1> SUFFICES ASSUME IInv, ReclaimsPermit PROVE IInv'
  OBVIOUS
<1>1. thread' \in ThreadType /\ thread'.at = "publish" /\ thread.at = "reclaimed"
  BY DEF ReclaimsPermit, ThreadType, IInv, Types, Idle
<1>2. /\ ghost' \in [boundary : BOOLEAN, missed : BOOLEAN, early : BOOLEAN, unsubmitted : BOOLEAN]
      /\ ghost'.boundary = ghost.boundary /\ ghost'.missed = ghost.missed
      /\ ghost'.unsubmitted = ghost.unsubmitted
      /\ ghost'.early <=> ghost.early /\ (endpoint.holds \/ Completing)
  BY DEF ReclaimsPermit, IInv, Types, TypeOK, Completing
<1>3. Types'
  BY <1>1, <1>2, WorkQueueType DEF ReclaimsPermit, IInv, Types, TypeOK
<1>4. Coordination'
  BY <1>1, <1>2, PendingSame, Places
  DEF ReclaimsPermit, IInv, Coordination, HeldIsRecent, OnePermit, PermitAccounted,
      OnlineSteady, AttendedLater, DroppedIsKnown, ServedInItsGeneration, QueueIsAttended,
      Resetting, Serving, Completing
<1> QED BY <1>3, <1>4 DEF IInv

LEMMA PublishedStep == IInv /\ Published => IInv'
<1> SUFFICES ASSUME IInv, Published PROVE IInv'
  OBVIOUS
<1>1. thread' \in ThreadType /\ thread'.at = "idle" /\ thread.at = "publish"
  BY DEF Published, ThreadType, Idle
<1>2. online' \in BOOLEAN
  BY DEF Published, MayPublish
<1>3. Types'
  BY <1>1, <1>2, WorkQueueType DEF Published, IInv, Types, TypeOK
<1>4. Coordination'
  BY <1>1, PendingSame, Places
  DEF Published, IInv, Coordination, HeldIsRecent, OnePermit, PermitAccounted,
      OnlineSteady, AttendedLater, DroppedIsKnown, ServedInItsGeneration, QueueIsAttended,
      Resetting, Serving, Completing
<1> QED BY <1>3, <1>4 DEF IInv

---------------------------------------------------------------------------
(* Under the steps of the handler. *)

LEMMA NoPermitStep == IInv /\ NoPermit => IInv'
<1> SUFFICES ASSUME IInv, NoPermit PROVE IInv'
  OBVIOUS
<1>1. work' \in WorkQueues /\ (Pending("notify")' <=> Pending("notify")) /\ thread.at = "idle"
  BY RunsFacts DEF NoPermit, IInv, Types, Idle
<1>2. permit = 0
  BY DEF NoPermit, HasPermit, IInv, Types, TypeOK
<1>3. Types'
  BY <1>1, WorkQueueType DEF NoPermit, IInv, Types, TypeOK
<1>4. Coordination'
  BY <1>1, <1>2, Places
  DEF NoPermit, IInv, Coordination, HeldIsRecent, OnePermit, PermitAccounted,
      OnlineSteady, AttendedLater, DroppedIsKnown, ServedInItsGeneration, QueueIsAttended,
      Resetting, Serving, Completing
<1> QED BY <1>3, <1>4 DEF IInv

LEMMA PermitTakenStep == IInv /\ PermitTaken => IInv'
<1> SUFFICES ASSUME IInv, PermitTaken PROVE IInv'
  OBVIOUS
<1>1. work' \in WorkQueues /\ (Pending("notify")' <=> Pending("notify")) /\ thread.at = "idle"
  BY RunsFacts DEF PermitTaken, IInv, Types, Idle
<1>2. thread' \in ThreadType /\ thread'.at = "holding" /\ permit = 1
  BY DEF PermitTaken, HasPermit, ThreadType
<1>3. Types'
  BY <1>1, <1>2, WorkQueueType DEF PermitTaken, IInv, Types, TypeOK
<1>4. Coordination'
  BY <1>1, <1>2, Places
  DEF PermitTaken, IInv, Coordination, HeldIsRecent, OnePermit, PermitAccounted,
      OnlineSteady, AttendedLater, DroppedIsKnown, ServedInItsGeneration, QueueIsAttended,
      Resetting, Serving, Completing
<1> QED BY <1>3, <1>4 DEF IInv

LEMMA NothingToServeStep == IInv /\ NothingToServe => IInv'
<1> SUFFICES ASSUME IInv, NothingToServe PROVE IInv'
  OBVIOUS
<1>1. thread' \in ThreadType /\ thread'.at = "idle" /\ permit' = 1 /\ thread.at = "holding"
  BY DEF NothingToServe, Returned, ThreadType, Idle
<1>2. queue' \in Seq(Sent) /\ queue' \in Seq(Request) /\ Len(queue') <= QueueDepth
  BY TransportAssumption DEF NothingToServe
<1>3. Types'
  BY <1>1, <1>2, WorkQueueType DEF NothingToServe, IInv, Types, TypeOK
<1>4. Coordination'
  BY <1>1, <1>2, PendingSame
  DEF NothingToServe, IInv, Coordination, HeldIsRecent, OnePermit, PermitAccounted,
      OnlineSteady, AttendedLater, DroppedIsKnown, ServedInItsGeneration, QueueIsAttended,
      Resetting, Serving, Completing
<1> QED BY <1>3, <1>4 DEF IInv

LEMMA StaleDroppedStep == IInv /\ StaleDropped => IInv'
<1> SUFFICES ASSUME IInv, StaleDropped PROVE IInv'
  OBVIOUS
<1>1. thread' \in ThreadType /\ thread'.at = "idle" /\ permit' = 1 /\ thread.at = "holding"
  BY DEF StaleDropped, Returned, ThreadType, Idle
<1>2. /\ Head(queue) \in Sent
      /\ queue' \in Seq(Sent) /\ queue' \in Seq(Request) /\ Len(queue') <= QueueDepth
  <2>1. /\ Len(queue) \in Nat /\ Len(queue) <= QueueDepth
        /\ Head(queue) \in Sent /\ Tail(queue) \in Seq(Sent)
        /\ Len(Tail(queue)) = Len(queue) - 1
    BY QueueFacts DEF StaleDropped, IInv, Types, TypeOK
  <2>2. Tail(queue) \in Seq(Request)
    BY <2>1, QueueFacts
  <2> QED BY <2>1, <2>2, TransportAssumption DEF StaleDropped
<1>3. /\ work' \in WorkQueues /\ work' # <<>>
      /\ Pending("notify")' <=> Pending("notify")
  BY SubmitFacts DEF StaleDropped, Dropped, IInv, Types
<1>4. Types'
  BY <1>1, <1>2, <1>3, WorkQueueType DEF StaleDropped, IInv, Types, TypeOK
<1>5. Coordination'
  BY <1>1, <1>2, <1>3
  DEF StaleDropped, IInv, Coordination, HeldIsRecent, OnePermit, PermitAccounted,
      OnlineSteady, AttendedLater, DroppedIsKnown, ServedInItsGeneration, QueueIsAttended,
      Resetting, Serving, Completing
<1> QED BY <1>4, <1>5 DEF IInv

LEMMA ServedStep == IInv /\ Served => IInv'
<1> SUFFICES ASSUME IInv, Served PROVE IInv'
  OBVIOUS
<1>1. thread.at = "holding" /\ thread' = [at |-> "served", request |-> Head(queue)]
  BY DEF Served
<1>2. /\ Head(queue) \in Sent
      /\ queue' \in Seq(Sent) /\ queue' \in Seq(Request) /\ Len(queue') <= QueueDepth
  <2>1. /\ Len(queue) \in Nat /\ Len(queue) <= QueueDepth
        /\ Head(queue) \in Sent /\ Tail(queue) \in Seq(Sent)
        /\ Len(Tail(queue)) = Len(queue) - 1
    BY QueueFacts DEF Served, IInv, Types, TypeOK
  <2>2. Tail(queue) \in Seq(Request)
    BY <2>1, QueueFacts
  <2> QED BY <2>1, <2>2, TransportAssumption DEF Served
<1>3. thread' \in ThreadType /\ thread'.at = "served" /\ thread'.request.since = generation
  BY <1>1, <1>2 DEF Served, ThreadType, Sent
<1>6. Types'
  BY <1>2, <1>3, WorkQueueType DEF Served, IInv, Types, TypeOK
<1>4. /\ thread.at = "holding" /\ online /\ queue # <<>>
      /\ UNCHANGED <<status, endpoint, inFlight, online, permit, work, usb, ghost>>
  BY DEF Served
<1>5. ServedInItsGeneration'
  BY <1>3 DEF Served, ServedInItsGeneration
<1>7. Coordination'
  BY <1>3, <1>4, <1>5, PendingSame, Places
  DEF IInv, Coordination, HeldIsRecent, OnePermit, PermitAccounted,
      OnlineSteady, AttendedLater, DroppedIsKnown, QueueIsAttended,
      Resetting, Serving, Completing
<1> QED BY <1>6, <1>7 DEF IInv

LEMMA FlightMarkedStep == IInv /\ FlightMarked => IInv'
<1> SUFFICES ASSUME IInv, FlightMarked PROVE IInv'
  OBVIOUS
<1>1. thread' \in ThreadType /\ thread'.at = "writing" /\ thread.at = "served"
  BY DEF FlightMarked, ThreadType
<1>2. Types'
  BY <1>1, WorkQueueType DEF FlightMarked, IInv, Types, TypeOK
<1>3. Coordination'
  BY <1>1, PendingSame, Places
  DEF FlightMarked, IInv, Coordination, HeldIsRecent, OnePermit, PermitAccounted,
      OnlineSteady, AttendedLater, DroppedIsKnown, ServedInItsGeneration, QueueIsAttended,
      Resetting, Serving, Completing
<1> QED BY <1>2, <1>3 DEF IInv

LEMMA WrittenStep == IInv /\ Written => IInv'
<1> SUFFICES ASSUME IInv, Written PROVE IInv'
  OBVIOUS
<1>1. thread' \in ThreadType /\ thread'.at = "idle" /\ thread.at = "writing"
  BY DEF Written, ThreadType, Idle
<1>2. /\ endpoint' \in [enabled : BOOLEAN, holds : BOOLEAN]
      /\ endpoint'.holds /\ endpoint'.enabled
  BY DEF Written, IInv, Types, TypeOK
<1>3. /\ ghost' \in [boundary : BOOLEAN, missed : BOOLEAN, early : BOOLEAN, unsubmitted : BOOLEAN]
      /\ ghost'.boundary = ghost.boundary /\ ghost'.missed = ghost.missed
      /\ ghost'.unsubmitted = ghost.unsubmitted
      /\ ghost'.early <=> ghost.early \/ Pending("notify")
  BY DEF Written, IInv, Types, TypeOK, Pending
<1>4. Types'
  BY <1>1, <1>2, <1>3, WorkQueueType DEF Written, IInv, Types, TypeOK
<1>5. Coordination'
  BY <1>1, <1>2, <1>3, PendingSame, Places
  DEF Written, IInv, Coordination, HeldIsRecent, OnePermit, PermitAccounted,
      OnlineSteady, AttendedLater, DroppedIsKnown, ServedInItsGeneration, QueueIsAttended,
      Resetting, Serving, Completing
<1> QED BY <1>4, <1>5 DEF IInv

LEMMA NotWrittenStep == IInv /\ NotWritten => IInv'
<1> SUFFICES ASSUME IInv, NotWritten PROVE IInv'
  OBVIOUS
<1>1. thread' \in ThreadType /\ thread'.at = "idle" /\ permit' = 1 /\ thread.at = "writing"
  BY DEF NotWritten, Returned, ThreadType, Idle
<1>2. /\ ghost' \in [boundary : BOOLEAN, missed : BOOLEAN, early : BOOLEAN, unsubmitted : BOOLEAN]
      /\ ghost'.boundary = ghost.boundary /\ ghost'.missed = ghost.missed
      /\ ghost'.early = ghost.early
      /\ ghost'.unsubmitted <=> queue # <<>>
  BY DEF NotWritten, IInv, Types, TypeOK
<1>3. Types'
  BY <1>1, <1>2, WorkQueueType DEF NotWritten, IInv, Types, TypeOK
<1>4. Coordination'
  BY <1>1, <1>2, PendingSame
  DEF NotWritten, IInv, Coordination, HeldIsRecent, OnePermit, PermitAccounted,
      OnlineSteady, AttendedLater, DroppedIsKnown, ServedInItsGeneration, QueueIsAttended,
      Resetting, Serving, Completing
<1> QED BY <1>3, <1>4 DEF IInv

---------------------------------------------------------------------------
LEMMA NextIInv == IInv /\ [Next]_vars => IInv'
<1> SUFFICES ASSUME IInv, [Next]_vars PROVE IInv'
  OBVIOUS
<1>1. CASE \E s \in Statuses : StatusChange(s)
  BY <1>1, StatusChangeStep
<1>2. CASE SetReport \/ Submitted
  BY <1>2, ReportBeginsStep, ReportCheckedStep, ReportQueuedStep, SubmittedStep DEF SetReport
<1>3. CASE IntInReady
  BY <1>3, ReadyBeginsStep, ReadyCompletesStep, ReadyGivesStep, ReadyOfflineStep DEF IntInReady
<1>4. CASE Listener
  BY <1>4, NotifyRunsStep, StatusSampledStep, GoesOfflineStep, NextGenerationStep, PurgedStep,
     StatusComparedStep, ReclaimsFlightStep, ReclaimsPermitStep, PublishedStep DEF Listener
<1>5. CASE Handler
  BY <1>5, NoPermitStep, PermitTakenStep, NothingToServeStep, StaleDroppedStep, ServedStep,
     FlightMarkedStep, WrittenStep, NotWrittenStep DEF Handler
<1>6. CASE UNCHANGED vars
  <2>1. Types'
    BY <1>6 DEF vars, IInv, Types, TypeOK
  <2>2. Coordination'
    BY <1>6, PendingSame
    DEF vars, IInv, Coordination, HeldIsRecent, OnePermit, PermitAccounted,
      OnlineSteady, AttendedLater, DroppedIsKnown, ServedInItsGeneration, QueueIsAttended,
      Resetting, Serving, Completing
  <2> QED BY <2>1, <2>2 DEF IInv
<1> QED BY <1>1, <1>2, <1>3, <1>4, <1>5, <1>6 DEF Next

\* The strengthening is an invariant.
THEOREM Inductive == Spec => []IInv
BY InitIInv, NextIInv, PTL DEF Spec

\* Queue, work queue and permit stay within their bounds, and only an enabled endpoint holds a
\* transfer.
THEOREM TypeCorrect == Spec => []TypeOK
<1>1. IInv => TypeOK
  BY DEF IInv, Types
<1> QED BY <1>1, Inductive, PTL

\* zmk_runtime_macro_protocol_process sees no request from before the last transport_reset.
THEOREM NoRequestCrossesAReset == Spec => []ServedInItsGeneration
<1>1. IInv => ServedInItsGeneration
  BY DEF IInv, Coordination
<1> QED BY <1>1, Inductive, PTL

\* The handler writes runtime_macro_usb_hid_tx_buffer as its only owner.
THEOREM BufferHasOneOwner == Spec => []PermitIsExclusive
<1>1. IInv => PermitIsExclusive
  <2> SUFFICES ASSUME IInv, thread.at = "served", ~ghost.early
               PROVE  permit = 0 /\ ~endpoint.holds /\ ~inFlight /\ usb.at # "completed"
    BY DEF PermitIsExclusive
  <2>1. permit \in {0, 1}
    BY DEF IInv, Types, TypeOK
  <2> QED BY <2>1 DEF IInv, Coordination, OnePermit, Serving, Completing
<1> QED BY <1>1, Inductive, PTL

\* What set_report queued is scheduled, as long as submissions and writes succeed.
THEOREM RequestsAreAttended == Spec => []QueueIsAttended
<1>1. IInv => QueueIsAttended
  BY DEF IInv, Coordination
<1> QED BY <1>1, Inductive, PTL

\* transport_reset gives back the permit of a transfer the bus dropped.
THEOREM PermitsComeBack == Spec => []PermitComesBack
<1>1. IInv => PermitComesBack
  <2> SUFFICES ASSUME IInv, thread = Idle, work = <<>>, usb = Idle, inFlight, ~endpoint.holds,
                      ~ghost.missed
               PROVE  FALSE
    BY DEF PermitComesBack
  <2>1. ~Pending("notify") /\ thread.at = "idle" /\ usb.at = "idle"
    BY PendingIn DEF WorkQueues, Idle
  <2> QED BY <2>1 DEF IInv, Coordination, DroppedIsKnown, Resetting
<1> QED BY <1>1, Inductive, PTL

=============================================================================
