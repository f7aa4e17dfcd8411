------------------------- MODULE DynamicStoreProofs -------------------------
(***************************************************************************)
(* Proofs, for any number and size of slots, any time-to-live limits and   *)
(* any number of uploads, of the safety properties of DynamicStore.        *)
(***************************************************************************)
EXTENDS DynamicStore, TLAPS

\* The staging buffer holds the bytes received of the last upload begun, and zeroes after them.
StagedPrefix ==
    IF staging.active
      THEN /\ staging.expected \in 1..SlotMaxLen
           /\ staging.received < staging.expected
           /\ ghost.uploads \in Nat \ {0}
           /\ \A i \in Positions :
                 staging.text[i] = IF i <= staging.received THEN ghost.uploads ELSE 0
      ELSE staging = NoStaging

\* An upload is in one place only: in the staging buffer, in one slot, or typed.
OnePlace ==
    /\ \A u \in ghost.typed : u \in 1..ghost.uploads
    /\ \A s \in Slots : slots[s].valid => slots[s].text[1] \notin ghost.typed
    /\ \A s, t \in Slots : slots[s].valid /\ slots[t].valid /\ s # t =>
          slots[s].text[1] # slots[t].text[1]
    /\ staging.active => /\ ghost.uploads \notin ghost.typed
                         /\ \A s \in Slots : slots[s].valid => slots[s].text[1] # ghost.uploads

Data == StagedPrefix /\ WholeUploads /\ OnePlace

IInv == TypeOK /\ Data /\ TimerCovers

---------------------------------------------------------------------------
(* The helpers. *)

Keeps(e, f) == f.text = e.text /\ f.length = e.length /\ f.valid = e.valid

\* Every slot keeps its text or is emptied, and so is the staging buffer.
Shrinks ==
    /\ \A s \in Slots : slots'[s] = Empty \/ Keeps(slots[s], slots'[s])
    /\ staging' = staging \/ staging' = NoStaging
    /\ ghost'.uploads = ghost.uploads /\ ghost'.typed = ghost.typed

LEMMA EmptyType ==
    /\ Empty \in SlotType /\ NoStaging \in StagingType /\ 0 \in Slots
    /\ Empty.text = Zeroed /\ Empty.length = 0 /\ ~Empty.valid
    /\ Zeroed \in Buffer
<1>1. 0 \in Slots /\ 0 \in 0..SlotMaxLen /\ 0 \in 0..MaxTtl
  BY SizeAssumption, TtlAssumption DEF Slots
<1>2. Zeroed \in Buffer
  BY DEF Zeroed, Buffer
<1> QED BY <1>1, <1>2 DEF Empty, SlotType, NoStaging, StagingType

LEMMA LiveFacts ==
    ASSUME TypeOK
    PROVE  /\ Live \in [Slots -> SlotType]
           /\ \A s \in Slots : Live[s] = IF Due(slots[s]) THEN Empty ELSE slots[s]
           /\ \A s \in Slots : Live[s] = Empty \/ Live[s] = slots[s]
           /\ LiveStaging = staging \/ LiveStaging = NoStaging
           /\ LiveStaging \in StagingType
<1>1. \A s \in Slots : Live[s] = IF Due(slots[s]) THEN Empty ELSE slots[s]
  BY DEF Live, Expired
<1>2. \A s \in Slots : (IF Due(slots[s]) THEN Empty ELSE slots[s]) \in SlotType
  BY EmptyType DEF TypeOK
<1>3. Live \in [Slots -> SlotType]
  BY <1>2 DEF Live, Expired
<1>4. LiveStaging = staging \/ LiveStaging = NoStaging
  BY DEF LiveStaging, StagingAfterExpiry
<1> QED BY <1>1, <1>3, <1>4, EmptyType DEF TypeOK

LEMMA ShrinkingKeepsData ==
    ASSUME TypeOK, Data, Shrinks
    PROVE  Data'
<1>1. StagedPrefix'
  <2>1. CASE staging' = NoStaging
    BY <2>1 DEF StagedPrefix, NoStaging
  <2>2. CASE staging' = staging
    BY <2>2 DEF StagedPrefix, Shrinks, Data
  <2> QED BY <2>1, <2>2 DEF Shrinks
<1>2. WholeUploads'
  BY EmptyType DEF WholeUploads, Shrinks, Keeps, Data
<1>3. OnePlace'
  BY EmptyType DEF OnePlace, Shrinks, Keeps, Data, NoStaging
<1> QED BY <1>1, <1>2, <1>3 DEF Data

TimerType ==
    /\ timer \in {Off} \cup 0..MaxTtl
    /\ queued \in BOOLEAN
    /\ generation \in 0..GenerationWrap - 1
    /\ workGeneration \in 0..GenerationWrap - 1

LEMMA RearmFacts ==
    ASSUME TypeOK, NEW sl \in [Slots -> SlotType], Rearm(sl)
    PROVE  /\ TimerType'
           /\ \A s \in Slots : sl[s].valid => timer' = 1 \/ timer' \in 0..sl[s].left
<1> DEFINE pending == {sl[s].left : s \in {t \in Slots : sl[t].valid}}
<1>1. generation' \in 0..GenerationWrap - 1 /\ workGeneration' \in 0..GenerationWrap - 1
  BY CounterAssumption DEF TypeOK, Rearm
<1>2. \A s \in Slots : sl[s].left \in 0..MaxTtl
  BY DEF SlotType
<1>3. \A s \in Slots : sl[s].valid => sl[s].left \in pending
  OBVIOUS
<1>4. pending \subseteq 0..MaxTtl
  BY <1>2
<1>5. /\ pending = {} => timer' = Off /\ queued' = FALSE
      /\ pending # {} => /\ queued' = queued
                         /\ \E d \in pending : /\ IsEarliest(d, pending)
                                               /\ timer' = IF d > 0 THEN d ELSE 1
  BY DEF Rearm
<1> HIDE DEF pending
<1>6. CASE pending = {}
  BY <1>1, <1>3, <1>5, <1>6 DEF TimerType
<1>7. CASE pending # {}
  <2>1. PICK d \in pending : IsEarliest(d, pending) /\ timer' = IF d > 0 THEN d ELSE 1
    BY <1>5, <1>7
  <2>2. d \in 0..MaxTtl /\ 1 \in 0..MaxTtl
    BY <1>4, TtlAssumption
  <2>3. timer' \in 0..MaxTtl /\ queued' \in BOOLEAN
    BY <1>5, <1>7, <2>1, <2>2 DEF TypeOK
  <2>4. ASSUME NEW s \in Slots, sl[s].valid
        PROVE  timer' = 1 \/ timer' \in 0..sl[s].left
    <3>1. sl[s].left \in 0..MaxTtl /\ d <= sl[s].left
      BY <1>2, <1>3, <2>1, <2>4 DEF IsEarliest
    <3> QED BY <2>1, <2>2, <3>1
  <2> QED BY <1>1, <2>3, <2>4 DEF TimerType
<1> QED BY <1>6, <1>7

LEMMA RearmCovers ==
    ASSUME TypeOK, slots' \in [Slots -> SlotType], Rearm(slots')
    PROVE  TimerType' /\ TimerCovers'
BY RearmFacts DEF TimerCovers

LEMMA UntouchedCovers ==
    ASSUME TypeOK, TimerCovers, TimerUntouched, running' = running,
           \A s \in Slots : slots'[s] = Empty \/ slots'[s] = slots[s]
    PROVE  TimerType' /\ TimerCovers'
BY EmptyType DEF TypeOK, TimerType, TimerCovers, TimerUntouched

\* Most functions empty slots, and either arm the work item or leave it alone.
LEMMA EmptyingStep ==
    ASSUME IInv,
           slots' \in [Slots -> SlotType],
           \A s \in Slots : slots'[s] = Empty \/ slots'[s] = slots[s],
           staging' = staging \/ staging' = NoStaging,
           Rearm(slots') \/ (TimerUntouched /\ running' = running),
           running' \in BOOLEAN, busy' \in BOOLEAN, ghost' = ghost
    PROVE  IInv'
<1>1. TimerType' /\ TimerCovers'
  BY RearmCovers, UntouchedCovers DEF IInv
<1>2. Data'
  BY ShrinkingKeepsData DEF IInv, Shrinks, Keeps
<1>3. TypeOK'
  BY <1>1, EmptyType DEF IInv, TypeOK, TimerType
<1> QED BY <1>1, <1>2, <1>3 DEF IInv

---------------------------------------------------------------------------
(* Initially, and under the steps that only empty. *)

LEMMA AllEmpty ==
    ASSUME slots' = [s \in Slots |-> Empty], staging' = NoStaging, timer' = Off, queued' = FALSE,
           running' = FALSE, generation' = 0, workGeneration' = 0, busy' = FALSE,
           ghost' = [uploads |-> 0, typed |-> {}, firedFor |-> 0]
    PROVE  IInv'
<1>1. TypeOK'
  <2>1. 0 \in 0..GenerationWrap - 1
    BY CounterAssumption
  <2> QED BY <2>1, EmptyType DEF TypeOK
<1>2. StagedPrefix'
  BY DEF StagedPrefix, NoStaging
<1>3. WholeUploads' /\ TimerCovers'
  BY EmptyType DEF WholeUploads, TimerCovers
<1>4. OnePlace'
  BY EmptyType DEF OnePlace, NoStaging
<1> QED BY <1>1, <1>2, <1>3, <1>4 DEF IInv, Data

LEMMA InitIInv == Init => IInv
<1> SUFFICES ASSUME Init PROVE IInv
  OBVIOUS
<1>1. TypeOK
  <2>1. 0 \in 0..GenerationWrap - 1
    BY CounterAssumption
  <2> QED BY <2>1, EmptyType DEF Init, TypeOK
<1>2. StagedPrefix
  BY DEF Init, StagedPrefix, NoStaging
<1>3. WholeUploads /\ TimerCovers
  BY EmptyType DEF Init, WholeUploads, TimerCovers
<1>4. OnePlace
  BY EmptyType DEF Init, OnePlace, NoStaging
<1> QED BY <1>1, <1>2, <1>3, <1>4 DEF IInv, Data

LEMMA CancelStagingStep == IInv /\ CancelStaging => IInv'
BY LiveFacts, EmptyingStep DEF CancelStaging, IInv, TypeOK

LEMMA ClearSlotStep ==
    ASSUME IInv, NEW slot \in AnySlot, ClearSlot(slot)
    PROVE  IInv'
<1>1. slots' \in [Slots -> SlotType]
  BY EmptyType DEF ClearSlot, IInv, TypeOK
<1>2. \A s \in Slots : slots'[s] = Empty \/ slots'[s] = slots[s]
  BY DEF ClearSlot, IInv, TypeOK
<1> QED BY <1>1, <1>2, EmptyingStep DEF ClearSlot, IInv, TypeOK

LEMMA ClearAllStep == IInv /\ ClearAll => IInv'
<1> SUFFICES ASSUME IInv, ClearAll PROVE IInv'
  OBVIOUS
<1>1. slots' \in [Slots -> SlotType] /\ \A s \in Slots : slots'[s] = Empty
  BY EmptyType DEF ClearAll
<1> QED BY <1>1, EmptyingStep DEF ClearAll, IInv, TypeOK

LEMMA CheckExpiryStep == IInv /\ CheckExpiry => IInv'
BY LiveFacts, EmptyingStep DEF CheckExpiry, IInv, TypeOK

LEMMA TtlHandlerStep == IInv /\ TtlHandler => IInv'
<1> SUFFICES ASSUME IInv, TtlHandler PROVE IInv'
  OBVIOUS
<1>1. /\ slots' \in [Slots -> SlotType]
      /\ \A s \in Slots : slots'[s] = Empty \/ slots'[s] = slots[s]
      /\ staging' = staging \/ staging' = NoStaging
  BY LiveFacts DEF TtlHandler, IInv, TypeOK
<1> QED BY <1>1, EmptyingStep DEF TtlHandler, IInv, TypeOK

LEMMA AppendRefusedStep ==
    ASSUME IInv, NEW slot, NEW offset, NEW n, NEW printable,
           AppendRefused(slot, offset, n, printable)
    PROVE  IInv'
BY LiveFacts, EmptyingStep DEF AppendRefused, IInv, TypeOK

LEMMA ExecuteNothingStep ==
    ASSUME IInv, NEW slot, ExecuteNothing(slot) \/ ExecuteRefused(slot)
    PROVE  IInv'
BY LiveFacts, EmptyingStep DEF ExecuteNothing, ExecuteRefused, AfterRefusal, IInv, TypeOK

---------------------------------------------------------------------------
(* Under the steps that touch neither slots nor staging. *)

LEMMA ExecutorStep == IInv /\ Executor => IInv'
<1> SUFFICES ASSUME IInv, Executor PROVE IInv'
  OBVIOUS
<1>1. TypeOK' /\ TimerCovers'
  BY DEF Executor, ExecutorTaken, ExecutorFinished, IInv, TypeOK, TimerCovers
<1>2. Data'
  BY ShrinkingKeepsData DEF Executor, IInv, Shrinks, Keeps
<1> QED BY <1>1, <1>2 DEF IInv

LEMMA TtlDueStep == IInv /\ TtlDue => IInv'
<1> SUFFICES ASSUME IInv, TtlDue PROVE IInv'
  OBVIOUS
<1>1. TypeOK' /\ TimerCovers'
  BY DEF TtlDue, IInv, TypeOK, TimerCovers
<1>2. Data'
  BY ShrinkingKeepsData DEF TtlDue, IInv, Shrinks, Keeps
<1> QED BY <1>1, <1>2 DEF IInv

LEMMA TtlDequeuedStep == IInv /\ TtlDequeued => IInv'
<1> SUFFICES ASSUME IInv, TtlDequeued PROVE IInv'
  OBVIOUS
<1>1. TypeOK' /\ TimerCovers' /\ ghost'.uploads = ghost.uploads /\ ghost'.typed = ghost.typed
  BY DEF TtlDequeued, IInv, TypeOK, TimerCovers
<1>2. Data'
  BY <1>1, ShrinkingKeepsData DEF TtlDequeued, IInv, Shrinks, Keeps
<1> QED BY <1>1, <1>2 DEF IInv

LEMMA CountdownFacts ==
    ASSUME NEW n \in 0..MaxTtl
    PROVE  Countdown(n) \in 0..MaxTtl /\ Countdown(n) <= n /\ (n > 0 => Countdown(n) = n - 1)
BY TtlAssumption DEF Countdown

LEMMA TickStep == IInv /\ Tick => IInv'
<1> SUFFICES ASSUME IInv, Tick PROVE IInv'
  OBVIOUS
<1>1. ASSUME NEW s \in Slots
      PROVE  /\ slots'[s] \in SlotType /\ Keeps(slots[s], slots'[s])
             /\ slots'[s].left = Countdown(slots[s].left)
             /\ slots[s].left \in 0..MaxTtl
  <2>1. slots[s] \in SlotType /\ slots'[s] = [slots[s] EXCEPT !.left = Countdown(slots[s].left)]
    BY DEF Tick, IInv, TypeOK
  <2>2. slots[s].left \in 0..MaxTtl /\ Countdown(slots[s].left) \in 0..MaxTtl
    BY <2>1, CountdownFacts DEF SlotType
  <2> QED BY <2>1, <2>2 DEF SlotType, Keeps
<1>2. slots' \in [Slots -> SlotType]
  BY <1>1 DEF Tick
<1>3. timer' \in {Off} \cup 0..MaxTtl /\ (timer > 0 => timer' = timer - 1) /\ (timer <= 0 => timer' = timer)
  BY TtlAssumption DEF Tick, Countdown, IInv, TypeOK, Off
<1>4. TypeOK'
  BY <1>2, <1>3 DEF Tick, IInv, TypeOK
<1>5. Data'
  BY <1>1, ShrinkingKeepsData DEF Tick, IInv, Shrinks
<1>6. TimerCovers'
  <2> SUFFICES ASSUME NEW s \in Slots, slots'[s].valid, ~running, ~queued
               PROVE  timer' \in 0..slots'[s].left
    BY DEF TimerCovers, Tick
  <2>1. slots[s].valid /\ (timer = 1 \/ timer \in 0..slots[s].left)
    BY <1>1 DEF Keeps, IInv, TimerCovers
  <2>2. /\ slots[s].left \in 0..MaxTtl /\ slots'[s].left \in 0..MaxTtl
        /\ slots[s].left > 0 => slots'[s].left = slots[s].left - 1
        /\ slots'[s].left <= slots[s].left
    BY <1>1, CountdownFacts
  <2>3. timer \in Int
    BY DEF IInv, TypeOK, Off
  <2> QED BY <1>3, <2>1, <2>2, <2>3
<1> QED BY <1>4, <1>5, <1>6 DEF IInv

---------------------------------------------------------------------------
(* Under the steps that move text. *)

LEMMA BeginStep ==
    ASSUME IInv, NEW slot \in AnySlot, NEW total \in Nat, NEW limit \in 1..SlotMaxLen,
           NEW ttl, NEW consume \in BOOLEAN, Begin(slot, total, limit, ttl, consume)
    PROVE  IInv'
<1>1. /\ slots' \in [Slots -> SlotType]
      /\ \A s \in Slots : slots'[s] = Empty \/ slots'[s] = slots[s]
  BY LiveFacts DEF Begin, IInv
<1>2. CASE ~BeginValid(slot, total, limit, ttl)
  BY <1>1, <1>2, EmptyingStep DEF Begin, IInv, TypeOK
<1>3. CASE BeginValid(slot, total, limit, ttl)
  <2>1. /\ staging' = Opened(slot, total, ttl, consume)
        /\ ghost' = [ghost EXCEPT !.uploads = ghost.uploads + 1]
    BY <1>3 DEF Begin
  <2>2. slot \in Slots /\ total \in 1..SlotMaxLen /\ ttl \in 0..MaxTtl
    BY <1>3, SizeAssumption, TtlAssumption DEF BeginValid
  <2>3. /\ staging' \in StagingType /\ staging'.active /\ staging'.received = 0
        /\ staging'.expected = total /\ staging'.text = Zeroed
    <3>1. staging' = [active |-> TRUE, slot |-> slot, text |-> Zeroed, received |-> 0,
                      expected |-> total, ttl |-> ttl, consume |-> consume]
      BY <2>1 DEF Opened, NoStaging
    <3>2. total \in 0..SlotMaxLen /\ 0 \in 0..SlotMaxLen
      BY <2>2, SizeAssumption
    <3> QED BY <2>2, <3>1, <3>2, EmptyType DEF StagingType
  <2>4. /\ ghost' \in [uploads : Nat, typed : SUBSET Nat, firedFor : 0..GenerationWrap - 1]
        /\ ghost'.uploads = ghost.uploads + 1 /\ ghost'.typed = ghost.typed
        /\ ghost.uploads \in Nat
    BY <2>1 DEF IInv, TypeOK
  <2>5. TimerType' /\ TimerCovers'
    BY <1>1, UntouchedCovers DEF Begin, IInv
  <2>6. TypeOK'
    BY <1>1, <2>3, <2>4, <2>5 DEF Begin, IInv, TypeOK, TimerType
  <2>7. StagedPrefix'
    BY <2>2, <2>3, <2>4 DEF StagedPrefix, Zeroed, Positions
  <2>8. WholeUploads'
    <3> SUFFICES ASSUME NEW s \in Slots, slots'[s].valid
                 PROVE  /\ slots'[s].length > 0
                        /\ \E u \in 1..ghost'.uploads : \A i \in Positions :
                              slots'[s].text[i] = IF i <= slots'[s].length THEN u ELSE 0
      BY <1>1, EmptyType DEF WholeUploads, IInv, Data
    <3>1. slots'[s] = slots[s]
      BY <1>1, EmptyType
    <3>2. PICK u \in 1..ghost.uploads : \A i \in Positions :
                slots[s].text[i] = IF i <= slots[s].length THEN u ELSE 0
      BY <3>1 DEF WholeUploads, IInv, Data
    <3>3. u \in 1..ghost'.uploads
      BY <2>4, <3>2
    <3> QED BY <3>1, <3>2, <3>3 DEF WholeUploads, IInv, Data
  <2>9. OnePlace'
    <3>1. \A u \in ghost.typed : u \in 1..ghost'.uploads /\ u # ghost'.uploads
      BY <2>4 DEF IInv, Data, OnePlace
    <3>2. ASSUME NEW s \in Slots, slots'[s].valid
          PROVE  slots'[s] = slots[s] /\ slots'[s].text[1] # ghost'.uploads
      <4>1. slots'[s] = slots[s]
        BY <1>1, <3>2, EmptyType
      <4>2. slots[s].text[1] \in 1..ghost.uploads
        BY <3>2, <4>1, SizeAssumption DEF IInv, Data, WholeUploads, Positions, TypeOK, SlotType
      <4> QED BY <2>4, <4>1, <4>2
    <3> QED BY <2>4, <3>1, <3>2 DEF OnePlace, IInv, Data
  <2> QED BY <2>6, <2>5, <2>7, <2>8, <2>9 DEF IInv, Data
<1> QED BY <1>2, <1>3

\* What a chunk adds to the staging buffer.
LEMMA ReceivedFacts ==
    ASSUME IInv, NEW slot, NEW offset \in Nat, NEW n \in Nat, NEW printable,
           LiveStaging.active, Acceptable(slot, offset, n, printable)
    PROVE  /\ LiveStaging = staging /\ staging.active /\ slot = staging.slot /\ slot \in Slots
           /\ Received(offset, n) \in StagingType /\ Received(offset, n).active
           /\ Received(offset, n).received = offset + n
           /\ Received(offset, n).expected = staging.expected
           /\ staging.expected \in 1..SlotMaxLen /\ offset + n \in 1..staging.expected
           /\ \A i \in Positions :
                 Received(offset, n).text[i] = IF i <= offset + n THEN ghost.uploads ELSE 0
<1>1. LiveStaging = staging /\ staging.active
  BY LiveFacts DEF IInv, NoStaging
<1>2. slot = staging.slot /\ slot \in Slots
  BY <1>1 DEF Acceptable
<1>3. /\ staging \in StagingType /\ staging.expected \in 1..SlotMaxLen
      /\ offset = staging.received /\ offset + n <= staging.expected /\ n > 0
      /\ ghost.uploads \in Nat
  BY <1>1 DEF Acceptable, Fits, IInv, TypeOK, Data, StagedPrefix
<1>4. offset + n \in 1..staging.expected /\ offset + n \in 0..SlotMaxLen
  BY <1>3, SizeAssumption
<1> DEFINE text == [i \in Positions |->
                     IF i \in offset + 1..offset + n THEN ghost.uploads ELSE staging.text[i]]
<1>5. Received(offset, n) = [staging EXCEPT !.text = text, !.received = offset + n]
  BY <1>1 DEF Received
<1>6. text \in Buffer
  BY <1>3 DEF StagingType, Buffer
<1>7. \A i \in Positions : text[i] = IF i <= offset + n THEN ghost.uploads ELSE 0
  BY <1>1, <1>3 DEF IInv, Data, StagedPrefix, Positions
<1> HIDE DEF text
<1>8. Received(offset, n) \in StagingType /\ Received(offset, n).text = text
  BY <1>3, <1>4, <1>5, <1>6 DEF StagingType
<1>9. /\ Received(offset, n).active /\ Received(offset, n).received = offset + n
      /\ Received(offset, n).expected = staging.expected
  BY <1>1, <1>3, <1>5 DEF StagingType
<1> QED BY <1>1, <1>2, <1>3, <1>4, <1>7, <1>8, <1>9

LEMMA AppendStoredStep ==
    ASSUME IInv, NEW slot, NEW offset \in Nat, NEW n \in Nat, NEW printable,
           AppendStored(slot, offset, n, printable)
    PROVE  IInv'
<1>1. /\ slots' \in [Slots -> SlotType]
      /\ \A s \in Slots : slots'[s] = Empty \/ slots'[s] = slots[s]
  BY LiveFacts DEF AppendStored, IInv
<1>2. /\ staging' \in StagingType /\ staging'.active /\ staging.active
      /\ staging'.expected = staging.expected /\ staging'.received = offset + n
      /\ offset + n \in 1..staging.expected /\ offset + n # staging.expected
      /\ \A i \in Positions :
            staging'.text[i] = IF i <= offset + n THEN ghost.uploads ELSE 0
  <2>1. /\ LiveStaging.active /\ Acceptable(slot, offset, n, printable)
        /\ offset + n # LiveStaging.expected /\ staging' = Received(offset, n)
    BY DEF AppendStored
  <2> QED BY <2>1, ReceivedFacts
<1>3. TimerType' /\ TimerCovers'
  BY <1>1, UntouchedCovers DEF AppendStored, IInv
<1>4. TypeOK'
  BY <1>1, <1>2, <1>3 DEF AppendStored, IInv, TypeOK, TimerType
<1>5. StagedPrefix'
  BY <1>2 DEF AppendStored, StagedPrefix, IInv, Data
<1>6. WholeUploads'
  BY <1>1, EmptyType DEF AppendStored, WholeUploads, IInv, Data
<1>7. OnePlace'
  BY <1>1, <1>2, EmptyType DEF AppendStored, OnePlace, IInv, Data
<1> QED BY <1>3, <1>4, <1>5, <1>6, <1>7 DEF IInv, Data

LEMMA AppendCommitsStep ==
    ASSUME IInv, NEW slot, NEW offset \in Nat, NEW n \in Nat, NEW printable,
           AppendCommits(slot, offset, n, printable)
    PROVE  IInv'
<1> DEFINE new == Committed(Received(offset, n))
<1>1. /\ staging.active /\ slot \in Slots /\ slot = staging.slot
      /\ Received(offset, n) \in StagingType
      /\ offset + n = staging.expected /\ staging.expected \in 1..SlotMaxLen
      /\ Received(offset, n).expected = staging.expected
      /\ \A i \in Positions :
            Received(offset, n).text[i] = IF i <= offset + n THEN ghost.uploads ELSE 0
  <2>1. /\ LiveStaging.active /\ Acceptable(slot, offset, n, printable)
        /\ offset + n = LiveStaging.expected
    BY DEF AppendCommits
  <2> QED BY <2>1, ReceivedFacts
<1>2. /\ new.valid /\ new.length = staging.expected /\ new.length > 0
      /\ \A i \in Positions : new.text[i] = IF i <= new.length THEN ghost.uploads ELSE 0
  BY <1>1 DEF Committed
<1>3. new \in SlotType
  <2>1. ghost.uploads \in Nat
    BY DEF IInv, TypeOK
  <2>2. [i \in Positions |-> IF i <= Received(offset, n).expected
                               THEN Received(offset, n).text[i] ELSE 0] \in Buffer
    BY <1>1 DEF Buffer, StagingType
  <2> QED BY <1>1, <2>2 DEF Committed, SlotType, StagingType
<1> HIDE DEF new
<1>4. /\ slots' \in [Slots -> SlotType] /\ slots'[slot] = new
      /\ \A s \in Slots \ {slot} : slots'[s] = Empty \/ slots'[s] = slots[s]
  BY <1>1, <1>3, LiveFacts DEF AppendCommits, IInv, new
<1>5. TimerType' /\ TimerCovers'
  BY <1>4, RearmCovers DEF AppendCommits, IInv
<1>6. TypeOK'
  BY <1>4, <1>5, EmptyType DEF AppendCommits, IInv, TypeOK, TimerType
<1>7. StagedPrefix'
  BY DEF AppendCommits, StagedPrefix, NoStaging
<1>8. WholeUploads'
  <2>1. ghost.uploads \in 1..ghost.uploads /\ ghost' = ghost
    BY <1>1 DEF IInv, Data, StagedPrefix, AppendCommits
  <2>2. ASSUME NEW s \in Slots, s # slot
        PROVE  IF slots'[s].valid
                 THEN /\ slots'[s].length > 0
                      /\ \E u \in 1..ghost'.uploads : \A i \in Positions :
                            slots'[s].text[i] = IF i <= slots'[s].length THEN u ELSE 0
                 ELSE slots'[s].text = Zeroed /\ slots'[s].length = 0
    <3>1. slots'[s] = Empty \/ slots'[s] = slots[s]
      BY <1>4, <2>2
    <3> QED BY <2>1, <3>1, EmptyType DEF WholeUploads, IInv, Data
  <2>3. IF slots'[slot].valid
          THEN /\ slots'[slot].length > 0
               /\ \E u \in 1..ghost'.uploads : \A i \in Positions :
                     slots'[slot].text[i] = IF i <= slots'[slot].length THEN u ELSE 0
          ELSE slots'[slot].text = Zeroed /\ slots'[slot].length = 0
    BY <1>2, <1>4, <2>1
  <2> QED BY <2>2, <2>3 DEF WholeUploads
<1>9. OnePlace'
  <2>1. new.text[1] = ghost.uploads /\ ghost' = ghost /\ ~staging'.active
    BY <1>1, <1>2, SizeAssumption DEF Positions, AppendCommits, NoStaging
  <2>2. \A s \in Slots \ {slot} : slots'[s].valid => slots[s].valid /\ slots'[s] = slots[s]
    BY <1>4, EmptyType
  <2> QED BY <1>1, <1>4, <2>1, <2>2 DEF OnePlace, IInv, Data
<1> QED BY <1>5, <1>6, <1>7, <1>8, <1>9 DEF IInv, Data

\* A valid slot's first byte names its upload.
LEMMA FirstByte ==
    ASSUME IInv, NEW s \in Slots, slots[s].valid
    PROVE  slots[s].text[1] \in 1..ghost.uploads
BY SizeAssumption DEF IInv, Data, WholeUploads, Positions, TypeOK, SlotType

LEMMA ExecuteAcceptedStep ==
    ASSUME IInv, NEW slot, ExecuteAccepted(slot)
    PROVE  IInv'
<1>1. slot \in Slots /\ Live[slot] = slots[slot] /\ slots[slot].valid
  BY LiveFacts, EmptyType DEF ExecuteAccepted, Executable, IInv
<1>2. CASE ~slots[slot].consume
  BY <1>1, <1>2, LiveFacts, EmptyingStep DEF ExecuteAccepted, AfterAcceptance, IInv, TypeOK
<1>3. CASE slots[slot].consume
  <2>1. /\ slots' = [Live EXCEPT ![slot] = Empty]
        /\ ghost' = [ghost EXCEPT !.typed = ghost.typed \cup {slots[slot].text[1]}]
        /\ Rearm(slots')
    BY <1>1, <1>3 DEF ExecuteAccepted, AfterAcceptance
  <2>2. /\ slots' \in [Slots -> SlotType] /\ slots'[slot] = Empty
        /\ \A s \in Slots : slots'[s] = Empty \/ slots'[s] = slots[s]
    BY <1>1, <2>1, LiveFacts, EmptyType DEF IInv
  <2>3. staging' = staging \/ staging' = NoStaging
    BY LiveFacts DEF ExecuteAccepted, IInv
  <2>4. /\ slots[slot].text[1] \in Nat
        /\ ghost' \in [uploads : Nat, typed : SUBSET Nat, firedFor : 0..GenerationWrap - 1]
        /\ ghost'.uploads = ghost.uploads
        /\ ghost'.typed = ghost.typed \cup {slots[slot].text[1]}
    <3>1. slots[slot].text[1] \in Nat
      BY <1>1, FirstByte
    <3> QED BY <2>1, <3>1 DEF IInv, TypeOK
  <2>5. TimerType' /\ TimerCovers'
    BY <2>1, <2>2, RearmCovers DEF IInv
  <2>6. TypeOK'
    BY <2>2, <2>3, <2>4, <2>5, EmptyType DEF ExecuteAccepted, IInv, TypeOK, TimerType
  <2>7. StagedPrefix'
    BY <2>3, <2>4 DEF StagedPrefix, NoStaging, IInv, Data
  <2>8. WholeUploads'
    BY <2>2, <2>4, EmptyType DEF WholeUploads, IInv, Data
  <2>9. OnePlace'
    <3>1. slots[slot].text[1] \in 1..ghost.uploads
      BY <1>1, FirstByte
    <3>2. ASSUME NEW s \in Slots, slots'[s].valid
          PROVE  /\ s # slot /\ slots[s].valid /\ slots'[s] = slots[s]
                 /\ slots[s].text[1] # slots[slot].text[1]
      BY <1>1, <2>2, <3>2, EmptyType DEF OnePlace, IInv, Data
    <3>3. staging'.active => staging' = staging /\ slots[slot].text[1] # ghost.uploads
      BY <1>1, <2>3 DEF NoStaging, OnePlace, IInv, Data
    <3> QED BY <2>4, <3>1, <3>2, <3>3 DEF OnePlace, IInv, Data
  <2> QED BY <2>5, <2>6, <2>7, <2>8, <2>9 DEF IInv, Data
<1> QED BY <1>2, <1>3

---------------------------------------------------------------------------
LEMMA NextIInv == IInv /\ [Next]_vars => IInv'
<1> SUFFICES ASSUME IInv, [Next]_vars PROVE IInv'
  OBVIOUS
<1>1. CASE Tick
  BY <1>1, TickStep
<1>2. CASE BeginSome
  <2>1. PICK total \in 0..SlotMaxLen + 1, ttl \in {MinTtl - 1, MinTtl, MaxTtl, MaxTtl + 1},
             consume \in BOOLEAN :
               \/ \E slot \in AnySlot : Begin(slot, total, SlotMaxLen, ttl, consume)
               \/ Begin(LegacySlot, total, LegacyMaxLen, ttl, consume)
    BY <1>2 DEF BeginSome
  <2>2. /\ total \in Nat /\ SlotMaxLen \in 1..SlotMaxLen /\ LegacyMaxLen \in 1..SlotMaxLen
        /\ LegacySlot \in AnySlot
    BY SizeAssumption DEF LegacySlot, AnySlot
  <2> QED BY <2>1, <2>2, BeginStep
<1>3. CASE AppendSome
  <2>1. PICK slot \in AnySlot, offset \in 0..SlotMaxLen, n \in 0..SlotMaxLen, printable \in BOOLEAN :
               \/ AppendRefused(slot, offset, n, printable)
               \/ AppendStored(slot, offset, n, printable)
               \/ AppendCommits(slot, offset, n, printable)
    BY <1>3 DEF AppendSome
  <2>2. offset \in Nat /\ n \in Nat
    BY SizeAssumption
  <2> QED BY <2>1, <2>2, AppendRefusedStep, AppendStoredStep, AppendCommitsStep
<1>4. CASE CancelStaging \/ ClearAll \/ CheckExpiry \/ \E slot \in AnySlot : ClearSlot(slot)
  BY <1>4, CancelStagingStep, ClearAllStep, CheckExpiryStep, ClearSlotStep
<1>5. CASE \E slot \in AnySlot : Execute(slot)
  BY <1>5, ExecuteNothingStep, ExecuteAcceptedStep DEF Execute
<1>6. CASE Executor \/ TtlDue \/ TtlDequeued \/ TtlHandler
  BY <1>6, ExecutorStep, TtlDueStep, TtlDequeuedStep, TtlHandlerStep
<1>7. CASE Reboot
  BY <1>7, AllEmpty DEF Reboot
<1>8. CASE UNCHANGED vars
  <2>1. TypeOK' /\ TimerCovers'
    BY <1>8 DEF vars, IInv, TypeOK, TimerCovers
  <2>2. Data'
    BY <1>8, ShrinkingKeepsData DEF vars, IInv, Shrinks, Keeps
  <2> QED BY <2>1, <2>2 DEF IInv
<1> QED BY <1>1, <1>2, <1>3, <1>4, <1>5, <1>6, <1>7, <1>8 DEF Next

\* The strengthening is an invariant.
THEOREM Inductive == Spec => []IInv
BY InitIInv, NextIInv, PTL DEF Spec

\* Lengths, counts and deadlines stay within the limits of the C types and of Kconfig.
THEOREM TypeCorrect == Spec => []TypeOK
<1>1. IInv => TypeOK
  BY DEF IInv
<1> QED BY <1>1, Inductive, PTL

\* append_slot commits all of one upload and nothing else.
THEOREM TextIsWhole == Spec => []WholeUploads
<1>1. IInv => WholeUploads
  BY DEF IInv, Data
<1> QED BY <1>1, Inductive, PTL

\* rearm_ttl_locked is called often enough: every text has a wake-up call.
THEOREM TextHasATimer == Spec => []TimerCovers
<1>1. IInv => TimerCovers
  BY DEF IInv
<1> QED BY <1>1, Inductive, PTL

\* execute_slot gives the executor no late text, and no consumed text again.
THEOREM TypedInTimeAndOnce == Spec => ExecutesInTimeAndOnce
<1> DEFINE Right == \A s \in Slots : ExecuteAccepted(s) =>
                       /\ slots[s].valid /\ slots[s].left > 0
                       /\ slots[s].consume => slots[s].text[1] \notin ghost.typed
<1>1. IInv => Right
  <2> SUFFICES ASSUME IInv, NEW s \in Slots, ExecuteAccepted(s)
               PROVE  /\ slots[s].valid /\ slots[s].left > 0
                      /\ slots[s].consume => slots[s].text[1] \notin ghost.typed
    OBVIOUS
  <2>1. Live[s].valid /\ Live[s] = IF Due(slots[s]) THEN Empty ELSE slots[s]
    BY LiveFacts DEF ExecuteAccepted, Executable, IInv
  <2>2. slots[s].valid /\ ~Due(slots[s])
    BY <2>1, EmptyType
  <2>3. slots[s].left \in 0..MaxTtl
    BY DEF IInv, TypeOK, SlotType
  <2> QED BY <2>2, <2>3, TtlAssumption DEF Due, IInv, Data, OnePlace
<1>2. IInv /\ [Next]_vars => [Right]_vars
  BY <1>1
<1>3. Spec => [][Right]_vars
  BY <1>2, Inductive, PTL DEF Spec
<1> QED BY <1>3 DEF ExecutesInTimeAndOnce

---------------------------------------------------------------------------
(* What may take away text. *)

Gone(s) == slots[s].valid /\ ~(slots'[s].valid /\ slots'[s].text = slots[s].text)

Excused(s) ==
    \/ Due(slots[s])
    \/ ClearSlot(s) \/ ClearAll \/ Reboot
    \/ ExecuteAccepted(s) /\ slots[s].consume
    \/ /\ slots'[s].valid
       /\ staging.active /\ staging.slot = s
       /\ staging.expected = slots'[s].length

LEMMA LiveIsExcused ==
    ASSUME TypeOK, NEW s \in Slots, slots'[s] = Live[s]
    PROVE  Gone(s) => Excused(s)
BY LiveFacts DEF Gone, Excused

LEMMA GoneIsExcused ==
    ASSUME IInv, Next, NEW s \in Slots, Gone(s)
    PROVE  Excused(s)
<1>1. CASE Tick
  BY <1>1, TickStep DEF Tick, Gone, IInv, TypeOK, SlotType
<1>2. CASE BeginSome \/ CancelStaging \/ CheckExpiry
  BY <1>2, LiveIsExcused DEF BeginSome, Begin, CancelStaging, CheckExpiry, IInv
<1>3. CASE AppendSome
  <2>1. PICK slot \in AnySlot, offset \in 0..SlotMaxLen, n \in 0..SlotMaxLen, printable \in BOOLEAN :
               \/ AppendRefused(slot, offset, n, printable)
               \/ AppendStored(slot, offset, n, printable)
               \/ AppendCommits(slot, offset, n, printable)
    BY <1>3 DEF AppendSome
  <2>2. CASE AppendRefused(slot, offset, n, printable) \/ AppendStored(slot, offset, n, printable)
    BY <2>2, LiveIsExcused DEF AppendRefused, AppendStored, IInv
  <2>3. CASE AppendCommits(slot, offset, n, printable)
    <3>1. offset \in Nat /\ n \in Nat
      BY SizeAssumption
    <3>2. /\ LiveStaging.active /\ Acceptable(slot, offset, n, printable)
          /\ slots' = [Live EXCEPT ![slot] = Committed(Received(offset, n))]
      BY <2>3 DEF AppendCommits
    <3>3. /\ staging.active /\ slot = staging.slot /\ slot \in Slots
          /\ Received(offset, n).expected = staging.expected
      BY <3>1, <3>2, ReceivedFacts
    <3>4. CASE s = slot
      <4>1. slots'[s] = Committed(Received(offset, n))
        BY <3>2, <3>4, LiveFacts DEF IInv
      <4> QED BY <3>3, <3>4, <4>1 DEF Committed, Excused
    <3>5. CASE s # slot
      <4>1. slots'[s] = Live[s]
        BY <3>2, <3>5, LiveFacts DEF IInv
      <4> QED BY <4>1, LiveIsExcused DEF IInv
    <3> QED BY <3>4, <3>5
  <2> QED BY <2>1, <2>2, <2>3
<1>4. CASE \E slot \in AnySlot : ClearSlot(slot)
  BY <1>4 DEF ClearSlot, Gone, Excused, IInv, TypeOK
<1>5. CASE ClearAll \/ Reboot
  BY <1>5 DEF Excused
<1>6. CASE \E slot \in AnySlot : Execute(slot)
  <2>1. PICK slot \in AnySlot : Execute(slot)
    BY <1>6
  <2>2. CASE ExecuteNothing(slot) \/ ExecuteRefused(slot)
    BY <2>2, LiveIsExcused DEF ExecuteNothing, ExecuteRefused, AfterRefusal, IInv
  <2>3. CASE ExecuteAccepted(slot)
    <3>1. Live[slot] = slots[slot] /\ slot \in Slots
      BY <2>3, LiveFacts, EmptyType DEF ExecuteAccepted, Executable, IInv
    <3>2. CASE s = slot /\ slots[slot].consume
      BY <2>3, <3>2 DEF Excused
    <3>3. CASE ~(s = slot /\ slots[slot].consume)
      <4>1. slots'[s] = Live[s]
        BY <2>3, <3>1, <3>3, LiveFacts DEF ExecuteAccepted, AfterAcceptance, IInv
      <4> QED BY <4>1, LiveIsExcused DEF IInv
    <3> QED BY <3>2, <3>3
  <2> QED BY <2>1, <2>2, <2>3 DEF Execute
<1>7. CASE Executor \/ TtlDue \/ TtlDequeued
  BY <1>7 DEF Executor, TtlDue, TtlDequeued, Gone
<1>8. CASE TtlHandler
  <2>1. slots' = Live \/ slots' = slots
    BY <1>8 DEF TtlHandler
  <2> QED BY <2>1, LiveIsExcused DEF Gone, IInv
<1> QED BY <1>1, <1>2, <1>3, <1>4, <1>5, <1>6, <1>7, <1>8 DEF Next

\* Committed text goes only for a reason the documents name, and an upload is left alone by what
\* happens to other slots.
THEOREM NothingIsLost == Spec => NoSilentLoss
<1> DEFINE UploadStays ==
        staging.active /\ ~Due(slots[staging.slot]) =>
          /\ CheckExpiry \/ TtlHandler => staging' = staging
          /\ \A s \in Slots : Execute(s) => staging' = staging
          /\ \A s \in Slots \ {staging.slot} : ClearSlot(s) => staging' = staging
<1> DEFINE Kept ==
        /\ \A s \in Slots :
             slots[s].valid /\ ~(slots'[s].valid /\ slots'[s].text = slots[s].text) =>
                \/ Due(slots[s])
                \/ ClearSlot(s) \/ ClearAll \/ Reboot
                \/ ExecuteAccepted(s) /\ slots[s].consume
                \/ /\ slots'[s].valid
                   /\ staging.active /\ staging.slot = s
                   /\ staging.expected = slots'[s].length
        /\ UploadStays
<1>1. UploadStays
  <2> SUFFICES ASSUME staging.active, ~Due(slots[staging.slot]) PROVE UploadStays
    OBVIOUS
  <2>1. LiveStaging = staging
    BY DEF LiveStaging, StagingAfterExpiry
  <2> QED BY <2>1 DEF CheckExpiry, TtlHandler, Execute, ExecuteNothing, ExecuteRefused,
             ExecuteAccepted, ClearSlot
<1>2. IInv /\ [Next]_vars => [Kept]_vars
  <2> SUFFICES ASSUME IInv, Next PROVE Kept
    OBVIOUS
  <2> HIDE DEF UploadStays
  <2> QED BY <1>1, GoneIsExcused DEF Gone, Excused
<1>3. Spec => [][Kept]_vars
  BY <1>2, Inductive, PTL DEF Spec
<1> QED BY <1>3 DEF NoSilentLoss

=============================================================================
