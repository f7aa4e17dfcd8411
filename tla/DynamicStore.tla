--------------------------- MODULE DynamicStore ---------------------------
(***************************************************************************)
(* The RAM-only dynamic macros of src/src/runtime_macro_dynamic.c: the     *)
(* committed slots, the one staging transaction they share, and the one    *)
(* delayable work item that expires them.  Every public function holds     *)
(* runtime_macro_dynamic_mutex throughout, so each is one step; the work   *)
(* item becomes due, is dequeued, and takes the mutex in steps of its own. *)
(*                                                                         *)
(* Deadlines are kept as the time left until them: ttl_deadline_ms minus   *)
(* k_uptime_get(), and 0 once they have passed.  A byte of text is the     *)
(* number of the upload it arrived in, and a zeroized byte is 0.           *)
(***************************************************************************)
EXTENDS Integers

CONSTANTS
    SlotCount,        \* ZMK_RUNTIME_MACRO_DYNAMIC_SLOT_COUNT
    SlotMaxLen,       \* ZMK_RUNTIME_MACRO_DYNAMIC_SLOT_MAX_TEXT_LEN
    LegacyMaxLen,     \* ZMK_RUNTIME_MACRO_DYNAMIC_MAX_TEXT_LEN
    MinTtl,           \* ZMK_RUNTIME_MACRO_DYNAMIC_MIN_TTL_SECONDS
    MaxTtl,           \* ZMK_RUNTIME_MACRO_DYNAMIC_MAX_TTL_SECONDS
    GenerationWrap,   \* 2^32 in the code: the values of a uint32_t
    MaxUploads        \* bound on the uploads begun in one boot

ASSUME SizeAssumption ==
    /\ SlotCount \in Nat \ {0}
    /\ SlotMaxLen \in Nat \ {0}
    /\ LegacyMaxLen \in 1..SlotMaxLen

ASSUME TtlAssumption == MinTtl \in Nat \ {0} /\ MaxTtl \in Nat /\ MinTtl <= MaxTtl

ASSUME CounterAssumption == GenerationWrap \in Nat \ {0, 1} /\ MaxUploads \in Nat

Slots == 0..SlotCount - 1
AnySlot == 0..SlotCount      \* what a caller may pass: SlotCount is out of range
LegacySlot == 0
Positions == 1..SlotMaxLen
Zeroed == [i \in Positions |-> 0]
Off == -1

VARIABLES
    slots,           \* the committed texts
    staging,         \* the upload in progress
    timer,           \* the delay of the work item: time until it is due, or Off
    queued,          \* the item is in the work queue
    running,         \* the work queue has dequeued the item; its handler awaits the mutex
    generation,      \* ttl_generation
    workGeneration,  \* ttl_work_generation
    busy,            \* runtime_macro_executor_busy
    ghost            \* history the properties compare with; no guard reads it

vars == <<slots, staging, timer, queued, running, generation, workGeneration, busy, ghost>>

(***************************************************************************)
(* ghost.uploads: uploads begun so far.  ghost.typed: the uploads that     *)
(* were committed consume-on-accept and that the executor has accepted.    *)
(* ghost.firedFor: the last arming when the running handler was dequeued.  *)
(***************************************************************************)

Empty == [text |-> Zeroed, length |-> 0, valid |-> FALSE, consume |-> TRUE, left |-> 0]

NoStaging == [active |-> FALSE, slot |-> 0, text |-> Zeroed, received |-> 0,
              expected |-> 0, ttl |-> 0, consume |-> TRUE]

---------------------------------------------------------------------------
(* The *_locked helpers. *)

Due(entry) == entry.valid /\ entry.left = 0

Expired(sl) == [s \in Slots |-> IF Due(sl[s]) THEN Empty ELSE sl[s]]

\* The expiry of a slot cancels the upload that targets it.
StagingAfterExpiry(sl, st) == IF st.active /\ Due(sl[st.slot]) THEN NoStaging ELSE st

\* Wrong variant of IsEarliest: the work item waits for the latest deadline.
IsLatest(d, deadlines) == \A e \in deadlines : d >= e

IsEarliest(d, deadlines) == \A e \in deadlines : d <= e

\* runtime_macro_dynamic_rearm_ttl_locked, once the slots are sl.  k_work_cancel_delayable stops
\* the delay and takes the item off the queue; k_work_reschedule only restarts the delay.
Rearm(sl) ==
    LET pending == {sl[s].left : s \in {t \in Slots : sl[t].valid}}
    IN  /\ generation' = (generation + 1) % GenerationWrap
        /\ workGeneration' = generation'
        /\ IF pending = {}
             THEN timer' = Off /\ queued' = FALSE
             ELSE /\ UNCHANGED queued
                  /\ \E d \in pending :
                        /\ IsEarliest(d, pending)
                        /\ timer' = IF d > 0 THEN d ELSE 1

TimerUntouched == UNCHANGED <<timer, queued, generation, workGeneration>>

Live == Expired(slots)
LiveStaging == StagingAfterExpiry(slots, staging)

---------------------------------------------------------------------------
Init ==
    /\ slots = [s \in Slots |-> Empty]
    /\ staging = NoStaging
    /\ timer = Off
    /\ queued = FALSE /\ running = FALSE
    /\ generation = 0 /\ workGeneration = 0
    /\ busy = FALSE
    /\ ghost = [uploads |-> 0, typed |-> {}, firedFor |-> 0]

Countdown(n) == IF n > 0 THEN n - 1 ELSE n

Tick ==
    /\ slots' = [s \in Slots |-> [slots[s] EXCEPT !.left = Countdown(slots[s].left)]]
    /\ timer' = Countdown(timer)
    /\ UNCHANGED <<staging, queued, running, generation, workGeneration, busy, ghost>>

---------------------------------------------------------------------------
(* begin_slot (limit SlotMaxLen) and the legacy begin (slot 0, limit        *)
(* LegacyMaxLen).                                                           *)

BeginValid(slot, total, limit, ttl) ==
    slot \in Slots /\ total \in 1..limit /\ ttl \in MinTtl..MaxTtl

\* Wrong variant of Opened: the upload it replaces leaves its bytes and count behind.
OpenedOverOld(slot, total, ttl, consume) ==
    [staging EXCEPT !.active = TRUE, !.slot = slot, !.expected = total, !.ttl = ttl,
                    !.consume = consume]

Opened(slot, total, ttl, consume) ==
    [NoStaging EXCEPT !.active = TRUE, !.slot = slot, !.expected = total, !.ttl = ttl,
                      !.consume = consume]

Begin(slot, total, limit, ttl, consume) ==
    /\ ghost.uploads < MaxUploads
    /\ slots' = Live
    /\ IF BeginValid(slot, total, limit, ttl)
         THEN /\ staging' = Opened(slot, total, ttl, consume)
              /\ ghost' = [ghost EXCEPT !.uploads = ghost.uploads + 1]
         ELSE /\ staging' = NoStaging
              /\ UNCHANGED ghost
    /\ TimerUntouched
    /\ UNCHANGED <<running, busy>>

BeginSome ==
    \E total \in 0..SlotMaxLen + 1, ttl \in {MinTtl - 1, MinTtl, MaxTtl, MaxTtl + 1}, consume \in BOOLEAN :
       \/ \E slot \in AnySlot : Begin(slot, total, SlotMaxLen, ttl, consume)
       \/ Begin(LegacySlot, total, LegacyMaxLen, ttl, consume)

---------------------------------------------------------------------------
(* append_slot: n bytes at an offset; printable says that every one of them *)
(* is in the macro alphabet.                                                *)

\* Wrong variant of Fits: only the start of the chunk is compared with the announced length.
StartsInside(st, offset, n) ==
    n > 0 /\ offset = st.received /\ offset <= st.expected

Fits(st, offset, n) ==
    n > 0 /\ offset = st.received /\ offset + n <= st.expected

Acceptable(slot, offset, n, printable) ==
    /\ slot \in Slots
    /\ slot = LiveStaging.slot
    /\ Fits(LiveStaging, offset, n)
    /\ printable

\* memcpy of the chunk into the staging buffer.
Received(offset, n) ==
    [LiveStaging EXCEPT
       !.text = [i \in Positions |->
                   IF i \in offset + 1..offset + n THEN ghost.uploads ELSE LiveStaging.text[i]],
       !.received = offset + n]

Committed(st) ==
    [text |-> [i \in Positions |-> IF i <= st.expected THEN st.text[i] ELSE 0],
     length |-> st.expected, valid |-> TRUE, consume |-> st.consume, left |-> st.ttl]

AppendRefused(slot, offset, n, printable) ==
    /\ \/ ~LiveStaging.active /\ staging' = LiveStaging
       \/ LiveStaging.active /\ ~Acceptable(slot, offset, n, printable) /\ staging' = NoStaging
    /\ slots' = Live
    /\ TimerUntouched
    /\ UNCHANGED <<running, busy, ghost>>

AppendStored(slot, offset, n, printable) ==
    /\ LiveStaging.active
    /\ Acceptable(slot, offset, n, printable)
    /\ offset + n # LiveStaging.expected
    /\ slots' = Live
    /\ staging' = Received(offset, n)
    /\ TimerUntouched
    /\ UNCHANGED <<running, busy, ghost>>

AppendCommits(slot, offset, n, printable) ==
    /\ LiveStaging.active
    /\ Acceptable(slot, offset, n, printable)
    /\ offset + n = LiveStaging.expected
    /\ slots' = [Live EXCEPT ![slot] = Committed(Received(offset, n))]
    /\ staging' = NoStaging
    /\ Rearm(slots')
    /\ UNCHANGED <<running, busy, ghost>>

AppendSome ==
    \E slot \in AnySlot, offset \in 0..SlotMaxLen, n \in 0..SlotMaxLen, printable \in BOOLEAN :
       \/ AppendRefused(slot, offset, n, printable)
       \/ AppendStored(slot, offset, n, printable)
       \/ AppendCommits(slot, offset, n, printable)

---------------------------------------------------------------------------
CancelStaging ==
    /\ slots' = Live
    /\ staging' = NoStaging
    /\ TimerUntouched
    /\ UNCHANGED <<running, busy, ghost>>

\* Re-arms without expiring what is due; an out-of-range slot changes nothing.
ClearSlot(slot) ==
    /\ slot \in Slots
    /\ slots' = [slots EXCEPT ![slot] = Empty]
    /\ staging' = IF staging.active /\ staging.slot = slot THEN NoStaging ELSE staging
    /\ Rearm(slots')
    /\ UNCHANGED <<running, busy, ghost>>

\* Also what the BLE profile and endpoint listeners call.
ClearAll ==
    /\ slots' = [s \in Slots |-> Empty]
    /\ staging' = NoStaging
    /\ Rearm(slots')
    /\ UNCHANGED <<running, busy, ghost>>

CheckExpiry ==
    /\ slots' = Live
    /\ staging' = LiveStaging
    /\ Rearm(slots')
    /\ UNCHANGED <<running, busy, ghost>>

---------------------------------------------------------------------------
(* execute_slot, and the executor as it sees it: executor_start accepts the *)
(* text, finds the executor busy, or fails to schedule its work.            *)

Executable(slot) == slot \in Slots /\ Live[slot].valid /\ Live[slot].length # 0

\* Wrong variant of AfterRefusal: a refused consume-on-accept text is gone.
RefusalConsumes(slot) == [Live EXCEPT ![slot] = Empty]

AfterRefusal(slot) == Live

ExecuteNothing(slot) ==
    /\ ~Executable(slot)
    /\ slots' = Live
    /\ staging' = LiveStaging
    /\ TimerUntouched
    /\ UNCHANGED <<running, busy, ghost>>

\* -EBUSY, or the error of k_work_schedule, after which the executor is idle again.
ExecuteRefused(slot) ==
    /\ Executable(slot)
    /\ slots' = AfterRefusal(slot)
    /\ staging' = LiveStaging
    /\ TimerUntouched
    /\ UNCHANGED <<running, busy, ghost>>

\* Wrong variant of AfterAcceptance: the text is never consumed.
AcceptanceKeeps(slot) == Live

AfterAcceptance(slot) == IF Live[slot].consume THEN [Live EXCEPT ![slot] = Empty] ELSE Live

ExecuteAccepted(slot) ==
    /\ Executable(slot)
    /\ ~busy
    /\ busy' = TRUE
    /\ slots' = AfterAcceptance(slot)
    /\ staging' = LiveStaging
    /\ IF Live[slot].consume THEN Rearm(slots') ELSE TimerUntouched
    /\ ghost' = IF Live[slot].consume
                  THEN [ghost EXCEPT !.typed = ghost.typed \cup {Live[slot].text[1]}]
                  ELSE ghost
    /\ UNCHANGED running

Execute(slot) == ExecuteNothing(slot) \/ ExecuteRefused(slot) \/ ExecuteAccepted(slot)

\* A static macro takes the shared executor; whatever it types ends.
ExecutorTaken == ~busy /\ busy' = TRUE
ExecutorFinished == busy /\ busy' = FALSE

Executor ==
    /\ ExecutorTaken \/ ExecutorFinished
    /\ UNCHANGED <<slots, staging, timer, queued, running, generation, workGeneration, ghost>>

---------------------------------------------------------------------------
(* The TTL work item.  When its delay is over it goes into the work queue,  *)
(* at most once.  Nothing stops a handler that has been dequeued.           *)

TtlDue ==
    /\ timer = 0
    /\ timer' = Off
    /\ queued' = TRUE
    /\ UNCHANGED <<slots, staging, running, generation, workGeneration, busy, ghost>>

TtlDequeued ==
    /\ queued
    /\ ~running
    /\ queued' = FALSE
    /\ running' = TRUE
    /\ ghost' = [ghost EXCEPT !.firedFor = workGeneration]
    /\ UNCHANGED <<slots, staging, timer, generation, workGeneration, busy>>

\* Wrong variant of TtlHandler: the handler does not arm the next deadline.
TtlHandlerForgets ==
    /\ running
    /\ running' = FALSE
    /\ slots' = Live
    /\ staging' = LiveStaging
    /\ TimerUntouched
    /\ UNCHANGED <<busy, ghost>>

TtlHandler ==
    /\ running
    /\ running' = FALSE
    /\ IF workGeneration = generation
         THEN slots' = Live /\ staging' = LiveStaging
         ELSE UNCHANGED <<slots, staging>>
    /\ Rearm(slots')
    /\ UNCHANGED <<busy, ghost>>

\* Everything is in RAM: SYS_INIT calls zmk_runtime_macro_dynamic_reset.
Reboot ==
    /\ slots' = [s \in Slots |-> Empty]
    /\ staging' = NoStaging
    /\ timer' = Off
    /\ queued' = FALSE /\ running' = FALSE
    /\ generation' = 0 /\ workGeneration' = 0
    /\ busy' = FALSE
    /\ ghost' = [uploads |-> 0, typed |-> {}, firedFor |-> 0]

Next ==
    \/ Tick
    \/ BeginSome
    \/ AppendSome
    \/ CancelStaging
    \/ \E slot \in AnySlot : ClearSlot(slot)
    \/ ClearAll
    \/ CheckExpiry
    \/ \E slot \in AnySlot : Execute(slot)
    \/ Executor
    \/ TtlDue \/ TtlDequeued \/ TtlHandler
    \/ Reboot

Spec == Init /\ [][Next]_vars

\* Time passes, a delay that is over queues the item, the work queue thread runs what is queued,
\* and its handler gets the mutex.
LiveSpec ==
    /\ Spec
    /\ WF_vars(Tick) /\ WF_vars(TtlDue)
    /\ WF_vars(TtlDequeued) /\ WF_vars(TtlHandler)

---------------------------------------------------------------------------
Buffer == [Positions -> Nat]

SlotType == [text : Buffer, length : 0..SlotMaxLen, valid : BOOLEAN, consume : BOOLEAN,
             left : 0..MaxTtl]

StagingType == [active : BOOLEAN, slot : Slots, text : Buffer, received : 0..SlotMaxLen,
                expected : 0..SlotMaxLen, ttl : 0..MaxTtl, consume : BOOLEAN]

TypeOK ==
    /\ slots \in [Slots -> SlotType]
    /\ staging \in StagingType
    /\ timer \in {Off} \cup 0..MaxTtl
    /\ queued \in BOOLEAN /\ running \in BOOLEAN
    /\ generation \in 0..GenerationWrap - 1
    /\ workGeneration \in 0..GenerationWrap - 1
    /\ busy \in BOOLEAN
    /\ ghost \in [uploads : Nat, typed : SUBSET Nat, firedFor : 0..GenerationWrap - 1]

\* No torn text: whatever transactions were abandoned, rejected or expired in between, a
\* committed slot holds exactly the announced number of bytes, all from one upload, and zeroes
\* after them; a slot that is not committed holds nothing but zeroes.
WholeUploads ==
    \A s \in Slots :
       IF slots[s].valid
         THEN /\ slots[s].length > 0
              /\ \E u \in 1..ghost.uploads : \A i \in Positions :
                    slots[s].text[i] = IF i <= slots[s].length THEN u ELSE 0
         ELSE slots[s].text = Zeroed /\ slots[s].length = 0

\* Text always has a wake-up call: as long as a slot holds text, the handler is about to run, or
\* the work item is queued or due no later than the slot's deadline (or at the next tick, the least delay
\* the code asks for), although several operations change slots without touching the item.
TimerCovers ==
    \A s \in Slots : slots[s].valid =>
        running \/ queued \/ timer = 1 \/ timer \in 0..slots[s].left

\* The executor gets what it should: a text whose deadline has not passed, however late the work
\* item runs, and a consume-on-accept text only once in its life, by whatever path it survived.
ExecutesInTimeAndOnce ==
    [][ \A s \in Slots : ExecuteAccepted(s) =>
          /\ slots[s].valid /\ slots[s].left > 0
          /\ slots[s].consume => slots[s].text[1] \notin ghost.typed ]_vars

\* Nothing is lost or altered on the quiet.  Committed text goes when its time is up, when it
\* is cleared, when the executor has accepted it to be consumed, or when a complete upload
\* replaces it; not because an upload was abandoned, another slot expired, or the executor
\* was busy.  And an upload in progress survives what happens to the other slots: expiry,
\* clearing or execution there leaves it as it was.
NoSilentLoss ==
    [][ /\ \A s \in Slots :
             slots[s].valid /\ ~(slots'[s].valid /\ slots'[s].text = slots[s].text) =>
                \/ Due(slots[s])
                \/ ClearSlot(s) \/ ClearAll \/ Reboot
                \/ ExecuteAccepted(s) /\ slots[s].consume
                \/ /\ slots'[s].valid
                   /\ staging.active /\ staging.slot = s
                   /\ staging.expected = slots'[s].length
        /\ staging.active /\ ~Due(slots[staging.slot]) =>
             /\ CheckExpiry \/ TtlHandler => staging' = staging
             /\ \A s \in Slots : Execute(s) => staging' = staging
             /\ \A s \in Slots \ {staging.slot} : ClearSlot(s) => staging' = staging ]_vars

\* Text whose time is up goes in the end, although only a timer and a work queue see to it,
\* unless somebody clears slots forever: each clear puts the delay off by a tick.
DueIsCleared ==
    \A s \in Slots :
       \/ []<><<\E t \in Slots : ClearSlot(t)>>_vars
       \/ Due(slots[s]) ~> ~Due(slots[s])

\* What the comment in the handler says: a run that was dequeued before the item was armed
\* anew must not expire anything.
StaleRunExpiresNothing ==
    [][ TtlHandler /\ ghost.firedFor # generation => slots' = slots ]_vars

=============================================================================
