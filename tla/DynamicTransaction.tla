------------------------- MODULE DynamicTransaction -------------------------
(***************************************************************************)
(* The dynamic transaction of src/src/runtime_macro_protocol.c, composed   *)
(* with the store of DynamicStore.  The protocol keeps its own account of  *)
(* the upload (identity, length, bytes received, deadline) beside the      *)
(* store's staging buffer, and a delayable work item that drops an upload  *)
(* nobody continues.  Requests and the work item exclude each other with   *)
(* the timeout mutex, which is held over the calls of the store; keys,     *)
(* listeners and the store's own work item take only the store's mutex.    *)
(*                                                                         *)
(* A request holds the store's mutex only inside each call.  It is one     *)
(* step here all the same: what other threads do between its calls touches *)
(* the store, the rest of the request only the protocol, and a             *)
(* cancel_staging that ends a request commutes with what they do to slots. *)
(*                                                                         *)
(* The store's actions are those of DynamicStore, whose variables this     *)
(* module shares; Transaction... is what the composition makes of them.    *)
(***************************************************************************)
EXTENDS DynamicStore

CONSTANTS
    Ids,                 \* request identifiers
    TransactionTimeout   \* ZMK_RUNTIME_MACRO_PROTOCOL_DYNAMIC_TRANSACTION_TIMEOUT_SECONDS

ASSUME TimeoutAssumption == TransactionTimeout \in Nat \ {0}
ASSUME IdAssumption == Ids \subseteq Nat

VARIABLES
    tx,        \* the dynamic_* fields of the protocol object, with the time left to the deadline
    owner,     \* runtime_macro_protocol_dynamic_timeout_owner is the protocol object
    timeout,   \* the timeout work item: its delay, in the work queue, dequeued
    told,      \* history: uploads whose last DATA request was answered with success
    quiet      \* history: seconds since BEGIN or DATA last kept an upload open, up to the time-out

protocolVars == <<tx, owner, timeout, told, quiet>>
allVars == <<vars, protocolVars>>

NoTx == [active |-> FALSE, slot |-> 0, id |-> 0, total |-> 0, received |-> 0, left |-> 0]
NoTimeout == [left |-> Off, queued |-> FALSE, running |-> FALSE]

TransactionInit ==
    /\ Init
    /\ tx = NoTx
    /\ owner = FALSE
    /\ timeout = NoTimeout
    /\ told = {}
    /\ quiet = 0

---------------------------------------------------------------------------
(* Helpers. *)

\* k_work_cancel_delayable, from a request or from the handler itself.
Cancelled == [timeout EXCEPT !.left = Off, !.queued = FALSE]

\* Only the owner's timeout is cancelled; there is one protocol object, but it may not own it.
Disowned(item) ==
    /\ owner' = FALSE
    /\ timeout' = [IF owner THEN Cancelled ELSE timeout EXCEPT !.running = item]

\* runtime_macro_protocol_clear_dynamic_locked; item says whether the handler still runs after it.
Dropped(item) ==
    /\ CancelStaging
    /\ Disowned(item)
    /\ tx' = NoTx
    /\ UNCHANGED <<told, quiet>>

ClearDynamic == Dropped(timeout.running)

\* Wrong variant of Refreshed: the work item is armed for nobody.
RefreshedForNobody(t) ==
    /\ tx' = [t EXCEPT !.left = TransactionTimeout]
    /\ UNCHANGED owner
    /\ timeout' = [timeout EXCEPT !.left = TransactionTimeout]

\* Wrong variant of Refreshed: an upload has until the deadline that BEGIN has set.
RefreshedOnce(t) ==
    /\ tx' = [t EXCEPT !.left = IF tx.active THEN tx.left ELSE TransactionTimeout]
    /\ owner' = TRUE
    /\ timeout' = [timeout EXCEPT !.left = TransactionTimeout]

\* runtime_macro_protocol_refresh_dynamic_timeout_locked, when k_work_reschedule succeeds.
Refreshed(t) ==
    /\ tx' = [t EXCEPT !.left = TransactionTimeout]
    /\ owner' = TRUE
    /\ timeout' = [timeout EXCEPT !.left = TransactionTimeout]

---------------------------------------------------------------------------
(* DYNAMIC_BEGIN.  flagsOk: payload length and flags are ones it knows.     *)

BeginRequests ==
    [slot : AnySlot, id : Ids, offset : {0, 1}, total : 0..SlotMaxLen + 1,
     ttl : {MinTtl - 1, MinTtl, MaxTtl, MaxTtl + 1}, consume : BOOLEAN, flagsOk : BOOLEAN]

BeginPasses(r) ==
    /\ r.slot \in Slots
    /\ r.offset = 0
    /\ r.total \in 1..SlotMaxLen
    /\ r.flagsOk
    /\ r.ttl \in MinTtl..MaxTtl

Begins == {r \in BeginRequests : BeginPasses(r)}

BeginRejected == BeginRequests \ Begins # {} /\ ClearDynamic

Started(r) ==
    [NoTx EXCEPT !.active = TRUE, !.slot = r.slot, !.id = r.id, !.total = r.total]

BeginAccepted(r) ==
    /\ BeginValid(r.slot, r.total, SlotMaxLen, r.ttl)
    /\ Begin(r.slot, r.total, SlotMaxLen, r.ttl, r.consume)
    /\ Refreshed(Started(r))
    /\ quiet' = 0
    /\ UNCHANGED told

\* begin_slot or the scheduling of the timeout failed: what was begun is cancelled.
BeginFailed == Begins # {} /\ ClearDynamic

DynamicBegin ==
    \/ BeginRejected
    \/ \E r \in Begins : BeginAccepted(r)
    \/ BeginFailed

---------------------------------------------------------------------------
(* DYNAMIC_DATA: n bytes at an offset. *)

DataRequests ==
    [slot : AnySlot, id : Ids, offset : 0..SlotMaxLen + 1, total : 0..SlotMaxLen + 1,
     n : 0..SlotMaxLen, printable : BOOLEAN]

WellFormed(r) ==
    /\ r.slot \in Slots
    /\ r.total \in 1..SlotMaxLen
    /\ r.offset <= r.total
    /\ r.n \in 1..r.total - r.offset

Chunks == {r \in DataRequests : WellFormed(r)}

Continues(r) ==
    /\ tx.active
    /\ r.slot = tx.slot /\ r.id = tx.id /\ r.total = tx.total
    /\ r.offset = tx.received

DataPasses(r) == Continues(r) /\ r.printable

StoreTakes(r) ==
    LiveStaging.active /\ Acceptable(r.slot, r.offset, r.n, r.printable)

\* Wrong variant of Advanced: the bytes are not counted.
NotAdvanced(r) == tx

Advanced(r) == [tx EXCEPT !.received = r.offset + r.n]

\* Wrong variant of Completes: off by one.
CompletesEarly(r) == r.offset + r.n + 1 >= tx.total

Completes(r) == r.offset + r.n = tx.total

\* Refused by the protocol, or by the store: -ENOENT when its staging is gone.
DataRejected ==
    /\ DataRequests \ {r \in Chunks : DataPasses(r) /\ StoreTakes(r)} # {}
    /\ ClearDynamic

Appended(r) ==
    \/ AppendStored(r.slot, r.offset, r.n, r.printable)
    \/ AppendCommits(r.slot, r.offset, r.n, r.printable)

\* Wrong variant of ClearTx: the request leaves its identity behind.
OnlyInactive == [tx EXCEPT !.active = FALSE]

ClearTx == NoTx

DataCompletes(r) ==
    /\ DataPasses(r)
    /\ Completes(r)
    /\ Appended(r)
    /\ Disowned(timeout.running)
    /\ tx' = ClearTx
    /\ told' = told \cup {ghost.uploads}
    /\ UNCHANGED quiet

DataStored(r) ==
    /\ DataPasses(r)
    /\ ~Completes(r)
    /\ Appended(r)
    /\ Refreshed(Advanced(r))
    /\ quiet' = 0
    /\ UNCHANGED told

\* The chunk is stored, but its timeout cannot be scheduled.
DataNotRefreshed ==
    /\ {r \in Chunks : DataPasses(r) /\ ~Completes(r) /\ StoreTakes(r)} # {}
    /\ ClearDynamic

DynamicData ==
    \/ DataRejected
    \/ \E r \in Chunks : DataCompletes(r) \/ DataStored(r)
    \/ DataNotRefreshed

---------------------------------------------------------------------------
(* DYNAMIC_CLEAR; a request with a bad slot or object changes nothing. *)

DynamicClear(slot) ==
    /\ ClearSlot(slot)
    /\ IF tx.active /\ tx.slot = slot
         THEN Disowned(timeout.running) /\ tx' = ClearTx
         ELSE UNCHANGED <<tx, owner, timeout>>
    /\ UNCHANGED <<told, quiet>>

\* Whatever else ends a transaction, at any moment: a transport reset, LOCK, AUTH_PROVE, a new
\* password, a refused management request, a changed authentication state, a malformed frame.
Discard == ClearDynamic

---------------------------------------------------------------------------
(* The timeout work item.  It shares the work queue thread with the store's *)
(* TTL item.                                                                *)

TimeoutDue ==
    /\ timeout.left = 0
    /\ timeout' = [timeout EXCEPT !.left = Off, !.queued = TRUE]
    /\ UNCHANGED <<vars, tx, owner, told, quiet>>

TimeoutDequeued ==
    /\ timeout.queued
    /\ ~timeout.running /\ ~running
    /\ timeout' = [timeout EXCEPT !.queued = FALSE, !.running = TRUE]
    /\ UNCHANGED <<vars, tx, owner, told, quiet>>

HandlerHasNoTx ==
    /\ timeout.running
    /\ ~(owner /\ tx.active)
    /\ owner' = FALSE
    /\ timeout' = [timeout EXCEPT !.running = FALSE]
    /\ UNCHANGED <<vars, tx, told, quiet>>

DeadlinePassed == tx.left = 0

\* Wrong variant of HandlerTooEarly: the rest of the time is not waited for.
HandlerGivesUp ==
    /\ timeout.running
    /\ owner /\ tx.active /\ ~DeadlinePassed
    /\ timeout' = NoTimeout
    /\ UNCHANGED <<vars, tx, owner, told, quiet>>

\* Dequeued for a deadline that a request has put off since.  The code ignores what rescheduling
\* returns; it is taken to succeed.
HandlerTooEarly ==
    /\ timeout.running
    /\ owner /\ tx.active /\ ~DeadlinePassed
    /\ timeout' = [timeout EXCEPT !.left = tx.left, !.running = FALSE]
    /\ UNCHANGED <<vars, tx, owner, told, quiet>>

HandlerDrops ==
    /\ timeout.running
    /\ owner /\ tx.active /\ DeadlinePassed
    /\ Dropped(FALSE)

TimeoutHandler == HandlerHasNoTx \/ HandlerTooEarly \/ HandlerDrops

---------------------------------------------------------------------------
(* What the store goes through without the protocol: keys, listeners and a  *)
(* USB disconnect, which clears the store after it has discarded the        *)
(* transaction.                                                             *)

StoreAlone ==
    /\ \/ \E slot \in Slots : Execute(slot)
       \/ ClearAll
       \/ Executor
       \/ TtlDue
       \/ ~timeout.running /\ TtlDequeued
    /\ UNCHANGED protocolVars

StoreTtlHandler == TtlHandler /\ UNCHANGED protocolVars

TransactionTick ==
    /\ Tick
    /\ tx' = [tx EXCEPT !.left = Countdown(tx.left)]
    /\ timeout' = [timeout EXCEPT !.left = Countdown(timeout.left)]
    /\ quiet' = IF quiet < TransactionTimeout THEN quiet + 1 ELSE quiet
    /\ UNCHANGED <<owner, told>>

\* Nothing of this survives a reset of the keyboard.
TransactionReboot ==
    /\ Reboot
    /\ tx' = NoTx
    /\ owner' = FALSE
    /\ timeout' = NoTimeout
    /\ told' = {}
    /\ quiet' = 0

TransactionNext ==
    \/ DynamicBegin
    \/ DynamicData
    \/ \E slot \in Slots : DynamicClear(slot)
    \/ Discard
    \/ TimeoutDue \/ TimeoutDequeued \/ TimeoutHandler
    \/ StoreAlone
    \/ StoreTtlHandler
    \/ TransactionTick
    \/ TransactionReboot

TransactionSpec == TransactionInit /\ [][TransactionNext]_allVars

\* Time passes, a delay that is over queues the item, and the work queue is first in, first out:
\* an item that waits while the TTL item runs again and again still gets its turn.
TransactionLiveSpec ==
    /\ TransactionSpec
    /\ WF_allVars(TransactionTick) /\ WF_allVars(TimeoutDue)
    /\ SF_allVars(TimeoutDequeued)
    /\ WF_allVars(TimeoutHandler) /\ WF_allVars(StoreTtlHandler)

---------------------------------------------------------------------------
OpenTx ==
    [active : {TRUE}, slot : Slots, id : Ids, total : 1..SlotMaxLen,
     received : 0..SlotMaxLen - 1, left : 0..TransactionTimeout]

\* Besides the types: a transaction that is over leaves nothing of its identity behind.
TransactionTypeOK ==
    /\ TypeOK
    /\ tx \in {NoTx} \cup OpenTx
    /\ owner \in BOOLEAN
    /\ timeout \in [left : {Off} \cup 0..TransactionTimeout, queued : BOOLEAN, running : BOOLEAN]
    /\ told \subseteq 1..ghost.uploads
    /\ quiet \in 0..TransactionTimeout

\* The two accounts of one upload agree: as long as the store stages bytes, the protocol has a
\* transaction for the same slot and length, and both have counted the same bytes.  So nothing is
\* staged that no request can continue and no timeout will drop.
InStep ==
    staging.active =>
        /\ tx.active
        /\ tx.slot = staging.slot
        /\ tx.total = staging.expected
        /\ tx.received = staging.received

\* An open transaction always has a wake-up call not later than its deadline, and the handler
\* will know whose it is, whatever refreshes race with a handler already dequeued.
TimeoutCovers ==
    tx.active => owner /\ (timeout.running \/ timeout.queued \/ timeout.left \in 0..tx.left)

\* Success is told for the last chunk exactly when the whole upload becomes executable: in the
\* same step, and never otherwise.
CommittedUploads == {slots[s].text[1] : s \in {t \in Slots : slots[t].valid}}
ToldWhatHappened ==
    [][told' \ told = CommittedUploads' \ CommittedUploads]_allVars

\* A handler dequeued for an old deadline does not take away an upload that has been continued,
\* or another that has been begun, while it waited for the mutex: one that is timed out has not
\* been heard of for the whole time-out.
NoEarlyTimeout ==
    [][ TimeoutHandler /\ tx.active /\ ~tx'.active => quiet = TransactionTimeout ]_allVars

\* An upload nobody continues is dropped in the end.
AbandonedIsDropped ==
    \/ []<><<\E r \in Begins : BeginAccepted(r)>>_allVars
    \/ tx.active ~> ~tx.active

=============================================================================
