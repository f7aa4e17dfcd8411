---------------------- MODULE DynamicTransactionProofs ----------------------
(***************************************************************************)
(* Proofs, for any slots, lengths, identifiers and time-outs, that the     *)
(* protocol uses the store only as DynamicStore allows, so that what is    *)
(* proved of the store holds here too; that both keep the same account of  *)
(* an upload and its timeout is always armed; and that success is told of  *)
(* what became executable and of nothing else.                             *)
(***************************************************************************)
EXTENDS DynamicTransaction, DynamicStoreProofs

---------------------------------------------------------------------------
(* The protocol calls the store only as the store allows.                  *)

LEMMA CancelIsOfTheStore == ClearDynamic \/ HandlerDrops => Next
BY DEF ClearDynamic, HandlerDrops, Dropped, Next

LEMMA BeginIsOfTheStore == ASSUME NEW r \in Begins, BeginAccepted(r) PROVE Next
<1>1. /\ r.slot \in AnySlot /\ r.total \in 0..SlotMaxLen + 1
      /\ r.ttl \in {MinTtl - 1, MinTtl, MaxTtl, MaxTtl + 1} /\ r.consume \in BOOLEAN
  BY DEF Begins, BeginRequests
<1>2. Begin(r.slot, r.total, SlotMaxLen, r.ttl, r.consume)
  BY DEF BeginAccepted
<1>3. BeginSome
  BY <1>1, <1>2 DEF BeginSome
<1> QED BY <1>3 DEF Next

LEMMA AppendIsOfTheStore == ASSUME NEW r \in Chunks, Appended(r) PROVE Next
<1>1. /\ r.slot \in AnySlot /\ r.n \in 0..SlotMaxLen /\ r.printable \in BOOLEAN
      /\ r.offset \in 0..SlotMaxLen
  BY SizeAssumption DEF Chunks, WellFormed, DataRequests
<1>2. AppendSome
  BY <1>1 DEF Appended, AppendSome
<1> QED BY <1>2 DEF Next

\* Whatever the protocol, its timeout and everybody else do together, the store behaves as
\* DynamicStore says; so what is proved of the store holds of it inside the composition.
THEOREM UsesTheStore == TransactionSpec => Spec
<1>1. TransactionInit => Init
  BY DEF TransactionInit
<1>2. [TransactionNext]_allVars => [Next]_vars
  <2> SUFFICES ASSUME [TransactionNext]_allVars PROVE Next \/ UNCHANGED vars
    OBVIOUS
  <2>1. CASE UNCHANGED allVars
    BY <2>1 DEF allVars, vars
  <2>2. CASE DynamicBegin \/ Discard
    BY <2>2, CancelIsOfTheStore, BeginIsOfTheStore
       DEF DynamicBegin, BeginRejected, BeginFailed, Discard
  <2>3. CASE DynamicData
    BY <2>3, CancelIsOfTheStore, AppendIsOfTheStore
       DEF DynamicData, DataRejected, DataNotRefreshed, DataCompletes, DataStored
  <2>4. ASSUME NEW slot \in Slots, DynamicClear(slot) PROVE Next
    <3>1. slot \in AnySlot /\ ClearSlot(slot)
      BY <2>4, SizeAssumption DEF DynamicClear, Slots, AnySlot
    <3> QED BY <3>1 DEF Next
  <2>5. CASE TimeoutDue \/ TimeoutDequeued \/ HandlerHasNoTx \/ HandlerTooEarly
    BY <2>5 DEF TimeoutDue, TimeoutDequeued, HandlerHasNoTx, HandlerTooEarly, vars
  <2>6. CASE HandlerDrops
    BY <2>6, CancelIsOfTheStore
  <2>7. CASE StoreAlone
    <3>1. \A slot \in Slots : slot \in AnySlot
      BY SizeAssumption DEF Slots, AnySlot
    <3> QED BY <2>7, <3>1 DEF StoreAlone, Next
  <2>8. CASE StoreTtlHandler \/ TransactionTick \/ TransactionReboot
    BY <2>8 DEF StoreTtlHandler, TransactionTick, TransactionReboot, Next
  <2> QED BY <2>1, <2>2, <2>3, <2>4, <2>5, <2>6, <2>7, <2>8 DEF TransactionNext, TimeoutHandler
<1> QED BY <1>1, <1>2, PTL DEF TransactionSpec, Spec

\* The invariant of the store, proved of the store alone.
LEMMA StoreInvariant == TransactionSpec => []IInv
BY UsesTheStore, Inductive, PTL

---------------------------------------------------------------------------
(* The invariant. *)

TimeoutType ==
    [left : {Off} \cup 0..TransactionTimeout, queued : BOOLEAN, running : BOOLEAN]

Types ==
    /\ tx \in {NoTx} \cup OpenTx
    /\ owner \in BOOLEAN
    /\ timeout \in TimeoutType

\* What the protocol knows of the upload, and who will wake it up.
Account == Types /\ InStep /\ TimeoutCovers

\* Success has been told of uploads that were begun, and not of the one that is under way.
ToldOfThePast ==
    /\ told \subseteq 1..ghost.uploads
    /\ staging.active => ghost.uploads \notin told

\* The deadline of an open transaction is a whole time-out after the last request that kept it
\* open, so its time left and the time since that request make up a time-out.
HeardOf ==
    /\ quiet \in 0..TransactionTimeout
    /\ tx.active => tx.left + quiet >= TransactionTimeout

TransactionInv == IInv /\ Account /\ ToldOfThePast /\ HeardOf

---------------------------------------------------------------------------
(* What the calls of the store do to the staging buffer. *)

StagingKept == staging' = staging
StagingGone == staging' = NoStaging

LEMMA NoTxFacts ==
    ~NoTx.active /\ \A t \in OpenTx : t.active = TRUE
BY DEF NoTx, OpenTx

LEMMA NoTimeoutFacts == NoTimeout \in TimeoutType
BY DEF NoTimeout, TimeoutType

LEMMA NoStagingFacts == StagingGone => ~staging'.active
BY DEF StagingGone, NoStaging

LEMMA LiveStagingFacts ==
    /\ LiveStaging = staging \/ LiveStaging = NoStaging
    /\ LiveStaging.active => LiveStaging = staging
<1>1. LiveStaging = staging \/ LiveStaging = NoStaging
  BY DEF LiveStaging, StagingAfterExpiry
<1>2. ~NoStaging.active
  BY DEF NoStaging
<1> QED BY <1>1, <1>2

LEMMA StoreOnly ==
    /\ \A slot \in Slots : Execute(slot) => StagingKept \/ StagingGone
    /\ ClearAll => StagingGone
    /\ Executor \/ TtlDue \/ TtlDequeued \/ Tick => StagingKept
    /\ TtlHandler => StagingKept \/ StagingGone
    /\ CancelStaging \/ Reboot => StagingGone
<1>1. \A slot \in Slots : Execute(slot) => StagingKept \/ StagingGone
  BY LiveStagingFacts
     DEF Execute, ExecuteNothing, ExecuteRefused, ExecuteAccepted,
         StagingKept, StagingGone
<1>2. TtlHandler => StagingKept \/ StagingGone
  BY LiveStagingFacts DEF TtlHandler, StagingKept, StagingGone
<1> QED BY <1>1, <1>2
      DEF ClearAll, Executor, TtlDue, TtlDequeued, Tick,
          CancelStaging, Reboot, StagingKept, StagingGone

---------------------------------------------------------------------------
(* The steps, by what they do to the transaction. *)

\* The transaction is over, and nothing is staged.
LEMMA OverStep ==
    ASSUME StagingGone, tx' = NoTx, owner' \in BOOLEAN, timeout' \in TimeoutType
    PROVE  Account'
BY NoStagingFacts, NoTxFacts DEF Account, Types, InStep, TimeoutCovers

\* The store does something, and the protocol nothing.
LEMMA StoreStep ==
    ASSUME Account, StagingKept \/ StagingGone, UNCHANGED protocolVars
    PROVE  Account'
<1>1. UNCHANGED <<tx, owner, timeout>>
  BY DEF protocolVars
<1>2. CASE StagingKept
  BY <1>1, <1>2
     DEF StagingKept, Account, Types, InStep, TimeoutCovers, Off
<1>3. CASE StagingGone
  BY <1>1, <1>3, NoStagingFacts DEF Account, Types, InStep, TimeoutCovers
<1> QED BY <1>2, <1>3

LEMMA DisownedFacts ==
    ASSUME timeout \in TimeoutType, NEW item \in BOOLEAN, Disowned(item)
    PROVE  owner' = FALSE /\ timeout' \in TimeoutType
BY DEF Disowned, Cancelled, TimeoutType

LEMMA DroppedStep == ASSUME Account, NEW item \in BOOLEAN, Dropped(item) PROVE Account'
<1>1. StagingGone /\ tx' = NoTx
  BY StoreOnly DEF Dropped
<1>2. owner' = FALSE /\ timeout' \in TimeoutType
  BY DisownedFacts DEF Dropped, Account, Types
<1> QED BY <1>1, <1>2, OverStep

LEMMA ClearDynamicStep == Account /\ ClearDynamic => Account'
BY DroppedStep DEF ClearDynamic, Account, Types, TimeoutType

\* The transaction is begun or goes on, in step with the store, and its timeout is armed.
LEMMA RefreshedStep ==
    ASSUME Account, NEW t, Refreshed(t), [t EXCEPT !.left = TransactionTimeout] \in OpenTx,
           staging'.active =>
              /\ tx'.slot = staging'.slot /\ tx'.total = staging'.expected
              /\ tx'.received = staging'.received
    PROVE  Account'
<1>1. tx' \in OpenTx /\ tx'.left = TransactionTimeout /\ tx'.active = TRUE
  <2>1. tx' = [t EXCEPT !.left = TransactionTimeout] /\ tx' \in OpenTx
    BY DEF Refreshed
  <2>2. tx'.left = TransactionTimeout
    <3>1. "left" \in DOMAIN tx'
      BY <2>1 DEF OpenTx
    <3>2. "left" \in DOMAIN t
      BY <2>1, <3>1
    <3> QED BY <2>1, <3>2
  <2> QED BY <2>1, <2>2 DEF OpenTx
<1>2. /\ timeout' \in TimeoutType /\ timeout'.left = TransactionTimeout
      /\ owner' = TRUE
  BY TimeoutAssumption DEF Refreshed, Account, Types, TimeoutType
<1>3. InStep'
  BY <1>1 DEF InStep
<1>4. TimeoutCovers'
  BY <1>1, <1>2, TimeoutAssumption DEF TimeoutCovers
<1> QED BY <1>1, <1>2, <1>3, <1>4 DEF Account, Types

LEMMA BeginAcceptedStep ==
    ASSUME Account, NEW r \in Begins, BeginAccepted(r)
    PROVE  Account'
<1>1. r.slot \in Slots /\ r.total \in 1..SlotMaxLen /\ r.id \in Ids
  BY DEF Begins, BeginRequests, BeginPasses
<1>2. /\ Started(r) \in OpenTx
      /\ Started(r).slot = r.slot /\ Started(r).total = r.total /\ Started(r).received = 0
  <2> DEFINE Wide == [active : BOOLEAN, slot : {0} \cup Slots, id : {0} \cup Ids,
                      total : {0} \cup 1..SlotMaxLen, received : {0},
                      left : 0..TransactionTimeout]
  <2>1. NoTx \in Wide
    BY TimeoutAssumption DEF NoTx
  <2>2. /\ Started(r) \in Wide
        /\ Started(r).active = TRUE /\ Started(r).slot = r.slot /\ Started(r).id = r.id
        /\ Started(r).total = r.total
    BY <1>1, <2>1 DEF Started
  <2>3. 0 \in 0..SlotMaxLen - 1
    BY SizeAssumption
  <2> QED BY <1>1, <2>2, <2>3 DEF OpenTx
<1> DEFINE t == [Started(r) EXCEPT !.left = TransactionTimeout]
<1>3. /\ t \in OpenTx
      /\ t.slot = r.slot /\ t.total = r.total /\ t.received = 0
  <2>1. TransactionTimeout \in 0..TransactionTimeout
    BY TimeoutAssumption
  <2> QED BY <1>2, <2>1 DEF OpenTx
<1>4. Refreshed(Started(r)) /\ tx' = t
  BY DEF BeginAccepted, Refreshed
<1>5. staging' = [active |-> TRUE, slot |-> r.slot, text |-> Zeroed, received |-> 0,
                  expected |-> r.total, ttl |-> r.ttl, consume |-> r.consume]
  BY DEF BeginAccepted, Begin, Opened, NoStaging
<1>6. tx'.slot = staging'.slot /\ tx'.total = staging'.expected /\ tx'.received = staging'.received
  BY <1>3, <1>4, <1>5
<1> QED BY <1>3, <1>4, <1>6, RefreshedStep

\* The store appends only where the protocol expects it to.
LEMMA AppendedFacts ==
    ASSUME IInv, Account, NEW r \in Chunks, DataPasses(r), Appended(r)
    PROVE  /\ staging.active /\ tx \in OpenTx
           /\ staging.expected = r.total /\ staging.slot = r.slot
           /\ tx.slot = r.slot /\ tx.total = r.total /\ tx.received = r.offset
           /\ r.offset + r.n = r.total => StagingGone
           /\ staging'.active => /\ staging'.slot = r.slot /\ staging'.expected = r.total
                                 /\ staging'.received = r.offset + r.n
<1>1. LiveStaging = staging /\ staging.active
  BY LiveStagingFacts DEF Appended, AppendStored, AppendCommits
<1>2. /\ tx \in OpenTx /\ tx.slot = r.slot /\ tx.total = r.total /\ tx.received = r.offset
  BY NoTxFacts DEF DataPasses, Continues, Account, Types
<1>3. staging.expected = r.total /\ staging.slot = r.slot
  BY <1>1, <1>2 DEF Account, InStep
<1>4. CASE AppendStored(r.slot, r.offset, r.n, r.printable)
  <2> DEFINE text == [i \in Positions |->
                        IF i \in r.offset + 1..r.offset + r.n
                          THEN ghost.uploads ELSE staging.text[i]]
             sum == r.offset + r.n
  <2>1. staging' = [staging EXCEPT !.text = text, !.received = sum]
    BY <1>1, <1>4 DEF AppendStored, Received
  <2>2. sum # r.total
    BY <1>1, <1>3, <1>4 DEF AppendStored
  <2> HIDE DEF text, sum
  <2>3. staging'.slot = staging.slot /\ staging'.expected = staging.expected
        /\ staging'.received = sum
    BY <2>1 DEF IInv, TypeOK, StagingType
  <2> QED BY <1>1, <1>2, <1>3, <2>2, <2>3 DEF sum
<1>5. CASE AppendCommits(r.slot, r.offset, r.n, r.printable)
  <2>1. StagingGone
    BY <1>5 DEF AppendCommits, StagingGone
  <2> QED BY <1>1, <1>2, <1>3, <2>1, NoStagingFacts
<1> QED BY <1>4, <1>5 DEF Appended

LEMMA DataCompletesStep ==
    ASSUME IInv, Account, NEW r \in Chunks, DataCompletes(r)
    PROVE  Account'
<1>1. StagingGone
  BY AppendedFacts DEF DataCompletes, Completes
<1>2. owner' = FALSE /\ timeout' \in TimeoutType
  BY DisownedFacts DEF DataCompletes, Account, Types, TimeoutType
<1> QED BY <1>1, <1>2, OverStep DEF DataCompletes, ClearTx

LEMMA DataStoredStep ==
    ASSUME IInv, Account, NEW r \in Chunks, DataStored(r)
    PROVE  Account'
<1> DEFINE sum == r.offset + r.n
<1>1. /\ tx \in OpenTx /\ tx.slot = r.slot /\ tx.total = r.total
      /\ staging'.active => /\ staging'.slot = r.slot /\ staging'.expected = r.total
                            /\ staging'.received = sum
  BY AppendedFacts DEF DataStored
<1>2. sum \in 0..SlotMaxLen - 1
  <2>1. r.total \in 1..SlotMaxLen /\ r.offset \in Nat /\ r.offset <= r.total
        /\ r.n \in 1..r.total - r.offset
    BY SizeAssumption DEF Chunks, WellFormed, DataRequests
  <2>2. sum # r.total
    BY <1>1 DEF DataStored, Completes
  <2> QED BY <2>1, <2>2, SizeAssumption
<1>3. Advanced(r) = [tx EXCEPT !.received = sum] /\ Refreshed(Advanced(r))
  BY DEF Advanced, DataStored
<1> HIDE DEF sum
<1>4. /\ [Advanced(r) EXCEPT !.left = TransactionTimeout] \in OpenTx
      /\ [Advanced(r) EXCEPT !.left = TransactionTimeout].slot = tx.slot
      /\ [Advanced(r) EXCEPT !.left = TransactionTimeout].total = tx.total
      /\ [Advanced(r) EXCEPT !.left = TransactionTimeout].received = sum
  <2> DEFINE t == Advanced(r)
  <2>1. t \in OpenTx /\ t.slot = tx.slot /\ t.total = tx.total /\ t.received = sum
    BY <1>1, <1>2, <1>3 DEF OpenTx
  <2>2. TransactionTimeout \in 0..TransactionTimeout
    BY TimeoutAssumption
  <2> HIDE DEF t
  <2>3. /\ [t EXCEPT !.left = TransactionTimeout] \in OpenTx
        /\ [t EXCEPT !.left = TransactionTimeout].slot = t.slot
        /\ [t EXCEPT !.left = TransactionTimeout].total = t.total
        /\ [t EXCEPT !.left = TransactionTimeout].received = t.received
    BY <2>1, <2>2 DEF OpenTx
  <2> QED BY <2>1, <2>3 DEF t
<1>5. tx'.slot = tx.slot /\ tx'.total = tx.total /\ tx'.received = sum
  BY <1>3, <1>4 DEF Refreshed
<1> QED BY <1>1, <1>3, <1>4, <1>5, RefreshedStep

LEMMA DynamicClearStep ==
    ASSUME Account, NEW slot \in Slots, DynamicClear(slot)
    PROVE  Account'
<1>1. staging' = IF staging.active /\ staging.slot = slot THEN NoStaging ELSE staging
  BY DEF DynamicClear, ClearSlot
<1>2. CASE tx.active /\ tx.slot = slot
  <2>1. tx' = NoTx /\ Disowned(timeout.running)
    BY <1>2 DEF DynamicClear, ClearTx
  <2>2. owner' = FALSE /\ timeout' \in TimeoutType
    BY <2>1, DisownedFacts DEF Account, Types, TimeoutType
  <2>3. CASE staging.active
    <3>1. StagingGone
      BY <1>1, <1>2, <2>3 DEF Account, InStep, StagingGone
    <3> QED BY <2>1, <2>2, <3>1, OverStep
  <2>4. CASE ~staging.active
    <3>1. ~staging'.active
      BY <1>1, <2>4
    <3> QED BY <2>1, <2>2, <3>1, NoTxFacts DEF Account, Types, InStep, TimeoutCovers
  <2> QED BY <2>3, <2>4
<1>3. CASE ~(tx.active /\ tx.slot = slot)
  <2>1. UNCHANGED protocolVars /\ (StagingKept \/ StagingGone)
    BY <1>1, <1>3 DEF DynamicClear, protocolVars, StagingKept, StagingGone
  <2> QED BY <2>1, StoreStep
<1> QED BY <1>2, <1>3

LEMMA TimeoutStep ==
    ASSUME Account, TimeoutDue \/ TimeoutDequeued \/ HandlerHasNoTx \/ HandlerTooEarly
    PROVE  Account'
<1>1. UNCHANGED <<staging, tx>>
  BY DEF TimeoutDue, TimeoutDequeued, HandlerHasNoTx, HandlerTooEarly, vars
<1>2. InStep' /\ tx' \in {NoTx} \cup OpenTx
  BY <1>1 DEF Account, Types, InStep
<1>3. owner' \in BOOLEAN /\ timeout' \in TimeoutType /\ TimeoutCovers'
  <2>1. CASE TimeoutDue
    BY <1>1, <2>1 DEF TimeoutDue, Account, Types, TimeoutType, TimeoutCovers
  <2>2. CASE TimeoutDequeued
    BY <1>1, <2>2 DEF TimeoutDequeued, Account, Types, TimeoutType, TimeoutCovers
  <2>3. CASE HandlerHasNoTx
    BY <1>1, <2>3 DEF HandlerHasNoTx, Account, Types, TimeoutType, TimeoutCovers
  <2>4. CASE HandlerTooEarly
    <3>1. tx.left \in 0..TransactionTimeout
      BY <2>4, NoTxFacts DEF HandlerTooEarly, Account, Types, OpenTx
    <3>2. timeout' \in TimeoutType /\ timeout'.left = tx.left /\ owner' = owner /\ owner
      BY <2>4, <3>1 DEF HandlerTooEarly, Account, Types, TimeoutType
    <3> QED BY <1>1, <3>1, <3>2 DEF Account, Types, TimeoutCovers
  <2> QED BY <2>1, <2>2, <2>3, <2>4
<1> QED BY <1>2, <1>3 DEF Account, Types

LEMMA CountdownStaysBelow ==
    /\ \A n \in 0..TransactionTimeout :
          Countdown(n) \in 0..TransactionTimeout
    /\ \A n \in 0..TransactionTimeout : \A m \in 0..n :
          Countdown(m) \in 0..Countdown(n)
    /\ Countdown(Off) = Off
BY TimeoutAssumption DEF Countdown, Off

LEMMA AccountTickStep == Account /\ TransactionTick => Account'
<1> SUFFICES ASSUME Account, TransactionTick PROVE Account'
  OBVIOUS
<1>1. /\ staging' = staging /\ owner' = owner
      /\ tx' = [tx EXCEPT !.left = Countdown(tx.left)]
      /\ timeout' = [timeout EXCEPT !.left = Countdown(timeout.left)]
  BY DEF TransactionTick, Tick
<1>2. timeout' \in TimeoutType /\ timeout'.left = Countdown(timeout.left)
      /\ timeout'.running = timeout.running /\ timeout'.queued = timeout.queued
  BY <1>1, CountdownStaysBelow DEF Account, Types, TimeoutType
<1>3. CASE tx = NoTx
  <2>1. tx' = NoTx
    BY <1>1, <1>3 DEF NoTx, Countdown
  <2> QED BY <1>1, <1>2, <1>3, <2>1, NoTxFacts DEF Account, Types, InStep, TimeoutCovers
<1>4. CASE tx \in OpenTx
  <2>1. /\ tx.left \in 0..TransactionTimeout
        /\ Countdown(tx.left) \in 0..TransactionTimeout
    BY <1>4, CountdownStaysBelow DEF OpenTx
  <2>2. /\ tx' \in OpenTx /\ tx'.left = Countdown(tx.left)
        /\ tx'.slot = tx.slot /\ tx'.total = tx.total /\ tx'.received = tx.received
    BY <1>1, <1>4, <2>1 DEF OpenTx
  <2>3. InStep'
    BY <1>1, <2>2, NoTxFacts DEF Account, InStep
  <2>4. owner /\ (timeout.running \/ timeout.queued \/ timeout.left \in 0..tx.left)
    BY <1>4, NoTxFacts DEF Account, TimeoutCovers
  <2>5. TimeoutCovers'
    BY <1>1, <1>2, <2>1, <2>2, <2>4, CountdownStaysBelow DEF TimeoutCovers
  <2> QED BY <1>1, <1>2, <2>2, <2>3, <2>5 DEF Account, Types
<1> QED BY <1>3, <1>4 DEF Account, Types

LEMMA AccountInit == TransactionInit => Account
<1> SUFFICES ASSUME TransactionInit PROVE Account
  OBVIOUS
<1>1. /\ staging = NoStaging /\ tx = NoTx /\ owner = FALSE /\ timeout = NoTimeout
  BY DEF TransactionInit, Init
<1>2. ~staging.active
  BY <1>1 DEF NoStaging
<1> QED BY <1>1, <1>2, NoTxFacts, NoTimeoutFacts DEF Account, Types, InStep, TimeoutCovers

LEMMA AccountNext == IInv /\ Account /\ [TransactionNext]_allVars => Account'
<1> SUFFICES ASSUME IInv, Account, [TransactionNext]_allVars PROVE Account'
  OBVIOUS
<1>1. CASE UNCHANGED allVars
  <2>1. UNCHANGED protocolVars /\ StagingKept
    BY <1>1 DEF allVars, vars, StagingKept
  <2> QED BY <2>1, StoreStep
<1>2. CASE DynamicBegin
  BY <1>2, ClearDynamicStep, BeginAcceptedStep DEF DynamicBegin, BeginRejected, BeginFailed
<1>3. CASE DynamicData
  BY <1>3, ClearDynamicStep, DataCompletesStep, DataStoredStep
     DEF DynamicData, DataRejected, DataNotRefreshed
<1>4. ASSUME NEW slot \in Slots, DynamicClear(slot) PROVE Account'
  BY <1>4, DynamicClearStep
<1>5. CASE Discard
  BY <1>5, ClearDynamicStep DEF Discard
<1>6. CASE TimeoutDue \/ TimeoutDequeued
  BY <1>6, TimeoutStep
<1>7. CASE TimeoutHandler
  BY <1>7, TimeoutStep, DroppedStep DEF TimeoutHandler, HandlerDrops
<1>8. CASE StoreAlone \/ StoreTtlHandler
  <2>1. UNCHANGED protocolVars /\ (StagingKept \/ StagingGone)
    BY <1>8, StoreOnly DEF StoreAlone, StoreTtlHandler
  <2> QED BY <2>1, StoreStep
<1>9. CASE TransactionTick
  BY <1>9, AccountTickStep
<1>10. CASE TransactionReboot
  <2>1. StagingGone /\ tx' = NoTx /\ owner' = FALSE /\ timeout' = NoTimeout
    BY <1>10, StoreOnly DEF TransactionReboot
  <2> QED BY <2>1, NoTimeoutFacts, OverStep
<1> QED BY <1>1, <1>2, <1>3, <1>4, <1>5, <1>6, <1>7, <1>8, <1>9, <1>10 DEF TransactionNext

---------------------------------------------------------------------------
(* What becomes executable, and what is told of it. *)

\* No slot holds a text it did not hold.
NothingNew ==
    \A s \in Slots : slots'[s].valid => slots[s].valid /\ slots'[s].text = slots[s].text

\* Nothing is begun, and nothing gets a text.
StoreQuiet ==
    /\ NothingNew
    /\ ghost'.uploads = ghost.uploads
    /\ staging'.active => staging.active

LEMMA LiveIsNothingNew == ASSUME IInv, slots' = Live PROVE NothingNew
BY LiveFacts, EmptyType DEF IInv, NothingNew

LEMMA QuietUnlessAppended ==
    ASSUME IInv,
           \/ Tick \/ CancelStaging \/ ClearAll \/ Executor \/ TtlDue \/ TtlDequeued \/ TtlHandler
           \/ \E s \in Slots : ClearSlot(s) \/ Execute(s)
    PROVE  StoreQuiet
<1> USE DEF StoreQuiet
<1>1. ghost \in [uploads : Nat, typed : SUBSET Nat, firedFor : 0..GenerationWrap - 1]
  BY DEF IInv, TypeOK
<1>2. ~NoStaging.active /\ (LiveStaging.active => staging.active)
  BY LiveStagingFacts DEF NoStaging
<1>3. CASE Tick
  BY <1>3 DEF Tick, NothingNew, IInv, TypeOK, SlotType
<1>4. CASE CancelStaging
  BY <1>2, <1>4, LiveIsNothingNew DEF CancelStaging
<1>5. CASE ClearAll
  BY <1>2, <1>5, EmptyType DEF ClearAll, NothingNew
<1>6. CASE Executor \/ TtlDue
  BY <1>6 DEF Executor, TtlDue, NothingNew
<1>7. CASE TtlDequeued
  BY <1>1, <1>7 DEF TtlDequeued, NothingNew
<1>8. CASE TtlHandler
  <2>1. (slots' = Live \/ slots' = slots) /\ ghost' = ghost
        /\ (staging' = staging \/ staging' = LiveStaging)
    BY <1>8 DEF TtlHandler
  <2> QED BY <1>2, <2>1, LiveIsNothingNew DEF NothingNew
<1>9. ASSUME NEW s \in Slots, ClearSlot(s) PROVE StoreQuiet
  <2>1. /\ slots' = [slots EXCEPT ![s] = Empty] /\ ghost' = ghost
        /\ staging' = staging \/ staging' = NoStaging
    BY <1>9 DEF ClearSlot
  <2> QED BY <1>2, <2>1, EmptyType DEF NothingNew, IInv, TypeOK
<1>10. ASSUME NEW s \in Slots, Execute(s) PROVE StoreQuiet
  <2>1. staging' = LiveStaging /\ ghost'.uploads = ghost.uploads
    BY <1>1, <1>10 DEF Execute, ExecuteNothing, ExecuteRefused, ExecuteAccepted
  <2>2. slots' = Live \/ slots' = [Live EXCEPT ![s] = Empty]
    BY <1>10
       DEF Execute, ExecuteNothing, ExecuteRefused, ExecuteAccepted, AfterRefusal, AfterAcceptance
  <2>3. NothingNew
    BY <2>2, LiveFacts, EmptyType DEF IInv, NothingNew
  <2> QED BY <1>2, <2>1, <2>3
<1> QED BY <1>3, <1>4, <1>5, <1>6, <1>7, <1>8, <1>9, <1>10

\* Told is what became executable: in this step, and of an upload not told before.
ToldOfThisStep == told' \ told = CommittedUploads' \ CommittedUploads

LEMMA NothingToTell ==
    ASSUME NothingNew, told' \subseteq told
    PROVE  ToldOfThisStep
BY DEF NothingNew, ToldOfThisStep, CommittedUploads

LEMMA QuietStep ==
    ASSUME ToldOfThePast, StoreQuiet, told' = told
    PROVE  ToldOfThePast' /\ ToldOfThisStep
BY NothingToTell DEF ToldOfThePast, StoreQuiet

LEMMA BeginTells ==
    ASSUME IInv, ToldOfThePast, NEW r \in Begins, BeginAccepted(r)
    PROVE  ToldOfThePast' /\ ToldOfThisStep
<1>1. /\ slots' = Live /\ told' = told
      /\ ghost' = [ghost EXCEPT !.uploads = ghost.uploads + 1]
  BY DEF BeginAccepted, Begin
<1>2. ghost.uploads \in Nat /\ ghost'.uploads = ghost.uploads + 1
  BY <1>1 DEF IInv, TypeOK
<1>3. ToldOfThePast'
  BY <1>1, <1>2 DEF ToldOfThePast
<1> QED BY <1>1, <1>3, LiveIsNothingNew, NothingToTell

LEMMA DataStoredTells ==
    ASSUME IInv, Account, ToldOfThePast, NEW r \in Chunks, DataStored(r)
    PROVE  ToldOfThePast' /\ ToldOfThisStep
<1>1. staging.active /\ staging.expected = r.total /\ tx.total = r.total
  BY AppendedFacts DEF DataStored
<1>2. LiveStaging = staging
  BY <1>1, LiveStagingFacts DEF DataStored, Appended, AppendStored, AppendCommits
<1>3. AppendStored(r.slot, r.offset, r.n, r.printable)
  BY <1>1, <1>2 DEF DataStored, Completes, Appended, AppendCommits
<1>4. slots' = Live /\ ghost' = ghost /\ told' = told
  BY <1>3 DEF AppendStored, DataStored
<1> QED BY <1>1, <1>4, LiveIsNothingNew, QuietStep DEF StoreQuiet

LEMMA DataCompletesTells ==
    ASSUME IInv, Account, ToldOfThePast, NEW r \in Chunks, DataCompletes(r)
    PROVE  ToldOfThePast' /\ ToldOfThisStep
<1> DEFINE new == Committed(Received(r.offset, r.n))
<1>1. /\ staging.active /\ staging.expected = r.total /\ tx.total = r.total
      /\ staging.slot = r.slot /\ r.slot \in Slots
      /\ r.offset \in Nat /\ r.n \in Nat /\ r.offset + r.n = r.total /\ r.total > 0
  <2>1. r.slot \in Slots /\ r.offset \in Nat /\ r.n \in Nat /\ r.total > 0
    BY SizeAssumption DEF Chunks, WellFormed, DataRequests
  <2> QED BY <2>1, AppendedFacts DEF DataCompletes, Completes
<1>2. LiveStaging = staging
  BY <1>1, LiveStagingFacts DEF DataCompletes, Appended, AppendStored, AppendCommits
<1>3. AppendCommits(r.slot, r.offset, r.n, r.printable)
  BY <1>1, <1>2 DEF DataCompletes, Appended, AppendStored
<1>4. /\ slots' = [Live EXCEPT ![r.slot] = new] /\ staging' = NoStaging /\ ghost' = ghost
      /\ told' = told \cup {ghost.uploads}
  BY <1>3 DEF AppendCommits, DataCompletes
<1>5. new.valid /\ new.text[1] = ghost.uploads
  <2>1. LiveStaging.active /\ Acceptable(r.slot, r.offset, r.n, r.printable)
    BY <1>3 DEF AppendCommits
  <2>2. /\ Received(r.offset, r.n).expected = staging.expected
        /\ \A i \in Positions : Received(r.offset, r.n).text[i] =
              IF i <= r.offset + r.n THEN ghost.uploads ELSE 0
    BY <1>1, <2>1, ReceivedFacts
  <2>3. 1 \in Positions /\ 1 <= r.total
    BY <1>1, SizeAssumption DEF Positions
  <2> QED BY <1>1, <2>2, <2>3 DEF Committed
<1> HIDE DEF new
<1>6. /\ slots'[r.slot] = new
      /\ \A s \in Slots \ {r.slot} :
            slots'[s].valid => slots[s].valid /\ slots'[s].text = slots[s].text
  BY <1>1, <1>4, LiveFacts, EmptyType DEF IInv
<1>7. CommittedUploads' \ CommittedUploads = {ghost.uploads}
  <2>1. ghost.uploads \in CommittedUploads'
    BY <1>1, <1>5, <1>6 DEF CommittedUploads
  <2>2. ghost.uploads \notin CommittedUploads
    BY <1>1 DEF CommittedUploads, IInv, Data, OnePlace
  <2>3. ASSUME NEW u \in CommittedUploads', u # ghost.uploads PROVE u \in CommittedUploads
    <3>1. PICK s \in Slots : slots'[s].valid /\ u = slots'[s].text[1]
      BY DEF CommittedUploads
    <3>2. s # r.slot
      BY <1>5, <1>6, <2>3, <3>1
    <3> QED BY <1>6, <3>1, <3>2 DEF CommittedUploads
  <2> QED BY <2>1, <2>2, <2>3
<1>8. ghost.uploads \notin told
  BY <1>1 DEF ToldOfThePast
<1>9. ToldOfThisStep
  BY <1>4, <1>7, <1>8 DEF ToldOfThisStep
<1>10. ghost.uploads \in 1..ghost.uploads
  BY <1>1 DEF IInv, Data, StagedPrefix
<1> QED BY <1>4, <1>9, <1>10 DEF ToldOfThePast, NoStaging

LEMMA NextTells ==
    ASSUME IInv, Account, ToldOfThePast, [TransactionNext]_allVars
    PROVE  ToldOfThePast' /\ ToldOfThisStep
<1>1. CASE UNCHANGED allVars
  BY <1>1, QuietStep DEF allVars, vars, protocolVars, StoreQuiet, NothingNew
<1>2. CASE ClearDynamic \/ HandlerDrops
  BY <1>2, QuietUnlessAppended, QuietStep DEF ClearDynamic, HandlerDrops, Dropped
<1>3. CASE DynamicBegin
  BY <1>2, <1>3, BeginTells DEF DynamicBegin, BeginRejected, BeginFailed
<1>4. CASE DynamicData
  BY <1>2, <1>4, DataStoredTells, DataCompletesTells
     DEF DynamicData, DataRejected, DataNotRefreshed
<1>5. ASSUME NEW slot \in Slots, DynamicClear(slot) PROVE ToldOfThePast' /\ ToldOfThisStep
  BY <1>5, QuietUnlessAppended, QuietStep DEF DynamicClear
<1>6. CASE TimeoutDue \/ TimeoutDequeued \/ HandlerHasNoTx \/ HandlerTooEarly
  BY <1>6, QuietStep
     DEF TimeoutDue, TimeoutDequeued, HandlerHasNoTx, HandlerTooEarly, vars, StoreQuiet, NothingNew
<1>7. CASE StoreAlone \/ StoreTtlHandler \/ TransactionTick
  <2>1. told' = told
    BY <1>7 DEF StoreAlone, StoreTtlHandler, TransactionTick, protocolVars
  <2>2. StoreQuiet
    BY <1>7, QuietUnlessAppended DEF StoreAlone, StoreTtlHandler, TransactionTick
  <2> QED BY <2>1, <2>2, QuietStep
<1>8. CASE TransactionReboot
  <2>1. /\ told' = {} /\ ~staging'.active
        /\ slots' = [s \in Slots |-> Empty]
    BY <1>8 DEF TransactionReboot, Reboot, NoStaging
  <2>2. NothingNew
    BY <2>1, EmptyType DEF NothingNew
  <2> QED BY <2>1, <2>2, NothingToTell DEF ToldOfThePast
<1> QED BY <1>1, <1>2, <1>3, <1>4, <1>5, <1>6, <1>7, <1>8
      DEF TransactionNext, Discard, TimeoutHandler

---------------------------------------------------------------------------
(* How long nothing has been heard of the transaction.                      *)

LEMMA HeardOfOver == HeardOf /\ tx' = NoTx /\ quiet' = quiet => HeardOf'
BY NoTxFacts DEF HeardOf

LEMMA HeardOfSame == HeardOf /\ UNCHANGED <<tx, quiet>> => HeardOf'
BY DEF HeardOf

\* A request that keeps the transaction open puts the deadline off by a whole time-out.
LEMMA HeardOfRefreshed ==
    ASSUME NEW t, Refreshed(t), quiet' = 0, tx' \in {NoTx} \cup OpenTx
    PROVE  HeardOf'
<1>1. tx' = [t EXCEPT !.left = TransactionTimeout]
  BY DEF Refreshed
<1>2. CASE tx' = NoTx
  BY <1>2, NoTxFacts, TimeoutAssumption DEF HeardOf
<1>3. CASE tx' \in OpenTx
  <2>1. "left" \in DOMAIN tx'
    BY <1>3 DEF OpenTx
  <2>2. "left" \in DOMAIN t
    BY <1>1, <2>1
  <2>3. tx'.left = TransactionTimeout
    BY <1>1, <2>2
  <2> QED BY <2>3, TimeoutAssumption DEF HeardOf
<1> QED BY <1>2, <1>3

\* A second more has passed, and there is one less to the deadline, unless there was none.
LEMMA HeardOfTick == Account /\ HeardOf /\ TransactionTick => HeardOf'
<1> SUFFICES ASSUME Account, HeardOf, TransactionTick PROVE HeardOf'
  OBVIOUS
<1>1. /\ tx' = [tx EXCEPT !.left = Countdown(tx.left)]
      /\ quiet' = IF quiet < TransactionTimeout THEN quiet + 1 ELSE quiet
      /\ quiet \in 0..TransactionTimeout
  BY DEF TransactionTick, HeardOf
<1>2. quiet' \in 0..TransactionTimeout
  BY <1>1, TimeoutAssumption
<1>3. CASE tx = NoTx
  <2>1. ~tx'.active
    BY <1>1, <1>3 DEF NoTx
  <2> QED BY <1>2, <2>1 DEF HeardOf
<1>4. CASE tx \in OpenTx
  <2>1. /\ tx.left \in 0..TransactionTimeout /\ tx'.left = Countdown(tx.left)
        /\ tx.left + quiet >= TransactionTimeout
    BY <1>1, <1>4, NoTxFacts DEF OpenTx, HeardOf
  <2>2. tx'.left + quiet' >= TransactionTimeout
    BY <1>1, <2>1, TimeoutAssumption DEF Countdown
  <2> QED BY <1>2, <2>2 DEF HeardOf
<1> QED BY <1>3, <1>4 DEF Account, Types

LEMMA HeardOfNext ==
    ASSUME Account, Account', HeardOf, [TransactionNext]_allVars
    PROVE  HeardOf'
<1>1. CASE UNCHANGED allVars
  BY <1>1, HeardOfSame DEF allVars, protocolVars
<1>2. CASE ClearDynamic \/ HandlerDrops
  BY <1>2, HeardOfOver DEF ClearDynamic, HandlerDrops, Dropped
<1>3. CASE DynamicBegin
  <2>1. ASSUME NEW r \in Begins, BeginAccepted(r) PROVE HeardOf'
    BY <2>1, HeardOfRefreshed DEF BeginAccepted, Account, Types
  <2> QED BY <1>2, <1>3, <2>1 DEF DynamicBegin, BeginRejected, BeginFailed
<1>4. CASE DynamicData
  <2>1. ASSUME NEW r \in Chunks, DataStored(r) PROVE HeardOf'
    BY <2>1, HeardOfRefreshed DEF DataStored, Account, Types
  <2>2. ASSUME NEW r \in Chunks, DataCompletes(r) PROVE HeardOf'
    BY <2>2, HeardOfOver DEF DataCompletes, ClearTx
  <2> QED BY <1>2, <1>4, <2>1, <2>2 DEF DynamicData, DataRejected, DataNotRefreshed
<1>5. ASSUME NEW slot \in Slots, DynamicClear(slot) PROVE HeardOf'
  BY <1>5, HeardOfOver, HeardOfSame DEF DynamicClear, ClearTx
<1>6. CASE TimeoutDue \/ TimeoutDequeued \/ HandlerHasNoTx \/ HandlerTooEarly
  BY <1>6, HeardOfSame DEF TimeoutDue, TimeoutDequeued, HandlerHasNoTx, HandlerTooEarly
<1>7. CASE StoreAlone \/ StoreTtlHandler
  BY <1>7, HeardOfSame DEF StoreAlone, StoreTtlHandler, protocolVars
<1>8. CASE TransactionTick
  BY <1>8, HeardOfTick
<1>9. CASE TransactionReboot
  BY <1>9, NoTxFacts, TimeoutAssumption DEF TransactionReboot, HeardOf
<1> QED BY <1>1, <1>2, <1>3, <1>4, <1>5, <1>6, <1>7, <1>8, <1>9
      DEF TransactionNext, Discard, TimeoutHandler

---------------------------------------------------------------------------
(* The theorems. *)

\* TransactionInv holds in every state: the invariant of the store, because the protocol uses the
\* store as it may, and on that basis the protocol's account and what it has told.
THEOREM TransactionInductive == TransactionSpec => []TransactionInv
<1>1. TransactionInit => Account /\ ToldOfThePast /\ HeardOf
  <2>1. TransactionInit => ToldOfThePast
    BY DEF TransactionInit, Init, NoStaging, ToldOfThePast
  <2>2. TransactionInit => HeardOf
    BY NoTxFacts, TimeoutAssumption DEF TransactionInit, HeardOf
  <2> QED BY <2>1, <2>2, AccountInit
<1>2. /\ IInv /\ Account /\ ToldOfThePast /\ HeardOf /\ [TransactionNext]_allVars
      => Account' /\ ToldOfThePast' /\ HeardOf'
  BY AccountNext, NextTells, HeardOfNext
<1> QED BY <1>1, <1>2, StoreInvariant, PTL DEF TransactionSpec, TransactionInv

\* The type invariant of the composition, and that a transaction that is over leaves nothing of
\* its identity behind.
THEOREM TransactionTypeCorrect == TransactionSpec => []TransactionTypeOK
<1>1. TransactionInv => TransactionTypeOK
  BY DEF TransactionInv, IInv, Account, Types, TimeoutType, ToldOfThePast, HeardOf, TransactionTypeOK
<1> QED BY <1>1, TransactionInductive, PTL

\* The host is told of success in the step that makes its upload executable, and of no other.
THEOREM SuccessIsToldOnce == TransactionSpec => ToldWhatHappened
<1>1. TransactionInv /\ [TransactionNext]_allVars => [ToldOfThisStep]_allVars
  BY NextTells DEF TransactionInv
<1>2. TransactionSpec => [][ToldOfThisStep]_allVars
  BY <1>1, TransactionInductive, PTL DEF TransactionSpec
<1> QED BY <1>2 DEF ToldWhatHappened, ToldOfThisStep

\* The protocol's account of an upload and the store's agree.
THEOREM AccountsAgree == TransactionSpec => []InStep
<1>1. TransactionInv => InStep
  BY DEF TransactionInv, Account
<1> QED BY <1>1, TransactionInductive, PTL

\* An open transaction has a wake-up call no later than its deadline, and an owner.
THEOREM TransactionHasATimer == TransactionSpec => []TimeoutCovers
<1>1. TransactionInv => TimeoutCovers
  BY DEF TransactionInv, Account
<1> QED BY <1>1, TransactionInductive, PTL

\* The timeout only takes an upload of which nothing has been heard for a whole time-out: every
\* request that keeps it open moves the deadline, and a handler that was late finds it moved.
THEOREM NothingDroppedEarly == TransactionSpec => NoEarlyTimeout
<1> DEFINE Body == TimeoutHandler /\ tx.active /\ ~tx'.active => quiet = TransactionTimeout
<1>1. TransactionInv /\ [TransactionNext]_allVars => [Body]_allVars
  <2> SUFFICES ASSUME TransactionInv, TimeoutHandler, tx.active, ~tx'.active
               PROVE  quiet = TransactionTimeout
    OBVIOUS
  <2>1. HandlerDrops
    BY DEF TimeoutHandler, HandlerHasNoTx, HandlerTooEarly
  <2>2. tx.left = 0
    BY <2>1 DEF HandlerDrops, DeadlinePassed
  <2>3. quiet \in 0..TransactionTimeout /\ tx.left + quiet >= TransactionTimeout
    BY DEF TransactionInv, HeardOf
  <2> QED BY <2>2, <2>3, TimeoutAssumption
<1>2. TransactionSpec => [][Body]_allVars
  BY <1>1, TransactionInductive, PTL DEF TransactionSpec
<1> QED BY <1>2 DEF NoEarlyTimeout

=============================================================================
