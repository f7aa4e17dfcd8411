---------------------------- MODULE SlotsProofs ----------------------------
(***************************************************************************)
(* Proofs, for any number of slots and callers and any texts, of the       *)
(* properties of Slots.                                                    *)
(***************************************************************************)
EXTENDS Slots, TLAPS

\* What is promised of a slot is what its key, or the lack of it, makes the next boot deliver.
PromiseIsStored ==
    \A s \in Slots : ghost.promised[s] # Unknown => ghost.promised[s] = Promised(stored[s])

\* Changes are made one at a time and after the boot, and RAM has the text first.
OneUpdate ==
    /\ boot.phase # "up" => \A c \in Callers : update[c] = Idle
    /\ \A c, d \in Callers : update[c] # Idle /\ update[d] # Idle => c = d
    /\ \A c \in Callers : update[c] # Idle =>
          /\ ram[update[c].slot] = update[c].text
          /\ update[c].step = "delete" => update[c].text = NoText

Kept(s) ==
    ~Updating(s) /\ s \notin ghost.diverged /\ ghost.promised[s] # Unknown
        => ram[s] = ghost.promised[s]

\* AcceptedIsKept in every phase, for the slots whose key has been delivered or that have none.
KeptOnceLoaded ==
    \A s \in Slots : IF boot.phase = "load" /\ s \in boot.keys THEN stored[s] # Absent ELSE Kept(s)

\* While the keys are loaded and the defaults written, a key is on record if and only if it is
\* stored and has been delivered, and a slot that awaits its default has nothing promised.
KeysOnRecord ==
    /\ boot.phase # "load" => boot.keys = {}
    /\ boot.phase \in {"load", "defaults"} =>
          \A s \in Slots : hasPersisted[s] <=> stored[s] # Absent /\ s \notin boot.keys
    /\ boot.phase = "defaults" =>
          \A s \in Slots : stored[s] = Absent => ghost.promised[s] = Unknown

\* The slots settings_commit has passed without a failure have had a key.
WrittenOnceSaved ==
    /\ \A s \in Slots : stored[s] # Absent => s \in ghost.written
    /\ boot.phase = "load" => boot.next = 0
    /\ boot.phase = "defaults" /\ boot.all =>
          \A s \in Slots : s < boot.next => s \in ghost.written

IInv ==
    /\ TypeOK /\ PromiseIsStored /\ OneUpdate /\ KeptOnceLoaded /\ KeysOnRecord
    /\ WrittenOnceSaved /\ MarkerIsHonest

---------------------------------------------------------------------------
LEMMA PromisedFacts ==
    ASSUME NEW value \in Valid \cup {Absent, Malformed}, marker \in {TRUE, FALSE, Malformed}
    PROVE  /\ Promised(value) \in Valid \cup {Unknown}
           /\ value \in Valid => Promised(value) = value
           /\ value = Absent /\ marker # TRUE => Promised(value) = Unknown
           /\ value = Absent => Promised(value) \in {NoText, Unknown}
           /\ value = Malformed => Promised(value) = Unknown
BY ValueAssumption DEF Promised, Valid

LEMMA Constants == NoText \in Valid /\ Default \in Valid /\ Absent \notin Valid /\ Malformed # Absent
                   /\ Unknown \notin Valid /\ Idle \notin Jobs
BY ValueAssumption DEF Valid, Idle, Jobs

\* A slot without a change under way.
LEMMA NobodyUpdates ==
    ASSUME \A c \in Callers : update[c] = Idle
    PROVE  \A s \in Slots : ~Updating(s)
BY DEF Updating

LEMMA InitIInv == Init => IInv
<1> SUFFICES ASSUME Init PROVE IInv
  OBVIOUS
<1> USE DEF Init
<1>1. /\ stored \in [Slots -> Valid \cup {Absent, Malformed}] /\ marker \in {TRUE, FALSE, Malformed}
      /\ \A s \in Slots : ghost.promised[s] = Promised(stored[s])
      /\ ghost.diverged = {} /\ ghost.cleared = {}
      /\ ghost.written = IF marker = TRUE THEN Slots ELSE {s \in Slots : stored[s] # Absent}
  OBVIOUS
<1>2. \A s \in Slots : Promised(stored[s]) \in Valid \cup {Unknown}
  BY <1>1, PromisedFacts
<1>3. TypeOK
  <2>1. ghost \in [promised : [Slots -> Valid \cup {Unknown}], diverged : SUBSET Slots,
                   cleared : SUBSET Slots, written : SUBSET Slots]
    <3> DEFINE promised == [s \in Slots |-> Promised(stored[s])]
               written == IF marker = TRUE THEN Slots ELSE {s \in Slots : stored[s] # Absent}
    <3>1. promised \in [Slots -> Valid \cup {Unknown}] /\ written \in SUBSET Slots
      BY <1>2
    <3>2. ghost = [promised |-> promised, diverged |-> {}, cleared |-> {}, written |-> written]
      OBVIOUS
    <3> HIDE DEF promised, written
    <3> QED BY <3>1, <3>2
  <2>2. boot \in [phase : {"load", "defaults", "up"}, keys : SUBSET Slots,
                  next : 0..SlotCount, all : BOOLEAN]
    BY SlotAssumption DEF Booting
  <2> QED BY <1>1, <2>1, <2>2, Constants DEF TypeOK
<1>4. PromiseIsStored /\ OneUpdate
  BY <1>1 DEF PromiseIsStored, OneUpdate
<1>5. KeptOnceLoaded
  BY <1>1, PromisedFacts DEF KeptOnceLoaded, Kept, Booting
<1>6. KeysOnRecord /\ WrittenOnceSaved /\ MarkerIsHonest
  BY <1>1 DEF KeysOnRecord, WrittenOnceSaved, MarkerIsHonest, Booting
<1> QED BY <1>3, <1>4, <1>5, <1>6 DEF IInv

---------------------------------------------------------------------------
(* The boot. *)

LEMMA LoadSlotKeeps ==
    ASSUME IInv, NEW s \in Slots, LoadSlot(s)
    PROVE  IInv'
<1>1. /\ boot.phase = "load" /\ s \in boot.keys /\ stored[s] # Absent
      /\ boot' = [boot EXCEPT !.keys = boot.keys \ {s}]
      /\ hasPersisted' = [hasPersisted EXCEPT ![s] = TRUE]
      /\ UNCHANGED <<initialized, update, stored, marker>>
      /\ ghost' = [ghost EXCEPT !.diverged = ghost'.diverged]
      /\ ghost'.promised = ghost.promised /\ ghost'.written = ghost.written
      /\ ghost'.cleared = ghost.cleared
  BY DEF LoadSlot, Remembered, IInv, TypeOK, KeptOnceLoaded
<1>2. \/ /\ stored[s] \in Valid /\ ram' = [ram EXCEPT ![s] = stored[s]] /\ ghost' = ghost
      \/ /\ ghost'.diverged = ghost.diverged \cup {s} /\ ram' = ram
         /\ ghost' = [ghost EXCEPT !.diverged = ghost.diverged \cup {s}]
  BY DEF LoadSlot, Usable, IInv, TypeOK
<1>3. TypeOK'
  BY <1>1, <1>2 DEF IInv, TypeOK
<1>4. /\ \A c \in Callers : update[c] = Idle /\ update'[c] = Idle
      /\ boot'.phase = "load" /\ boot'.keys = boot.keys \ {s} /\ boot'.next = boot.next
  BY <1>1 DEF IInv, TypeOK, OneUpdate
<1>5. PromiseIsStored' /\ OneUpdate'
  BY <1>1, <1>4 DEF IInv, PromiseIsStored, OneUpdate, Promised
<1>6. KeptOnceLoaded'
  <2> SUFFICES ASSUME NEW d \in Slots, d \notin boot'.keys
               PROVE  Kept(d)'
    BY <1>1, <1>4 DEF IInv, KeptOnceLoaded
  <2>1. CASE d = s
    <3>1. CASE stored[s] \in Valid /\ ram' = [ram EXCEPT ![s] = stored[s]]
      <4>1. ghost.promised[s] # Unknown => ghost.promised[s] = stored[s]
        BY <3>1, PromisedFacts DEF IInv, TypeOK, PromiseIsStored
      <4>2. ram'[s] = stored[s]
        BY <3>1 DEF IInv, TypeOK
      <4> QED BY <1>1, <2>1, <4>1, <4>2 DEF Kept
    <3>2. CASE s \in ghost'.diverged
      BY <2>1, <3>2 DEF Kept
    <3> QED BY <1>2, <3>1, <3>2
  <2>2. CASE d # s
    <3>1. Kept(d)
      BY <1>4, <2>2 DEF IInv, KeptOnceLoaded
    <3>2. ~Updating(d)
      BY <1>4 DEF Updating
    <3>3. ram'[d] = ram[d] /\ (d \in ghost.diverged => d \in ghost'.diverged)
      BY <1>2, <2>2 DEF IInv, TypeOK
    <3> QED BY <1>1, <3>1, <3>2, <3>3 DEF Kept
  <2> QED BY <2>1, <2>2
<1>7. KeysOnRecord' /\ WrittenOnceSaved' /\ MarkerIsHonest'
  BY <1>1, <1>4 DEF IInv, TypeOK, KeysOnRecord, WrittenOnceSaved, MarkerIsHonest
<1> QED BY <1>3, <1>5, <1>6, <1>7 DEF IInv

LEMMA LoadMarkerKeeps ==
    ASSUME IInv, LoadMarker
    PROVE  IInv'
BY DEF LoadMarker, IInv, TypeOK, PromiseIsStored, Promised, OneUpdate, KeptOnceLoaded, Kept, Updating,
   KeysOnRecord, WrittenOnceSaved, MarkerIsHonest

LEMMA LoadDoneKeeps ==
    ASSUME IInv, NEW markerRead \in BOOLEAN, LoadDone(markerRead)
    PROVE  IInv'
<1>1. /\ boot.phase = "load" /\ boot.keys = {}
      /\ boot' = [boot EXCEPT !.phase = IF initialized THEN "up" ELSE "defaults"]
      /\ UNCHANGED <<ram, hasPersisted, initialized, update, stored, marker>>
  BY DEF LoadDone, NothingToDo
<1>2. boot'.phase \in {"up", "defaults"} /\ boot'.keys = {} /\ boot'.next = 0
  BY <1>1 DEF IInv, TypeOK, WrittenOnceSaved
<1>3. /\ \A d \in Slots : ghost'.promised[d] \in {ghost.promised[d], Unknown}
      /\ ghost'.written = ghost.written /\ ghost'.diverged = ghost.diverged
      /\ ghost'.promised \in [Slots -> Valid \cup {Unknown}] /\ ghost'.cleared \in SUBSET Slots
      /\ ghost' \in [promised : [Slots -> Valid \cup {Unknown}], diverged : SUBSET Slots,
                     cleared : SUBSET Slots, written : SUBSET Slots]
  <2>1. CASE ghost' = ghost
    BY <2>1 DEF IInv, TypeOK
  <2>2. CASE ghost' # ghost
    <3> DEFINE weaker == [d \in Slots |-> IF stored[d] = Absent THEN Unknown ELSE ghost.promised[d]]
    <3>1. ghost' = [ghost EXCEPT !.promised = weaker, !.cleared = {}]
      BY <2>2 DEF LoadDone
    <3>2. /\ weaker \in [Slots -> Valid \cup {Unknown}]
          /\ \A d \in Slots : weaker[d] \in {ghost.promised[d], Unknown}
      BY DEF IInv, TypeOK
    <3> HIDE DEF weaker
    <3> QED BY <3>1, <3>2 DEF IInv, TypeOK
  <2> QED BY <2>1, <2>2
<1>4. ASSUME boot'.phase = "defaults", NEW d \in Slots, stored[d] = Absent
      PROVE  ghost'.promised[d] = Unknown
  <2>1. ~initialized /\ (marker # TRUE \/ ~markerRead)
    BY <1>1, <1>4 DEF LoadDone, IInv, TypeOK
  <2>2. CASE marker # TRUE
    BY <1>3, <1>4, <2>2, PromisedFacts DEF IInv, TypeOK, PromiseIsStored
  <2>3. CASE marker = TRUE /\ ~markerRead
    BY <1>4, <2>3 DEF LoadDone, IInv, TypeOK
  <2> QED BY <2>1, <2>2, <2>3
<1>5. TypeOK'
  BY <1>1, <1>3 DEF IInv, TypeOK
<1>6. PromiseIsStored' /\ OneUpdate'
  BY <1>1, <1>2, <1>3 DEF IInv, PromiseIsStored, OneUpdate, Promised
<1>7. KeptOnceLoaded'
  BY <1>1, <1>2, <1>3 DEF IInv, KeptOnceLoaded, Kept, Updating
<1>8. KeysOnRecord'
  BY <1>1, <1>2, <1>4 DEF IInv, KeysOnRecord
<1>9. WrittenOnceSaved' /\ MarkerIsHonest'
  BY <1>1, <1>2, <1>3, SlotAssumption DEF IInv, WrittenOnceSaved, MarkerIsHonest, Slots
<1> QED BY <1>5, <1>6, <1>7, <1>8, <1>9 DEF IInv

LEMMA DefaultKeeps ==
    ASSUME IInv, DefaultSkipped \/ DefaultSaved \/ DefaultNotSaved
    PROVE  IInv'
<1> DEFINE cur == boot.next
<1>1. /\ boot.phase = "defaults" /\ cur \in Slots /\ cur \in Nat /\ boot.keys = {}
      /\ boot'.phase = "defaults" /\ boot'.keys = {} /\ boot'.next = cur + 1
      /\ boot' \in [phase : {"load", "defaults", "up"}, keys : SUBSET Slots,
                    next : 0..SlotCount, all : BOOLEAN]
      /\ boot'.all => boot.all
      /\ UNCHANGED <<initialized, update, marker>>
  <2>1. /\ boot.phase = "defaults" /\ cur \in Slots /\ boot.keys = {}
        /\ UNCHANGED <<initialized, update, marker>>
        /\ \/ boot' = [boot EXCEPT !.next = boot.next + 1]
           \/ boot' = [boot EXCEPT !.next = boot.next + 1, !.all = FALSE]
    BY DEF DefaultSkipped, DefaultSaved, DefaultNotSaved, AtSlot, Current, NotAll, IInv, KeysOnRecord
  <2>2. boot.next \in Nat /\ boot.next + 1 \in 0..SlotCount
    BY <2>1, SlotAssumption DEF Slots
  <2> DEFINE next == boot.next + 1
  <2>3. boot' = [boot EXCEPT !.next = next] \/ boot' = [boot EXCEPT !.next = next, !.all = FALSE]
    BY <2>1
  <2>4. next \in 0..SlotCount
    BY <2>2
  <2> HIDE DEF next
  <2>5. /\ boot'.phase = "defaults" /\ boot'.keys = {} /\ boot'.next = next
        /\ boot' \in [phase : {"load", "defaults", "up"}, keys : SUBSET Slots,
                      next : 0..SlotCount, all : BOOLEAN]
        /\ boot'.all => boot.all
    BY <2>1, <2>3, <2>4 DEF IInv, TypeOK
  <2> QED BY <2>1, <2>2, <2>5 DEF next
<1> HIDE DEF cur
<1>2. /\ \A c \in Callers : update[c] = Idle /\ update'[c] = Idle
      /\ \A s \in Slots : ~Updating(s) /\ (hasPersisted[s] <=> stored[s] # Absent)
      /\ \A s \in Slots : stored[s] = Absent => ghost.promised[s] = Unknown
      /\ \A s \in Slots : Kept(s)
  BY <1>1 DEF IInv, OneUpdate, Updating, KeysOnRecord, KeptOnceLoaded
<1>3. \A s \in Slots : s < cur + 1 => s < cur \/ s = cur
  BY <1>1, SlotAssumption DEF Slots
<1>4. CASE DefaultSkipped
  <2>1. hasPersisted[cur] /\ UNCHANGED <<ram, hasPersisted, stored, ghost>>
    BY <1>4 DEF DefaultSkipped, Current, cur
  <2>2. TypeOK' /\ PromiseIsStored' /\ OneUpdate'
    BY <1>1, <1>2, <2>1 DEF IInv, TypeOK, PromiseIsStored, Promised, OneUpdate
  <2>3. KeptOnceLoaded' /\ KeysOnRecord'
    BY <1>1, <1>2, <2>1 DEF KeptOnceLoaded, Kept, Updating, KeysOnRecord
  <2>4. WrittenOnceSaved' /\ MarkerIsHonest'
    BY <1>1, <1>2, <1>3, <2>1 DEF IInv, WrittenOnceSaved, MarkerIsHonest, cur
  <2> QED BY <2>2, <2>3, <2>4 DEF IInv
<1>5. CASE DefaultSaved
  <2>1. /\ stored[cur] = Absent /\ ghost.promised[cur] = Unknown
        /\ ram' = [ram EXCEPT ![cur] = Default]
        /\ stored' = [stored EXCEPT ![cur] = Default]
        /\ hasPersisted' = [hasPersisted EXCEPT ![cur] = TRUE]
    BY <1>1, <1>2, <1>5 DEF DefaultSaved, Current, cur
  <2> DEFINE promised == [ghost.promised EXCEPT ![cur] = Default]
             written == ghost.written \cup {cur}
  <2>2. ghost' = [ghost EXCEPT !.promised = promised, !.written = written]
    BY <1>1, <1>5, <2>1 DEF DefaultSaved, Current, cur, IInv, TypeOK
  <2>3. /\ promised \in [Slots -> Valid \cup {Unknown}] /\ promised[cur] = Default
        /\ \A s \in Slots : s # cur => promised[s] = ghost.promised[s]
        /\ written \in SUBSET Slots /\ cur \in written /\ ghost.written \subseteq written
    BY <1>1, Constants DEF IInv, TypeOK
  <2> HIDE DEF promised, written
  <2>4. /\ ghost' \in [promised : [Slots -> Valid \cup {Unknown}], diverged : SUBSET Slots,
                       cleared : SUBSET Slots, written : SUBSET Slots]
        /\ ghost'.promised = promised /\ ghost'.written = written
        /\ ghost'.diverged = ghost.diverged
    BY <2>2, <2>3 DEF IInv, TypeOK
  <2>5. /\ ram' \in [Slots -> Valid] /\ stored' \in [Slots -> Valid \cup {Absent, Malformed}]
        /\ hasPersisted' \in [Slots -> BOOLEAN]
        /\ ram'[cur] = Default /\ stored'[cur] = Default /\ hasPersisted'[cur] = TRUE
        /\ \A s \in Slots : s # cur => /\ ram'[s] = ram[s] /\ stored'[s] = stored[s]
                                       /\ hasPersisted'[s] = hasPersisted[s]
    BY <1>1, <2>1, Constants DEF IInv, TypeOK
  <2>6. TypeOK'
    BY <1>1, <2>4, <2>5 DEF IInv, TypeOK
  <2>7. PromiseIsStored'
    <3> SUFFICES ASSUME NEW s \in Slots, promised[s] # Unknown
                 PROVE  promised[s] = Promised(stored[s])'
      BY <2>4 DEF PromiseIsStored
    <3>1. CASE s = cur
      BY <2>3, <2>5, <3>1, Constants DEF Promised
    <3>2. CASE s # cur
      BY <1>1, <2>3, <2>5, <3>2 DEF IInv, PromiseIsStored, Promised
    <3> QED BY <3>1, <3>2
  <2>8. OneUpdate'
    BY <1>2 DEF OneUpdate
  <2>9. KeptOnceLoaded'
    <3> SUFFICES ASSUME NEW s \in Slots PROVE Kept(s)'
      BY <1>1 DEF KeptOnceLoaded
    <3> QED BY <1>2, <2>3, <2>4, <2>5 DEF Kept, Updating
  <2>10. KeysOnRecord'
    BY <1>1, <1>2, <2>3, <2>4, <2>5, Constants DEF KeysOnRecord
  <2>11. WrittenOnceSaved' /\ MarkerIsHonest'
    BY <1>1, <1>3, <2>3, <2>4, <2>5, <2>6 DEF IInv, TypeOK, WrittenOnceSaved, MarkerIsHonest, cur
  <2> QED BY <2>6, <2>7, <2>8, <2>9, <2>10, <2>11 DEF IInv
<1>6. CASE DefaultNotSaved
  <2>1. /\ ram' = [ram EXCEPT ![cur] = Default]
        /\ ghost' = [ghost EXCEPT !.diverged = ghost.diverged \cup {cur}]
        /\ ~boot'.all /\ UNCHANGED <<hasPersisted, stored>>
    BY <1>6 DEF DefaultNotSaved, Current, NotAll, cur, IInv, TypeOK
  <2>2. /\ ghost' \in [promised : [Slots -> Valid \cup {Unknown}], diverged : SUBSET Slots,
                       cleared : SUBSET Slots, written : SUBSET Slots]
        /\ ghost'.promised = ghost.promised /\ ghost'.written = ghost.written
        /\ ghost'.diverged = ghost.diverged \cup {cur}
        /\ ram' \in [Slots -> Valid] /\ \A s \in Slots : s # cur => ram'[s] = ram[s]
    BY <1>1, <2>1, Constants DEF IInv, TypeOK
  <2>3. TypeOK' /\ PromiseIsStored' /\ OneUpdate'
    BY <1>1, <1>2, <2>1, <2>2 DEF IInv, TypeOK, PromiseIsStored, Promised, OneUpdate
  <2>4. KeptOnceLoaded' /\ KeysOnRecord'
    BY <1>1, <1>2, <2>1, <2>2 DEF KeptOnceLoaded, Kept, Updating, KeysOnRecord
  <2>5. WrittenOnceSaved' /\ MarkerIsHonest'
    BY <1>1, <2>1, <2>2 DEF IInv, WrittenOnceSaved, MarkerIsHonest
  <2> QED BY <2>3, <2>4, <2>5 DEF IInv
<1> QED BY <1>4, <1>5, <1>6

LEMMA MarkerKeeps ==
    ASSUME IInv, MarkerSaved \/ MarkerNotSaved
    PROVE  IInv'
<1>1. /\ boot.phase = "defaults" /\ boot.next = SlotCount /\ boot.keys = {}
      /\ boot' = [boot EXCEPT !.phase = "up"]
      /\ UNCHANGED <<ram, hasPersisted, update, stored, ghost>>
  BY DEF MarkerSaved, MarkerNotSaved, AfterSlots, Current, IInv, KeysOnRecord
<1>2. boot'.phase = "up" /\ boot'.keys = {}
  BY <1>1 DEF IInv, TypeOK
<1>3. marker' = marker \/ (marker' = TRUE /\ boot.all)
  BY DEF MarkerSaved, MarkerNotSaved
<1>4. TypeOK'
  BY <1>1 DEF MarkerSaved, MarkerNotSaved, IInv, TypeOK
<1>5. PromiseIsStored'
  <2> SUFFICES ASSUME NEW s \in Slots, ghost.promised[s] # Unknown
               PROVE  ghost.promised[s] = Promised(stored[s])'
    BY <1>1 DEF PromiseIsStored
  <2>1. stored[s] # Absent /\ ghost.promised[s] = Promised(stored[s])
    BY <1>1 DEF IInv, PromiseIsStored, KeysOnRecord
  <2> QED BY <1>1, <2>1 DEF Promised
<1>6. OneUpdate' /\ KeptOnceLoaded'
  BY <1>1, <1>2 DEF IInv, OneUpdate, KeptOnceLoaded, Kept, Updating
<1>7. KeysOnRecord'
  BY <1>2 DEF KeysOnRecord
<1>8. WrittenOnceSaved'
  BY <1>1, <1>2 DEF IInv, WrittenOnceSaved
<1>9. MarkerIsHonest'
  <2>1. boot.all => ghost.written = Slots
    <3> SUFFICES ASSUME boot.all PROVE ghost.written = Slots
      OBVIOUS
    <3>1. \A s \in Slots : s < SlotCount
      BY SlotAssumption DEF Slots
    <3>2. Slots \subseteq ghost.written
      BY <1>1, <3>1 DEF IInv, WrittenOnceSaved
    <3>3. ghost.written \subseteq Slots
      BY DEF IInv, TypeOK
    <3> QED BY <3>2, <3>3
  <2> QED BY <1>1, <1>3, <2>1 DEF IInv, MarkerIsHonest
<1> QED BY <1>4, <1>5, <1>6, <1>7, <1>8, <1>9 DEF IInv

---------------------------------------------------------------------------
(* slot_set and slot_clear, and power losses. *)

LEMMA ChangeRamKeeps ==
    ASSUME IInv, NEW c \in Callers, NEW job \in Jobs, ChangeRam(c, job),
           job.step = "delete" => job.text = NoText
    PROVE  IInv'
<1>1. /\ boot.phase = "up" /\ \A d \in Callers : update[d] = Idle
      /\ ram' = [ram EXCEPT ![job.slot] = job.text]
      /\ update' = [update EXCEPT ![c] = job]
      /\ ghost' = [ghost EXCEPT !.cleared = ghost.cleared \ {job.slot}]
      /\ UNCHANGED <<hasPersisted, initialized, boot, stored, marker>>
  BY DEF ChangeRam, Up, UpdateMutexFree
<1>2. /\ job.slot \in Slots /\ job.text \in Valid
      /\ ghost'.promised = ghost.promised /\ ghost'.written = ghost.written
      /\ ghost'.diverged = ghost.diverged
      /\ ghost' \in [promised : [Slots -> Valid \cup {Unknown}], diverged : SUBSET Slots,
                     cleared : SUBSET Slots, written : SUBSET Slots]
  BY <1>1 DEF IInv, TypeOK, Jobs
<1>3. /\ ram' \in [Slots -> Valid] /\ ram'[job.slot] = job.text
      /\ \A s \in Slots : s # job.slot => ram'[s] = ram[s]
      /\ update' \in [Callers -> Jobs \cup {Idle}] /\ update'[c] = job
      /\ \A d \in Callers : d # c => update'[d] = Idle
  BY <1>1, <1>2 DEF IInv, TypeOK
<1>a. TypeOK'
  BY <1>1, <1>2, <1>3 DEF IInv, TypeOK
<1>b. PromiseIsStored'
  BY <1>1, <1>2 DEF IInv, PromiseIsStored, Promised
<1>4. TypeOK' /\ PromiseIsStored'
  BY <1>a, <1>b
<1>5. OneUpdate'
  BY <1>1, <1>2, <1>3, Constants DEF OneUpdate
<1>6. KeptOnceLoaded'
  <2> SUFFICES ASSUME NEW s \in Slots PROVE Kept(s)'
    BY <1>1 DEF KeptOnceLoaded
  <2>1. CASE s = job.slot
    BY <1>3, <2>1, Constants DEF Kept, Updating
  <2>2. CASE s # job.slot
    BY <1>1, <1>2, <1>3, <2>2 DEF IInv, KeptOnceLoaded, Kept, Updating
  <2> QED BY <2>1, <2>2
<1>7. KeysOnRecord' /\ WrittenOnceSaved' /\ MarkerIsHonest'
  BY <1>1, <1>2 DEF IInv, KeysOnRecord, WrittenOnceSaved, MarkerIsHonest
<1> QED BY <1>4, <1>5, <1>6, <1>7 DEF IInv

\* The store has accepted the change under way, or refused it.
LEMMA StoreKeeps ==
    ASSUME IInv, NEW c \in Callers, Save(c) \/ Delete(c) \/ StoreFailed(c)
    PROVE  IInv'
<1> DEFINE s == update[c].slot
           text == update[c].text
<1>1. /\ update[c] \in Jobs /\ s \in Slots /\ text \in Valid /\ ram[s] = text
      /\ update[c].step = "delete" => text = NoText
      /\ boot.phase = "up" /\ \A d \in Callers : d # c => update[d] = Idle
      /\ update' = [update EXCEPT ![c] = Idle]
      /\ UNCHANGED <<ram, hasPersisted, initialized, boot, marker>>
  <2>1. update[c] # Idle
    BY DEF Save, Delete, StoreFailed, Idle
  <2>2. update[c] \in Jobs
    BY <2>1 DEF IInv, TypeOK
  <2>3. s \in Slots /\ text \in Valid
    BY <2>2 DEF Jobs
  <2> QED BY <2>1, <2>2, <2>3 DEF IInv, OneUpdate, Save, Delete, StoreFailed, Accepted
<1> HIDE DEF s, text
<1>2. /\ update' \in [Callers -> Jobs \cup {Idle}] /\ \A d \in Callers : update'[d] = Idle
  BY <1>1 DEF IInv, TypeOK
<1>3. \A d \in Slots : d # s => Kept(d) /\ ~Updating(d)
  BY <1>1 DEF IInv, KeptOnceLoaded, Updating, s
<1>4. OneUpdate'
  BY <1>1, <1>2 DEF OneUpdate
<1>5. KeysOnRecord'
  BY <1>1 DEF IInv, KeysOnRecord
<1>6. CASE StoreFailed(c)
  <2>1. ghost' = [ghost EXCEPT !.diverged = ghost.diverged \cup {s}] /\ UNCHANGED stored
    BY <1>6 DEF StoreFailed, s
  <2>2. /\ ghost'.promised = ghost.promised /\ ghost'.written = ghost.written
        /\ ghost'.diverged = ghost.diverged \cup {s}
        /\ ghost' \in [promised : [Slots -> Valid \cup {Unknown}], diverged : SUBSET Slots,
                       cleared : SUBSET Slots, written : SUBSET Slots]
    BY <1>1, <2>1 DEF IInv, TypeOK
  <2>3. TypeOK' /\ PromiseIsStored'
    BY <1>1, <1>2, <2>1, <2>2 DEF IInv, TypeOK, PromiseIsStored, Promised
  <2>4. KeptOnceLoaded'
    BY <1>1, <1>3, <2>2 DEF KeptOnceLoaded, Kept
  <2>5. WrittenOnceSaved' /\ MarkerIsHonest'
    BY <1>1, <2>1, <2>2 DEF IInv, WrittenOnceSaved, MarkerIsHonest
  <2> QED BY <1>4, <1>5, <2>3, <2>4, <2>5 DEF IInv
<1>7. CASE Save(c) \/ Delete(c)
  <2> DEFINE value == stored'[s]
             promised == [ghost.promised EXCEPT ![s] = Promised(value)]
  <2>1. /\ \/ stored' = [stored EXCEPT ![s] = text]
           \/ text = NoText /\ stored' = [stored EXCEPT ![s] = Absent]
        /\ ghost'.diverged = ghost.diverged \ {s}
        /\ ghost'.promised = promised
        /\ ghost'.written \in {ghost.written, ghost.written \cup {s}}
        /\ stored'[s] # Absent => s \in ghost'.written
        /\ ghost' = [ghost EXCEPT !.promised = ghost'.promised, !.diverged = ghost'.diverged,
                                  !.written = ghost'.written, !.cleared = ghost'.cleared]
        /\ ghost'.cleared \in SUBSET Slots
    <3>1. CASE Save(c)
      BY <1>1, <3>1 DEF Save, s, text, IInv, TypeOK
    <3>2. CASE Delete(c)
      BY <1>1, <3>2 DEF Delete, s, text, IInv, TypeOK
    <3> QED BY <1>7, <3>1, <3>2
  <2>2. /\ stored' \in [Slots -> Valid \cup {Absent, Malformed}]
        /\ value = text \/ (value = Absent /\ text = NoText)
        /\ \A d \in Slots : d # s => stored'[d] = stored[d]
    BY <1>1, <2>1 DEF IInv, TypeOK
  <2>3. /\ Promised(value) \in Valid \cup {Unknown}
        /\ Promised(value) # Unknown => Promised(value) = text
    BY <1>1, <2>2, PromisedFacts DEF IInv, TypeOK
  <2>4. /\ promised \in [Slots -> Valid \cup {Unknown}] /\ promised[s] = Promised(value)
        /\ \A d \in Slots : d # s => promised[d] = ghost.promised[d]
    BY <1>1, <2>3 DEF IInv, TypeOK
  <2> HIDE DEF value, promised
  <2>5. ghost' \in [promised : [Slots -> Valid \cup {Unknown}], diverged : SUBSET Slots,
                    cleared : SUBSET Slots, written : SUBSET Slots]
    BY <1>1, <2>1, <2>4 DEF IInv, TypeOK
  <2>6. TypeOK'
    BY <1>1, <1>2, <2>2, <2>5 DEF IInv, TypeOK
  <2>7. PromiseIsStored'
    <3> SUFFICES ASSUME NEW d \in Slots, promised[d] # Unknown
                 PROVE  promised[d] = Promised(stored[d])'
      BY <2>1 DEF PromiseIsStored
    <3>1. CASE d = s
      BY <1>1, <2>4, <3>1 DEF Promised, value
    <3>2. CASE d # s
      BY <1>1, <2>2, <2>4, <3>2 DEF IInv, PromiseIsStored, Promised
    <3> QED BY <3>1, <3>2
  <2>8. KeptOnceLoaded'
    <3> SUFFICES ASSUME NEW d \in Slots PROVE Kept(d)'
      BY <1>1 DEF KeptOnceLoaded
    <3>1. CASE d = s
      BY <1>1, <2>1, <2>3, <2>4, <3>1 DEF Kept
    <3>2. CASE d # s
      BY <1>1, <1>3, <2>1, <2>4, <3>2 DEF Kept
    <3> QED BY <3>1, <3>2
  <2>9. WrittenOnceSaved' /\ MarkerIsHonest'
    BY <1>1, <2>1, <2>2, <2>6 DEF IInv, TypeOK, WrittenOnceSaved, MarkerIsHonest
  <2> QED BY <1>4, <1>5, <2>6, <2>7, <2>8, <2>9 DEF IInv
<1> QED BY <1>6, <1>7

LEMMA RebootKeeps ==
    ASSUME IInv, Reboot
    PROVE  IInv'
<1>1. /\ \A s \in Slots : ram'[s] = NoText /\ hasPersisted'[s] = FALSE
      /\ ram' \in [Slots -> Valid] /\ hasPersisted' \in [Slots -> BOOLEAN]
      /\ update' \in [Callers -> Jobs \cup {Idle}] /\ \A c \in Callers : update'[c] = Idle
      /\ initialized' = FALSE /\ UNCHANGED <<stored, marker>>
  BY Constants DEF Reboot
<1>2. /\ boot'.phase = "load" /\ boot'.keys = {s \in Slots : stored[s] # Absent} /\ boot'.next = 0
      /\ boot' \in [phase : {"load", "defaults", "up"}, keys : SUBSET Slots,
                    next : 0..SlotCount, all : BOOLEAN]
  BY SlotAssumption DEF Reboot, Booting
<1>3. /\ ghost'.promised = ghost.promised /\ ghost'.written = ghost.written
      /\ ghost' \in [promised : [Slots -> Valid \cup {Unknown}], diverged : SUBSET Slots,
                     cleared : SUBSET Slots, written : SUBSET Slots]
  BY DEF Reboot, IInv, TypeOK
<1>4. TypeOK' /\ PromiseIsStored' /\ OneUpdate'
  BY <1>1, <1>2, <1>3 DEF IInv, TypeOK, PromiseIsStored, Promised, OneUpdate
<1>5. KeptOnceLoaded'
  <2> SUFFICES ASSUME NEW s \in Slots, stored[s] = Absent
               PROVE  ghost.promised[s] \in {NoText, Unknown}
    BY <1>1, <1>2, <1>3 DEF KeptOnceLoaded, Kept
  <2> QED BY PromisedFacts DEF IInv, TypeOK, PromiseIsStored
<1>6. KeysOnRecord' /\ WrittenOnceSaved' /\ MarkerIsHonest'
  BY <1>1, <1>2, <1>3 DEF IInv, KeysOnRecord, WrittenOnceSaved, MarkerIsHonest
<1> QED BY <1>4, <1>5, <1>6 DEF IInv

---------------------------------------------------------------------------
LEMMA NextIInv == IInv /\ [Next]_vars => IInv'
<1> SUFFICES ASSUME IInv, [Next]_vars PROVE IInv'
  OBVIOUS
<1>1. CASE Boot
  BY <1>1, LoadSlotKeeps, LoadMarkerKeeps, LoadDoneKeeps, DefaultKeeps, MarkerKeeps DEF Boot
<1>2. ASSUME NEW c \in Callers, NEW s \in Slots, NEW text \in Texts \cup {NoText},
             SlotSet(c, s, text) \/ SlotClear(c, s)
      PROVE  IInv'
  <2>1. /\ Saving(s, text) \in Jobs /\ Saving(s, text).step # "delete"
        /\ Deleting(s) \in Jobs /\ Deleting(s).text = NoText
    BY Constants DEF Saving, Deleting, Jobs, Valid
  <2> QED BY <1>2, <2>1, ChangeRamKeeps DEF SlotSet, SlotClear
<1>3. CASE Reboot
  BY <1>3, RebootKeeps
<1>4. CASE UNCHANGED vars
  BY <1>4 DEF vars, IInv, TypeOK, PromiseIsStored, Promised, OneUpdate, KeptOnceLoaded, Kept,
     Updating, KeysOnRecord, WrittenOnceSaved, MarkerIsHonest
<1> QED BY <1>1, <1>2, <1>3, <1>4, StoreKeeps DEF Next

\* RAM, keys, marker and promises stay consistent, whatever fails and whenever power is lost.
THEOREM Inductive == Spec => []IInv
BY InitIInv, NextIInv, PTL DEF Spec

\* Every reachable state has the declared types.
THEOREM TypeCorrect == Spec => []TypeOK
<1>1. IInv => TypeOK
  BY DEF IInv
<1> QED BY <1>1, Inductive, PTL

\* What the store accepted is what RAM holds, in this boot and after any reboot.
THEOREM AcceptedStays == Spec => []AcceptedIsKept
<1>1. IInv => AcceptedIsKept
  BY DEF IInv, AcceptedIsKept, KeptOnceLoaded, Kept, Up
<1> QED BY <1>1, Inductive, PTL

\* The marker is stored only when every slot has had a key.
THEOREM MarkerComesLast == Spec => []MarkerIsHonest
<1>1. IInv => MarkerIsHonest
  BY DEF IInv
<1> QED BY <1>1, Inductive, PTL

\* The boot changes no key that is there.
THEOREM BootPreservesKeys == Spec => DefaultsPreserve
<1>1. ASSUME IInv, Boot, NEW s \in Slots, stored[s] # Absent
      PROVE  stored'[s] = stored[s]
  <2>1. CASE DefaultSaved
    <3>1. boot.phase = "defaults" /\ boot.next \in Slots /\ ~hasPersisted[boot.next]
      BY <2>1 DEF DefaultSaved, AtSlot, Current
    <3>2. stored[boot.next] = Absent
      BY <1>1, <3>1 DEF IInv, KeysOnRecord
    <3> QED BY <1>1, <2>1, <3>2 DEF DefaultSaved, Current, IInv, TypeOK
  <2>2. CASE ~DefaultSaved
    BY <1>1, <2>2 DEF Boot, LoadSlot, LoadMarker, LoadDone, DefaultSkipped, DefaultNotSaved,
       MarkerSaved, MarkerNotSaved
  <2> QED BY <2>1, <2>2
<1>2. IInv /\ [Next]_vars =>
        [ Boot => \A s \in Slots : stored[s] # Absent => stored'[s] = stored[s] ]_vars
  BY <1>1
<1> QED BY <1>2, Inductive, PTL DEF Spec, DefaultsPreserve

=============================================================================
