------------------------------- MODULE Slots -------------------------------
(***************************************************************************)
(* The persistent macro slots of src/src/runtime_macro.c: their text in    *)
(* RAM, their keys in the settings store, and the first-boot defaults with *)
(* the marker that says they have been written.  slot_set and slot_clear   *)
(* change RAM, let go of runtime_macro_slots_mutex, and then change the    *)
(* store: two steps, with a power loss possible between them.  At boot the *)
(* store's keys are loaded one by one and settings_commit then writes the  *)
(* defaults slot by slot; the firmware's other users of the slots start    *)
(* when that is done.                                                      *)
(***************************************************************************)
EXTENDS Integers

CONSTANTS
    SlotCount,  \* CONFIG_ZMK_RUNTIME_MACRO_SLOT_COUNT
    Callers,    \* threads that may call slot_set and slot_clear
    Texts,      \* valid non-empty texts, the defaults apart
    Absent,     \* the settings store has no such key
    Malformed,  \* a stored value that settings_set rejects
    Unknown     \* the store promises nothing about the slot

ASSUME SlotAssumption == SlotCount \in Nat \ {0}

Slots == 0..SlotCount - 1
NoText == "empty"
Default == "default"         \* "Runtime Macro <slot + 1>"
Valid == Texts \cup {NoText, Default}

ASSUME ValueAssumption ==
    /\ {NoText, Default} \cap Texts = {}
    /\ {Absent, Malformed, Unknown} \cap Valid = {}
    /\ Absent # Malformed

VARIABLES
    ram,           \* runtime_macro_slots and runtime_macro_slot_lengths
    hasPersisted,  \* runtime_macro_slot_has_persisted_setting
    initialized,   \* runtime_macro_defaults_initialized
    boot,          \* how far the boot has come, and what settings_commit has found
    update,        \* the slot_set or slot_clear each caller is in the middle of
    stored,        \* the values under runtime_macro/slot/<n>
    marker,        \* the value under runtime_macro/defaults_initialized
    ghost          \* history the properties compare with; no guard reads it

vars == <<ram, hasPersisted, initialized, boot, update, stored, marker, ghost>>

(***************************************************************************)
(* ghost.promised[s]: the text the store will deliver for s: the last one  *)
(* it accepted, or none if it accepted a deletion and has the marker.      *)
(* ghost.diverged: slots whose text in RAM the store could not save or     *)
(* could not deliver.  ghost.cleared: slots whose last change was a clear  *)
(* that returned 0, as long as the marker can be read.  ghost.written:     *)
(* slots that have had a key in the store.                                 *)
(***************************************************************************)

Idle == [step |-> "idle"]
Saving(s, text) == [step |-> "save", slot |-> s, text |-> text]
Deleting(s) == [step |-> "delete", slot |-> s, text |-> NoText]

Booting == [phase |-> "load", keys |-> {s \in Slots : stored[s] # Absent}, next |-> 0, all |-> TRUE]
Up == boot.phase = "up"

\* What the store promises: an absent key means an empty slot once the marker is stored.
Promised(value) ==
    CASE value \in Valid -> value
      [] value = Absent /\ marker = TRUE -> NoText
      [] OTHER -> Unknown

---------------------------------------------------------------------------
Init ==
    /\ stored \in [Slots -> Valid \cup {Absent, Malformed}]
    /\ marker \in {TRUE, FALSE, Malformed}
    /\ ram = [s \in Slots |-> NoText]
    /\ hasPersisted = [s \in Slots |-> FALSE]
    /\ initialized = FALSE
    /\ boot = Booting
    /\ update = [c \in Callers |-> Idle]
    /\ ghost = [promised |-> [s \in Slots |-> Promised(stored[s])],
                diverged |-> {}, cleared |-> {},
                written |-> IF marker = TRUE THEN Slots ELSE {s \in Slots : stored[s] # Absent}]

---------------------------------------------------------------------------
(* settings_load: runtime_macro_settings_set for each stored key. *)

\* Wrong variant of Remembered: only a key whose value can be used is remembered.
RememberedIfUsable(s) == IF stored[s] = Malformed THEN hasPersisted ELSE [hasPersisted EXCEPT ![s] = TRUE]

Remembered(s) == [hasPersisted EXCEPT ![s] = TRUE]

\* Wrong variant of Usable: the value is not validated.
AnyUsable(value) == TRUE

Usable(value) == value \in Valid

LoadSlot(s) ==
    /\ boot.phase = "load"
    /\ s \in boot.keys
    /\ boot' = [boot EXCEPT !.keys = boot.keys \ {s}]
    /\ hasPersisted' = Remembered(s)
    /\ \/ /\ Usable(stored[s])
          /\ ram' = [ram EXCEPT ![s] = stored[s]]
          /\ UNCHANGED ghost
       \/ \* malformed, or the read callback fails
          /\ ghost' = [ghost EXCEPT !.diverged = ghost.diverged \cup {s}]
          /\ UNCHANGED ram
    /\ UNCHANGED <<initialized, update, stored, marker>>

LoadMarker ==
    /\ boot.phase = "load"
    /\ ~initialized
    /\ marker = TRUE
    /\ initialized' = TRUE
    /\ UNCHANGED <<ram, hasPersisted, boot, update, stored, marker, ghost>>

NothingToDo == initialized

\* All keys have been delivered, the marker among them, or its read has failed.
LoadDone(markerRead) ==
    /\ boot.phase = "load"
    /\ boot.keys = {}
    /\ initialized \/ marker # TRUE \/ ~markerRead
    /\ boot' = [boot EXCEPT !.phase = IF NothingToDo THEN "up" ELSE "defaults"]
    /\ ghost' = IF marker # TRUE \/ markerRead THEN ghost
                ELSE [ghost EXCEPT
                        !.promised = [s \in Slots |-> IF stored[s] = Absent THEN Unknown ELSE @[s]],
                        !.cleared = {}]
    /\ UNCHANGED <<ram, hasPersisted, initialized, update, stored, marker>>

---------------------------------------------------------------------------
(* settings_commit: the default of each slot without a key, then the marker. *)

Current == boot.next

AtSlot == boot.phase = "defaults" /\ Current \in Slots

DefaultSkipped ==
    /\ AtSlot
    /\ hasPersisted[Current]
    /\ boot' = [boot EXCEPT !.next = Current + 1]
    /\ UNCHANGED <<ram, hasPersisted, initialized, update, stored, marker, ghost>>

DefaultSaved ==
    /\ AtSlot
    /\ ~hasPersisted[Current]
    /\ ram' = [ram EXCEPT ![Current] = Default]
    /\ stored' = [stored EXCEPT ![Current] = Default]
    /\ hasPersisted' = [hasPersisted EXCEPT ![Current] = TRUE]
    /\ boot' = [boot EXCEPT !.next = Current + 1]
    /\ ghost' = [ghost EXCEPT !.promised[Current] = IF @ = Unknown THEN Default ELSE @,
                              !.written = ghost.written \cup {Current}]
    /\ UNCHANGED <<initialized, update, marker>>

\* Wrong variant of NotAll: a default that could not be saved is forgotten.
ForgetsFailure == boot.all

NotAll == FALSE

DefaultNotSaved ==
    /\ AtSlot
    /\ ~hasPersisted[Current]
    /\ ram' = [ram EXCEPT ![Current] = Default]
    /\ boot' = [boot EXCEPT !.next = Current + 1, !.all = NotAll]
    /\ ghost' = [ghost EXCEPT !.diverged = ghost.diverged \cup {Current}]
    /\ UNCHANGED <<hasPersisted, initialized, update, stored, marker>>

AfterSlots == boot.phase = "defaults" /\ Current = SlotCount

MarkerSaved ==
    /\ AfterSlots
    /\ boot.all
    /\ marker' = TRUE
    /\ initialized' = TRUE
    /\ boot' = [boot EXCEPT !.phase = "up"]
    /\ UNCHANGED <<ram, hasPersisted, update, stored, ghost>>

\* A default was not saved, or the marker cannot be.
MarkerNotSaved ==
    /\ AfterSlots
    /\ boot' = [boot EXCEPT !.phase = "up"]
    /\ UNCHANGED <<ram, hasPersisted, initialized, update, stored, marker, ghost>>

---------------------------------------------------------------------------
(* slot_set and slot_clear, under runtime_macro_slot_update_mutex. *)

\* Wrong variant of UpdateMutexFree: updates are not serialised.
NoUpdateMutex == TRUE

UpdateMutexFree == \A c \in Callers : update[c] = Idle

\* Up is an assumption on the boot, not a check of the code, which would let a change in as soon as
\* settings_commit has opened the access: no slot is set or cleared before the defaults are written.
ChangeRam(c, job) ==
    /\ Up
    /\ UpdateMutexFree
    /\ update[c] = Idle
    /\ ram' = [ram EXCEPT ![job.slot] = job.text]
    /\ update' = [update EXCEPT ![c] = job]
    /\ ghost' = [ghost EXCEPT !.cleared = ghost.cleared \ {job.slot}]
    /\ UNCHANGED <<hasPersisted, initialized, boot, stored, marker>>

SlotSet(c, s, text) == ChangeRam(c, Saving(s, text))
SlotClear(c, s) == ChangeRam(c, Deleting(s))

Accepted(c, s) ==
    /\ update' = [update EXCEPT ![c] = Idle]
    /\ UNCHANGED <<ram, hasPersisted, initialized, boot, marker>>

\* The store may keep a value of length 0 or drop its key.
Save(c) ==
    /\ update[c].step = "save"
    /\ LET s == update[c].slot
       IN  /\ \/ stored' = [stored EXCEPT ![s] = update[c].text]
              \/ update[c].text = NoText /\ stored' = [stored EXCEPT ![s] = Absent]
           /\ Accepted(c, s)
           /\ ghost' = [ghost EXCEPT !.promised[s] = Promised(stored'[s]),
                                     !.diverged = ghost.diverged \ {s},
                                     !.written = ghost.written \cup {s}]

Delete(c) ==
    /\ update[c].step = "delete"
    /\ LET s == update[c].slot
       IN  /\ stored' = [stored EXCEPT ![s] = Absent]
           /\ Accepted(c, s)
           /\ ghost' = [ghost EXCEPT !.promised[s] = Promised(stored'[s]),
                                     !.diverged = ghost.diverged \ {s},
                                     !.cleared = ghost.cleared \cup {s}]

\* The error goes to the caller; RAM keeps the new text and the store the old one.
StoreFailed(c) ==
    /\ update[c] # Idle
    /\ update' = [update EXCEPT ![c] = Idle]
    /\ ghost' = [ghost EXCEPT !.diverged = ghost.diverged \cup {update[c].slot}]
    /\ UNCHANGED <<ram, hasPersisted, initialized, boot, stored, marker>>

---------------------------------------------------------------------------
\* Power loss at any point.
Reboot ==
    /\ ram' = [s \in Slots |-> NoText]
    /\ hasPersisted' = [s \in Slots |-> FALSE]
    /\ initialized' = FALSE
    /\ boot' = Booting
    /\ update' = [c \in Callers |-> Idle]
    /\ ghost' = [ghost EXCEPT !.diverged = {}]
    /\ UNCHANGED <<stored, marker>>

Boot ==
    \/ \E s \in Slots : LoadSlot(s)
    \/ LoadMarker
    \/ \E markerRead \in BOOLEAN : LoadDone(markerRead)
    \/ DefaultSkipped \/ DefaultSaved \/ DefaultNotSaved
    \/ MarkerSaved \/ MarkerNotSaved

Next ==
    \/ Boot
    \/ \E c \in Callers :
          \/ \E s \in Slots :
                \/ \E text \in Texts \cup {NoText} : SlotSet(c, s, text)
                \/ SlotClear(c, s)
          \/ Save(c) \/ Delete(c) \/ StoreFailed(c)
    \/ Reboot

Spec == Init /\ [][Next]_vars

---------------------------------------------------------------------------
Jobs == [step : {"save", "delete"}, slot : Slots, text : Valid]

TypeOK ==
    /\ ram \in [Slots -> Valid]
    /\ hasPersisted \in [Slots -> BOOLEAN]
    /\ initialized \in BOOLEAN
    /\ boot \in [phase : {"load", "defaults", "up"}, keys : SUBSET Slots,
                 next : 0..SlotCount, all : BOOLEAN]
    /\ update \in [Callers -> Jobs \cup {Idle}]
    /\ stored \in [Slots -> Valid \cup {Absent, Malformed}]
    /\ marker \in {TRUE, FALSE, Malformed}
    /\ ghost \in [promised : [Slots -> Valid \cup {Unknown}], diverged : SUBSET Slots,
                  cleared : SUBSET Slots, written : SUBSET Slots]

Updating(s) == \E c \in Callers : update[c] # Idle /\ update[c].slot = s

\* Memory and store tell the same story: between updates, a slot whose last change the store
\* accepted holds that change's text, in the boot that made it, whichever caller came last,
\* and after any number of reboots, wherever the power failed.
AcceptedIsKept ==
    Up => \A s \in Slots \ ghost.diverged :
             ~Updating(s) /\ ghost.promised[s] # Unknown => ram[s] = ghost.promised[s]

\* The marker is not written early: once it is stored, every slot has had a key of its own, so
\* no slot has missed its default because a save failed or the power went.
MarkerIsHonest == marker = TRUE => ghost.written = Slots

\* First-boot defaults never replace what is stored, usable or not: the boot changes no key
\* that is there.
DefaultsPreserve ==
    [][ Boot => \A s \in Slots : stored[s] # Absent => stored'[s] = stored[s] ]_vars

\* What the README promises: a slot whose clearing was acknowledged is empty, after reboots too.
ClearedStaysEmpty == Up => \A s \in ghost.cleared : ram[s] = NoText

=============================================================================
