------------------------------ MODULE Executor ------------------------------
(***************************************************************************)
(* The shared executor of src/src/runtime_macro_executor.c.  Any thread    *)
(* may start it; what guards its state is the atomic busy flag, which      *)
(* executor_start claims and finish gives back last.  From then on a       *)
(* single delayable work item presses and releases one key after another,  *)
(* scheduling itself for each next step.  Any scheduling call may fail.    *)
(***************************************************************************)
EXTENDS Naturals, Sequences

CONSTANTS
    Callers,  \* threads that start macros
    Chars,    \* characters
    Texts,    \* texts they start, as sequences of characters
    Keycode,  \* zmk_runtime_macro_ascii_to_keycode: the key of each typeable character
    NoKey     \* no key is down

ASSUME TextAssumption == Texts \subseteq Seq(Chars) /\ DOMAIN Keycode \subseteq Chars
ASSUME KeyAssumption == \A char \in DOMAIN Keycode : Keycode[char] # NoKey

VARIABLES
    executor,  \* struct runtime_macro_executor_state
    busy,      \* runtime_macro_executor_busy
    pending,   \* the work item is scheduled
    handler,   \* where the work handler is
    starting,  \* where each caller is in executor_start, and the text it holds
    down       \* the key last pressed and not released, as raised to the listeners

vars == <<executor, busy, pending, handler, starting, down>>

Idle == "idle"
NotStarting == [step |-> Idle, text |-> <<>>]

\* encoded is NoKey for 0.  The text's length is its length as a sequence.
Zeroed == [text |-> <<>>, index |-> 0, encoded |-> NoKey, phase |-> "PRESS"]

Init ==
    /\ executor = Zeroed
    /\ busy = FALSE
    /\ pending = FALSE
    /\ handler = Idle
    /\ starting = [c \in Callers |-> NotStarting]
    /\ down = NoKey

---------------------------------------------------------------------------
(* zmk_runtime_macro_executor_start. *)

\* Wrong variant of Claim: the flag is read but not set.
ClaimForgets == ~busy /\ busy' = busy

Claim == ~busy /\ busy' = TRUE

\* -EBUSY: the caller goes away, and nothing queues its text.
StartRefused(c) ==
    /\ starting[c] = NotStarting
    /\ busy
    /\ UNCHANGED vars

StartClaimed(c, text) ==
    /\ starting[c] = NotStarting
    /\ Claim
    /\ starting' = [starting EXCEPT ![c] = [step |-> "copy", text |-> text]]
    /\ UNCHANGED <<executor, pending, handler, down>>

\* Wrong variant of Zeroize: the flag is given back before the text is gone.
FlagFirst == busy' = FALSE /\ UNCHANGED executor

\* runtime_macro_executor_finish, its first part and its last.
Zeroize == executor' = Zeroed /\ UNCHANGED busy

GiveBack == busy' = FALSE /\ UNCHANGED executor

StartCopied(c) ==
    /\ starting[c].step = "copy"
    /\ starting[c].text # <<>>
    /\ executor' = [executor EXCEPT !.text = starting[c].text, !.index = 0, !.phase = "PRESS"]
    /\ starting' = [starting EXCEPT ![c].step = "schedule"]
    /\ UNCHANGED <<busy, pending, handler, down>>

StartScheduled(c) ==
    /\ starting[c].step = "schedule"
    /\ pending' = TRUE
    /\ starting' = [starting EXCEPT ![c] = NotStarting]
    /\ UNCHANGED <<executor, busy, handler, down>>

\* The work cannot be scheduled, or the text is empty.
StartFinishes(c) ==
    /\ \/ starting[c].step = "schedule"
       \/ starting[c].step = "copy" /\ starting[c].text = <<>>
    /\ Zeroize
    /\ starting' = [starting EXCEPT ![c].step = "finish"]
    /\ UNCHANGED <<pending, handler, down>>

StartFinished(c) ==
    /\ starting[c].step = "finish"
    /\ GiveBack
    /\ starting' = [starting EXCEPT ![c] = NotStarting]
    /\ UNCHANGED <<pending, handler, down>>

StartGoesOn(c) == StartCopied(c) \/ StartScheduled(c) \/ StartFinishes(c) \/ StartFinished(c)

Start(c) ==
    \/ StartRefused(c)
    \/ \E text \in Texts : StartClaimed(c, text)
    \/ StartGoesOn(c)

---------------------------------------------------------------------------
(* The work handler.  Raising an event runs its listeners, so what follows  *)
(* a raised event is a step of its own.                                     *)

Char == executor.text[executor.index + 1]

\* The work queue runs the item; with nothing to type the handler returns.
Dequeue ==
    /\ pending
    /\ handler = Idle
    /\ pending' = FALSE
    /\ handler' = IF busy THEN executor.phase ELSE Idle
    /\ UNCHANGED <<executor, busy, starting, down>>

PressInvalid ==
    /\ handler = "PRESS"
    /\ Char \notin DOMAIN Keycode
    /\ Zeroize
    /\ handler' = "finish"
    /\ UNCHANGED <<pending, starting, down>>

\* raise(true): whether a listener fails or not, RELEASE comes next.
PressRaised ==
    /\ handler = "PRESS"
    /\ Char \in DOMAIN Keycode
    /\ executor' = [executor EXCEPT !.encoded = Keycode[Char], !.phase = "RELEASE"]
    /\ down' = Keycode[Char]
    /\ handler' = "pressed"
    /\ UNCHANGED <<busy, pending, starting>>

PressScheduled ==
    /\ handler = "pressed"
    /\ pending' = TRUE
    /\ handler' = Idle
    /\ UNCHANGED <<executor, busy, starting, down>>

Raised(key) == IF key = down THEN NoKey ELSE down

\* Wrong variant of PressNotScheduled: the executor finishes with the key down.
PressAbandoned ==
    /\ handler = "pressed"
    /\ Zeroize
    /\ handler' = "finish"
    /\ UNCHANGED <<pending, starting, down>>

\* The release cannot be scheduled, so the key is released at once.
PressNotScheduled ==
    /\ handler = "pressed"
    /\ down' = Raised(executor.encoded)
    /\ Zeroize
    /\ handler' = "finish"
    /\ UNCHANGED <<pending, starting>>

IsLast == executor.index + 1 >= Len(executor.text)

\* Wrong variant of ReleaseRaised: the index stays where it is.
ReleaseRepeats ==
    /\ handler = "RELEASE"
    /\ down' = Raised(executor.encoded)
    /\ executor' = [executor EXCEPT !.phase = "PRESS"]
    /\ handler' = "released"
    /\ UNCHANGED <<busy, pending, starting>>

\* raise(false), and on to the next character if there is one.
ReleaseRaised ==
    /\ handler = "RELEASE"
    /\ down' = Raised(executor.encoded)
    /\ IF IsLast
         THEN Zeroize /\ handler' = "finish"
         ELSE /\ executor' = [executor EXCEPT !.index = executor.index + 1, !.phase = "PRESS"]
              /\ handler' = "released"
              /\ UNCHANGED busy
    /\ UNCHANGED <<pending, starting>>

ReleaseScheduled ==
    /\ handler = "released"
    /\ pending' = TRUE
    /\ handler' = Idle
    /\ UNCHANGED <<executor, busy, starting, down>>

ReleaseNotScheduled ==
    /\ handler = "released"
    /\ Zeroize
    /\ handler' = "finish"
    /\ UNCHANGED <<pending, starting, down>>

HandlerFinished ==
    /\ handler = "finish"
    /\ GiveBack
    /\ handler' = Idle
    /\ UNCHANGED <<pending, starting, down>>

Handler ==
    \/ PressInvalid \/ PressRaised \/ PressScheduled \/ PressNotScheduled
    \/ ReleaseRaised \/ ReleaseScheduled \/ ReleaseNotScheduled
    \/ HandlerFinished

Next == (\E c \in Callers : Start(c)) \/ Dequeue \/ Handler

Spec == Init /\ [][Next]_vars

Fairness ==
    /\ WF_vars(Dequeue) /\ WF_vars(Handler)
    /\ \A c \in Callers : WF_vars(StartGoesOn(c))

\* The work queue runs what is due, and a thread inside a function goes on.
LiveSpec == Spec /\ Fairness

---------------------------------------------------------------------------
Keys == {Keycode[char] : char \in DOMAIN Keycode} \cup {NoKey}

TypeOK ==
    /\ executor \in [text : Texts \cup {<<>>}, index : Nat, encoded : Keys,
                     phase : {"PRESS", "RELEASE"}]
    /\ busy \in BOOLEAN
    /\ pending \in BOOLEAN
    /\ handler \in {Idle, "PRESS", "pressed", "RELEASE", "released", "finish"}
    /\ starting \in [Callers -> [step : {Idle, "copy", "schedule", "finish"}, text : Texts \cup {<<>>}]]
    /\ down \in Keys
    /\ executor.text # <<>> => executor.index < Len(executor.text)

\* Exactly one actor owns a busy executor: the thread that claimed it and has not scheduled the
\* work yet, the scheduled work item, or the running handler; an idle executor has no owner, holds
\* none of the text it typed, and has left no key down.
OneOwner ==
    LET owners == {<<"start", c>> : c \in {d \in Callers : starting[d].step # Idle}}
                    \cup (IF pending THEN {<<"work">>} ELSE {})
                    \cup (IF handler # Idle THEN {<<"handler">>} ELSE {})
    IN  IF busy THEN \E o \in owners : owners = {o}
                ELSE owners = {} /\ executor = Zeroed /\ down = NoKey

\* A key that is down will be released: the release is what the handler or the work item does next.
KeyWillBeReleased ==
    down # NoKey => /\ executor.phase = "RELEASE" /\ executor.encoded = down
                    /\ pending \/ handler \in {"pressed", "RELEASE"}

\* The executor always becomes idle again, so that no macro key is dead for good.
BecomesIdle == busy ~> ~busy

---------------------------------------------------------------------------
(* The executor types as Typing says.  A text counts as accepted when the  *)
(* work that will type it has been scheduled.                              *)

Accepted == pending \/ handler \notin {Idle, "finish"}

Abstract == INSTANCE Typing WITH
    text <- IF Accepted THEN executor.text ELSE <<>>,
    done <- IF Accepted THEN executor.index ELSE 0,
    key <- down

\* Whatever the interleaving of callers, work item and scheduling failures, what is pressed and
\* released is what Typing allows: the accepted text, in order, one key at a time.
TypesTheText == Abstract!Spec

=============================================================================
