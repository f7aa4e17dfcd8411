--------------------------- MODULE ExecutorProofs ---------------------------
(***************************************************************************)
(* Proofs, for any threads, characters and texts, of the executor's safety *)
(* and that it implements Typing.                                          *)
(***************************************************************************)
EXTENDS Executor, TLAPS

Thread(c) == starting[c].step # Idle

\* Never two of: a thread inside executor_start, the scheduled work item, the running handler.
OneActor ==
    /\ \A c, d \in Callers : Thread(c) /\ Thread(d) => c = d
    /\ pending => handler = Idle
    /\ pending \/ handler # Idle => \A c \in Callers : ~Thread(c)

\* One of them if and only if the flag is set.
BusyIsOwned ==
    busy <=> pending \/ handler # Idle \/ \E c \in Callers : Thread(c)

Clean == executor = Zeroed /\ down = NoKey

ToPress == executor.phase = "PRESS" /\ executor.text # <<>> /\ down = NoKey

ToRelease ==
    executor.phase = "RELEASE" /\ executor.text # <<>> /\ executor.encoded = down /\ down # NoKey

\* What each of them finds when it goes on.
StateByActor ==
    /\ ~busy => Clean
    /\ \A c \in Callers :
         /\ starting[c].step = Idle => starting[c] = NotStarting
         /\ starting[c].step \in {"copy", "finish"} => Clean
         /\ starting[c].step = "schedule" => ToPress /\ executor.index = 0
    /\ pending => ToPress \/ ToRelease
    /\ handler \in {"PRESS", "released"} => ToPress
    /\ handler \in {"pressed", "RELEASE"} => ToRelease
    /\ handler = "finish" => Clean

IInv == TypeOK /\ OneActor /\ BusyIsOwned /\ StateByActor

---------------------------------------------------------------------------
LEMMA TextFacts ==
    ASSUME NEW text \in Texts \cup {<<>>}
    PROVE  /\ Len(text) \in Nat
           /\ text # <<>> => 0 < Len(text)
BY TextAssumption

LEMMA ZeroedTyped ==
    /\ Zeroed \in [text : Texts \cup {<<>>}, index : Nat, encoded : Keys,
                   phase : {"PRESS", "RELEASE"}]
    /\ Zeroed.text = <<>>
BY DEF Zeroed, Keys

LEMMA InitIInv == Init => IInv
<1> SUFFICES ASSUME Init PROVE IInv
  OBVIOUS
<1>1. TypeOK
  BY ZeroedTyped DEF Init, TypeOK, NotStarting, Idle, Keys
<1>2. OneActor /\ BusyIsOwned
  BY DEF Init, OneActor, BusyIsOwned, Thread, NotStarting, Idle
<1>3. StateByActor
  BY DEF Init, StateByActor, Clean, NotStarting, Idle
<1> QED BY <1>1, <1>2, <1>3 DEF IInv

---------------------------------------------------------------------------
(* executor_start. *)

LEMMA StartKeeps ==
    ASSUME IInv, NEW c \in Callers, Start(c)
    PROVE  IInv'
<1> USE DEF IInv, TypeOK, Idle
<1>1. CASE StartRefused(c)
  BY <1>1 DEF StartRefused, vars, OneActor, BusyIsOwned, StateByActor, Clean, ToPress, ToRelease,
     Thread
<1>2. ASSUME NEW text \in Texts, StartClaimed(c, text)
      PROVE  IInv'
  <2>1. /\ ~busy /\ busy' /\ Clean /\ Clean'
        /\ ~pending /\ handler = Idle /\ \A d \in Callers : ~Thread(d)
        /\ starting' = [starting EXCEPT ![c] = [step |-> "copy", text |-> text]]
        /\ UNCHANGED <<executor, pending, handler, down>>
    BY <1>2 DEF StartClaimed, Claim, BusyIsOwned, StateByActor, Clean
  <2>2. TypeOK'
    BY <2>1
  <2>3. OneActor' /\ BusyIsOwned'
    BY <2>1 DEF OneActor, BusyIsOwned, Thread
  <2>4. StateByActor'
    BY <2>1 DEF StateByActor, Thread
  <2> QED BY <2>2, <2>3, <2>4
<1>3. CASE StartCopied(c)
  <2>1. /\ Thread(c) /\ ~pending /\ handler = Idle /\ busy
        /\ \A d \in Callers : d # c => starting[d].step = Idle
        /\ Clean
    BY <1>3 DEF StartCopied, OneActor, BusyIsOwned, StateByActor, Thread
  <2>2. /\ starting[c].text \in Texts /\ starting[c].text # <<>>
        /\ executor' = [Zeroed EXCEPT !.text = starting[c].text, !.index = 0, !.phase = "PRESS"]
        /\ starting' = [starting EXCEPT ![c].step = "schedule"]
        /\ UNCHANGED <<busy, pending, handler, down>>
    BY <1>3, <2>1 DEF StartCopied, Clean
  <2>3. TypeOK'
    BY <2>1, <2>2, TextFacts DEF Clean, Zeroed, Keys
  <2>4. OneActor' /\ BusyIsOwned'
    BY <2>1, <2>2 DEF OneActor, BusyIsOwned, Thread
  <2>5. StateByActor'
    BY <2>1, <2>2 DEF StateByActor, ToPress, Clean, Zeroed
  <2> QED BY <2>3, <2>4, <2>5
<1>4. CASE StartScheduled(c)
  <2>1. /\ Thread(c) /\ ~pending /\ handler = Idle /\ busy
        /\ \A d \in Callers : d # c => starting[d].step = Idle
        /\ ToPress
    BY <1>4 DEF StartScheduled, OneActor, BusyIsOwned, StateByActor, Thread
  <2>2. TypeOK'
    BY <1>4 DEF StartScheduled, NotStarting
  <2>3. OneActor' /\ BusyIsOwned'
    BY <1>4, <2>1 DEF StartScheduled, OneActor, BusyIsOwned, Thread, NotStarting
  <2>4. StateByActor'
    BY <1>4, <2>1 DEF StartScheduled, StateByActor, NotStarting, ToPress
  <2> QED BY <2>2, <2>3, <2>4
<1>5. CASE StartFinishes(c)
  <2>1. /\ Thread(c) /\ ~pending /\ handler = Idle /\ busy
        /\ \A d \in Callers : d # c => starting[d].step = Idle
        /\ down = NoKey
    BY <1>5 DEF StartFinishes, OneActor, BusyIsOwned, StateByActor, Thread, Clean, ToPress
  <2>2. TypeOK'
    BY <1>5, ZeroedTyped DEF StartFinishes, Zeroize
  <2>3. OneActor' /\ BusyIsOwned'
    BY <1>5, <2>1 DEF StartFinishes, Zeroize, OneActor, BusyIsOwned, Thread
  <2>4. StateByActor'
    BY <1>5, <2>1 DEF StartFinishes, Zeroize, StateByActor, Clean
  <2> QED BY <2>2, <2>3, <2>4
<1>6. CASE StartFinished(c)
  <2>1. /\ Thread(c) /\ ~pending /\ handler = Idle
        /\ \A d \in Callers : d # c => starting[d].step = Idle
        /\ Clean
    BY <1>6 DEF StartFinished, OneActor, StateByActor, Thread
  <2>2. TypeOK'
    BY <1>6 DEF StartFinished, GiveBack, NotStarting
  <2>3. OneActor' /\ BusyIsOwned'
    BY <1>6, <2>1 DEF StartFinished, GiveBack, OneActor, BusyIsOwned, Thread, NotStarting
  <2>4. StateByActor'
    BY <1>6, <2>1 DEF StartFinished, GiveBack, StateByActor, Clean, NotStarting
  <2> QED BY <2>2, <2>3, <2>4
<1> QED BY <1>1, <1>2, <1>3, <1>4, <1>5, <1>6 DEF Start, StartGoesOn

---------------------------------------------------------------------------
(* The work item and its handler: no thread is inside executor_start. *)

\* It suffices to know what the step leaves behind.
LEMMA WorkKeeps ==
    ASSUME IInv, TypeOK', pending \/ handler # Idle, UNCHANGED starting,
           pending' => handler' = Idle,
           busy' <=> pending' \/ handler' # Idle,
           ~busy' \/ handler' = "finish" => Clean',
           pending' => ToPress' \/ ToRelease',
           handler' \in {"PRESS", "released"} => ToPress',
           handler' \in {"pressed", "RELEASE"} => ToRelease'
    PROVE  IInv'
<1>1. \A c \in Callers : starting[c].step = Idle /\ starting[c] = NotStarting
  BY DEF IInv, OneActor, StateByActor, Thread
<1>2. OneActor' /\ BusyIsOwned'
  BY <1>1 DEF OneActor, BusyIsOwned, Thread
<1>3. StateByActor'
  BY <1>1 DEF StateByActor, Idle
<1> QED BY <1>2, <1>3 DEF IInv

LEMMA DequeueKeeps ==
    ASSUME IInv, Dequeue
    PROVE  IInv'
<1>1. /\ busy /\ pending /\ handler = Idle /\ (ToPress \/ ToRelease)
      /\ pending' = FALSE /\ handler' = executor.phase
      /\ UNCHANGED <<executor, busy, starting, down>>
  BY DEF Dequeue, IInv, BusyIsOwned, StateByActor
<1>2. TypeOK'
  BY <1>1 DEF IInv, TypeOK
<1>3. executor.phase \in {"PRESS", "RELEASE"}
  BY DEF IInv, TypeOK
<1> QED BY <1>1, <1>2, <1>3, WorkKeeps DEF Idle, ToPress, ToRelease

LEMMA HandlerKeeps ==
    ASSUME IInv, Handler
    PROVE  IInv'
<1>1. handler # Idle /\ ~pending /\ busy
  BY DEF Handler, PressInvalid, PressRaised, PressScheduled, PressNotScheduled, ReleaseRaised,
     ReleaseScheduled, ReleaseNotScheduled, HandlerFinished, IInv, OneActor, BusyIsOwned, Idle
<1>t. TypeOK
  BY DEF IInv
<1>2. CASE PressInvalid \/ ReleaseNotScheduled
  <2>1. /\ ToPress /\ executor' = Zeroed /\ handler' = "finish"
        /\ UNCHANGED <<busy, pending, starting, down>>
    BY <1>2 DEF PressInvalid, ReleaseNotScheduled, Zeroize, IInv, StateByActor
  <2>2. TypeOK' /\ Clean'
    BY <1>t, <2>1, ZeroedTyped DEF TypeOK, Clean, ToPress
  <2> QED BY <1>1, <2>1, <2>2, WorkKeeps DEF Idle
<1>3. CASE PressRaised
  <2>1. ToPress /\ Keycode[Char] \in Keys /\ Keycode[Char] # NoKey
    BY <1>3, KeyAssumption DEF PressRaised, Keys, IInv, StateByActor
  <2>2. TypeOK' /\ ToRelease'
    BY <1>3, <1>t, <2>1 DEF PressRaised, TypeOK, ToPress, ToRelease
  <2> QED BY <1>1, <1>3, <2>2, WorkKeeps DEF PressRaised, Idle
<1>4. CASE PressScheduled
  <2>1. ToRelease
    BY <1>4 DEF PressScheduled, IInv, StateByActor
  <2>2. TypeOK' /\ ToRelease'
    BY <1>4, <1>t, <2>1 DEF PressScheduled, TypeOK, ToRelease
  <2> QED BY <1>1, <1>4, <2>2, WorkKeeps DEF PressScheduled, Idle
<1>5. CASE PressNotScheduled
  <2>1. ToRelease
    BY <1>5 DEF PressNotScheduled, IInv, StateByActor
  <2>2. TypeOK' /\ Clean'
    BY <1>5, <1>t, <2>1, ZeroedTyped
       DEF PressNotScheduled, Zeroize, Raised, TypeOK, Clean, ToRelease, Keys
  <2> QED BY <1>1, <1>5, <2>2, WorkKeeps DEF PressNotScheduled, Zeroize, Idle
<1>6. CASE ReleaseRaised
  <2>1. ToRelease
    BY <1>6 DEF ReleaseRaised, IInv, StateByActor
  <2>2. down' = NoKey /\ NoKey \in Keys
    BY <1>6, <2>1 DEF ReleaseRaised, Raised, ToRelease, Keys
  <2>3. CASE IsLast
    <3>1. executor' = Zeroed /\ handler' = "finish" /\ UNCHANGED <<busy, pending, starting>>
      BY <1>6, <2>3 DEF ReleaseRaised, Zeroize
    <3>2. TypeOK' /\ Clean'
      BY <1>t, <2>2, <3>1, ZeroedTyped DEF TypeOK, Clean
    <3> QED BY <1>1, <3>1, <3>2, WorkKeeps DEF Idle
  <2>4. CASE ~IsLast
    <3>1. /\ executor' = [executor EXCEPT !.index = executor.index + 1, !.phase = "PRESS"]
          /\ handler' = "released" /\ UNCHANGED <<busy, pending, starting>>
      BY <1>6, <2>4 DEF ReleaseRaised
    <3>2. executor.index + 1 < Len(executor.text) /\ executor.index \in Nat
      BY <1>t, <2>4, TextFacts DEF IsLast, TypeOK
    <3>3. /\ executor' \in [text : Texts \cup {<<>>}, index : Nat, encoded : Keys,
                            phase : {"PRESS", "RELEASE"}]
          /\ executor'.text = executor.text /\ executor'.index = executor.index + 1
          /\ executor'.phase = "PRESS"
      <4> DEFINE next == executor.index + 1
      <4>1. next \in Nat /\ executor' = [executor EXCEPT !.index = next, !.phase = "PRESS"]
        BY <3>1, <3>2
      <4> HIDE DEF next
      <4>2. /\ executor' \in [text : Texts \cup {<<>>}, index : Nat, encoded : Keys,
                              phase : {"PRESS", "RELEASE"}]
            /\ executor'.text = executor.text /\ executor'.index = next
            /\ executor'.phase = "PRESS"
        BY <1>t, <4>1 DEF TypeOK
      <4> QED BY <4>2 DEF next
    <3>4. TypeOK' /\ ToPress'
      BY <1>t, <2>1, <2>2, <3>1, <3>2, <3>3 DEF TypeOK, ToPress, ToRelease
    <3> QED BY <1>1, <3>1, <3>4, WorkKeeps DEF Idle
  <2> QED BY <2>3, <2>4
<1>7. CASE ReleaseScheduled
  <2>1. ToPress
    BY <1>7 DEF ReleaseScheduled, IInv, StateByActor
  <2>2. TypeOK' /\ ToPress'
    BY <1>7, <1>t, <2>1 DEF ReleaseScheduled, TypeOK, ToPress
  <2> QED BY <1>1, <1>7, <2>2, WorkKeeps DEF ReleaseScheduled, Idle
<1>8. CASE HandlerFinished
  <2>1. Clean
    BY <1>8 DEF HandlerFinished, IInv, StateByActor
  <2>2. TypeOK' /\ Clean'
    BY <1>8, <1>t, <2>1 DEF HandlerFinished, GiveBack, TypeOK, Clean
  <2> QED BY <1>1, <1>8, <2>2, WorkKeeps DEF HandlerFinished, GiveBack, Idle
<1> QED BY <1>2, <1>3, <1>4, <1>5, <1>6, <1>7, <1>8 DEF Handler

---------------------------------------------------------------------------
LEMMA NextIInv == IInv /\ [Next]_vars => IInv'
<1>1. CASE Next
  BY <1>1, StartKeeps, DequeueKeeps, HandlerKeeps DEF Next
<1>2. CASE UNCHANGED vars
  BY <1>2 DEF vars, IInv, TypeOK, OneActor, BusyIsOwned, StateByActor, Clean, ToPress, ToRelease,
     Thread
<1> QED BY <1>1, <1>2

\* The executor's state always is what its one actor expects.
THEOREM Inductive == Spec => []IInv
BY InitIInv, NextIInv, PTL DEF Spec

\* Every reachable state is typed; in particular the index stays inside the text.
THEOREM TypeCorrect == Spec => []TypeOK
<1>1. IInv => TypeOK
  BY DEF IInv
<1> QED BY <1>1, Inductive, PTL

\* A busy executor has exactly one owner, an idle one is clean.
THEOREM ExecutorHasOneOwner == Spec => []OneOwner
<1>1. ASSUME IInv PROVE OneOwner
  <2> DEFINE starters == {<<"start", c>> : c \in {d \in Callers : starting[d].step # Idle}}
             work == IF pending THEN {<<"work">>} ELSE {}
             running == IF handler # Idle THEN {<<"handler">>} ELSE {}
             owners == starters \cup work \cup running
  <2>1. CASE ~busy
    <3>1. starters = {} /\ work = {} /\ running = {}
      BY <1>1, <2>1 DEF IInv, BusyIsOwned, Thread
    <3>2. executor = Zeroed /\ down = NoKey
      BY <1>1, <2>1 DEF IInv, StateByActor, Clean
    <3> QED BY <2>1, <3>1, <3>2 DEF OneOwner
  <2>2. CASE busy
    <3>1. CASE pending
      <4>1. starters = {} /\ work = {<<"work">>} /\ running = {}
        BY <1>1, <3>1 DEF IInv, OneActor, Thread
      <4>2. owners = {<<"work">>}
        BY <4>1
      <4> QED BY <2>2, <4>2 DEF OneOwner
    <3>2. CASE handler # Idle
      <4>1. starters = {} /\ work = {} /\ running = {<<"handler">>}
        BY <1>1, <3>2 DEF IInv, OneActor, Thread
      <4>2. owners = {<<"handler">>}
        BY <4>1
      <4> QED BY <2>2, <4>2 DEF OneOwner
    <3>3. CASE ~pending /\ handler = Idle
      <4>1. PICK c \in Callers : Thread(c)
        BY <1>1, <2>2, <3>3 DEF IInv, BusyIsOwned
      <4>2. \A d \in Callers : Thread(d) <=> d = c
        BY <1>1, <4>1 DEF IInv, OneActor
      <4>3. starters = {<<"start", c>>} /\ work = {} /\ running = {}
        BY <3>3, <4>2 DEF Thread
      <4>4. owners = {<<"start", c>>}
        BY <4>3
      <4> QED BY <2>2, <4>4 DEF OneOwner
    <3> QED BY <3>1, <3>2, <3>3
  <2> QED BY <2>1, <2>2
<1> QED BY <1>1, Inductive, PTL

\* A key that is down is released by whatever runs next.
THEOREM KeysAreReleased == Spec => []KeyWillBeReleased
<1>1. ASSUME IInv, down # NoKey PROVE ToRelease /\ (pending \/ handler \in {"pressed", "RELEASE"})
  <2>1. busy /\ \A c \in Callers : ~Thread(c)
    BY <1>1 DEF IInv, TypeOK, StateByActor, Clean, ToPress, Thread
  <2>2. pending \/ handler # Idle
    BY <1>1, <2>1 DEF IInv, BusyIsOwned
  <2>3. handler # Idle => handler \in {"pressed", "RELEASE"}
    BY <1>1 DEF IInv, TypeOK, StateByActor, Clean, ToPress
  <2> QED BY <1>1, <2>2, <2>3 DEF IInv, StateByActor, ToPress
<1>2. IInv => KeyWillBeReleased
  BY <1>1 DEF KeyWillBeReleased, ToRelease
<1> QED BY <1>2, Inductive, PTL

---------------------------------------------------------------------------
(* Every step of the executor is a step of Typing, or none. *)

AText == IF Accepted THEN executor.text ELSE <<>>
ADone == IF Accepted THEN executor.index ELSE 0

TypingStep == [Abstract!Next]_(Abstract!vars)

\* What Typing sees of the two kinds of state.
LEMMA Seen ==
    /\ (~Accepted => AText = <<>> /\ ADone = 0)
    /\ (Accepted => AText = executor.text /\ ADone = executor.index)
    /\ (~Accepted' => AText' = <<>> /\ ADone' = 0)
    /\ (Accepted' => AText' = executor'.text /\ ADone' = executor'.index)
BY DEF AText, ADone

LEMMA Stutters ==
    ASSUME AText' = AText, ADone' = ADone, down' = down
    PROVE  TypingStep
BY DEF TypingStep, Abstract!vars, AText, ADone

LEMMA Abandons ==
    ASSUME AText # <<>>, AText' = <<>>, ADone' = 0, down = NoKey, down' = down
    PROVE  TypingStep
<1>1. Abstract!GiveUp
  BY DEF Abstract!GiveUp, AText, ADone
<1> QED BY <1>1 DEF TypingStep, Abstract!Next

LEMMA StartTypes ==
    ASSUME IInv, NEW c \in Callers, Start(c)
    PROVE  TypingStep
<1> USE DEF Idle
<1>1. CASE StartRefused(c)
  BY <1>1, Stutters DEF StartRefused, vars, Accepted, AText, ADone
<1>2. CASE StartScheduled(c)
  <2>1. /\ ~Accepted /\ Accepted' /\ executor.text # <<>> /\ executor.index = 0
        /\ executor' = executor /\ down' = down
    BY <1>2 DEF StartScheduled, Accepted, IInv, OneActor, StateByActor, Thread, ToPress
  <2>2. executor.text \in Texts
    BY <2>1 DEF IInv, TypeOK
  <2>3. Abstract!Accept(executor.text)
    BY <2>1, Seen DEF Abstract!Accept, AText, ADone
  <2> QED BY <2>2, <2>3 DEF TypingStep, Abstract!Next
<1>3. CASE ~StartRefused(c) /\ ~StartScheduled(c)
  <2>1. ~Accepted /\ ~Accepted' /\ down' = down
    BY <1>3 DEF Start, StartGoesOn, StartClaimed, Claim, StartCopied, StartFinishes, StartFinished,
       Accepted, IInv, OneActor, BusyIsOwned, Thread
  <2> QED BY <2>1, Seen, Stutters
<1> QED BY <1>1, <1>2, <1>3

LEMMA DequeueTypes ==
    ASSUME IInv, Dequeue
    PROVE  TypingStep
<1>1. busy /\ executor.phase \in {"PRESS", "RELEASE"}
  BY DEF IInv, TypeOK, Dequeue, BusyIsOwned
<1>2. Accepted /\ Accepted' /\ executor' = executor /\ down' = down
  BY <1>1 DEF Dequeue, Accepted, Idle
<1> QED BY <1>2, Seen, Stutters

LEMMA HandlerTypes ==
    ASSUME IInv, Handler
    PROVE  TypingStep
<1> USE DEF Idle
<1>1. ~pending
  BY DEF Handler, PressInvalid, PressRaised, PressScheduled, PressNotScheduled, ReleaseRaised,
     ReleaseScheduled, ReleaseNotScheduled, HandlerFinished, IInv, OneActor
<1>2. CASE PressInvalid \/ ReleaseNotScheduled
  <2>1. Accepted /\ ~Accepted' /\ ToPress /\ down' = down
    BY <1>1, <1>2 DEF PressInvalid, ReleaseNotScheduled, Accepted, IInv, StateByActor
  <2> QED BY <2>1, Seen, Abandons DEF ToPress
<1>3. CASE PressRaised
  <2>1. /\ Accepted /\ Accepted' /\ ToPress /\ executor.index < Len(executor.text)
        /\ executor'.text = executor.text /\ executor'.index = executor.index
        /\ Char \in DOMAIN Keycode /\ down' = Keycode[Char]
    BY <1>1, <1>3 DEF PressRaised, Accepted, IInv, TypeOK, StateByActor, ToPress
  <2>2. Abstract!Press
    BY <2>1, Seen DEF Abstract!Press, AText, ADone, Char, ToPress
  <2> QED BY <2>2 DEF TypingStep, Abstract!Next
<1>4. CASE PressScheduled \/ ReleaseScheduled
  <2>1. Accepted /\ Accepted' /\ executor' = executor /\ down' = down
    BY <1>4 DEF PressScheduled, ReleaseScheduled, Accepted
  <2> QED BY <2>1, Seen, Stutters
<1>5. ASSUME down # NoKey, down' = NoKey, ~Accepted' PROVE TypingStep
  <2>1. Abstract!Release
    BY <1>5, Seen DEF Abstract!Release, AText, ADone
  <2> QED BY <2>1 DEF TypingStep, Abstract!Next
<1>6. CASE PressNotScheduled
  <2>1. ToRelease /\ ~Accepted'
    BY <1>1, <1>6 DEF PressNotScheduled, Accepted, IInv, StateByActor
  <2> QED BY <1>5, <1>6, <2>1 DEF PressNotScheduled, Raised, ToRelease
<1>7. CASE ReleaseRaised
  <2>1. Accepted /\ ToRelease /\ down # NoKey /\ down' = NoKey
    BY <1>7 DEF ReleaseRaised, Raised, Accepted, IInv, StateByActor, ToRelease
  <2>2. CASE IsLast
    <3>1. ~Accepted'
      BY <1>1, <1>7, <2>2 DEF ReleaseRaised, Accepted
    <3> QED BY <1>5, <2>1, <3>1
  <2>3. CASE ~IsLast
    <3>1. executor.index \in Nat /\ executor.index + 1 < Len(executor.text)
      BY <2>3, TextFacts DEF IsLast, IInv, TypeOK
    <3>2. /\ Accepted' /\ executor'.text = executor.text
          /\ executor'.index = executor.index + 1
      BY <1>7, <2>3 DEF ReleaseRaised, Accepted, IInv, TypeOK
    <3>3. Abstract!Release
      BY <2>1, <3>1, <3>2, Seen DEF Abstract!Release, AText, ADone
    <3> QED BY <3>3 DEF TypingStep, Abstract!Next
  <2> QED BY <2>2, <2>3
<1>8. CASE HandlerFinished
  <2>1. ~Accepted /\ ~Accepted' /\ down' = down
    BY <1>1, <1>8 DEF HandlerFinished, Accepted
  <2> QED BY <2>1, Seen, Stutters
<1> QED BY <1>2, <1>3, <1>4, <1>6, <1>7, <1>8 DEF Handler

\* What is pressed and released is a text accepted, in order, one key at a time.
THEOREM TypingImplemented == Spec => TypesTheText
<1>1. Init => Abstract!Init
  BY DEF Init, Abstract!Init, Accepted, Idle
<1>2. IInv /\ [Next]_vars => TypingStep
  <2>1. CASE Next
    BY <2>1, StartTypes, DequeueTypes, HandlerTypes DEF Next
  <2>2. CASE UNCHANGED vars
    BY <2>2, Stutters DEF vars, Accepted, AText, ADone
  <2> QED BY <2>1, <2>2
<1> QED BY <1>1, <1>2, Inductive, PTL DEF Spec, TypesTheText, Abstract!Spec, TypingStep

=============================================================================
