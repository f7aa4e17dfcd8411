------------------------------- MODULE Typing -------------------------------
(***************************************************************************)
(* What the shared macro executor promises: it types one text at a time,   *)
(* character by character and in order, with one key down at most, and it  *)
(* never gives a text up while a key is down.                              *)
(***************************************************************************)
EXTENDS Naturals, Sequences

CONSTANTS
    Texts,    \* non-empty texts that may be handed to it
    Keycode,  \* the key each typeable character stands for
    NoKey     \* no key is down

VARIABLES
    text,  \* the text being typed, or the empty sequence
    done,  \* how many of its characters have been typed
    key    \* the key that is down, or NoKey

vars == <<text, done, key>>

Init == text = <<>> /\ done = 0 /\ key = NoKey

Accept(t) ==
    /\ text = <<>>
    /\ text' = t
    /\ UNCHANGED <<done, key>>

Press ==
    /\ done < Len(text)
    /\ text[done + 1] \in DOMAIN Keycode
    /\ key = NoKey
    /\ key' = Keycode[text[done + 1]]
    /\ UNCHANGED <<text, done>>

Release ==
    /\ key # NoKey
    /\ key' = NoKey
    /\ \/ done' = done + 1 /\ done' < Len(text) /\ UNCHANGED text
       \/ done' = 0 /\ text' = <<>>

\* Typing stops early: a character that has no key, or nothing to run the next step.
GiveUp ==
    /\ key = NoKey
    /\ text # <<>>
    /\ text' = <<>> /\ done' = 0
    /\ UNCHANGED key

Next == (\E t \in Texts : Accept(t)) \/ Press \/ Release \/ GiveUp

Spec == Init /\ [][Next]_vars

=============================================================================
