------------------------------ MODULE MCSlots ------------------------------
\* Slots on a small instance.
EXTENDS Slots, TLC

\* Callers and texts are interchangeable.
CallerTextSymmetry == Permutations(Callers) \cup Permutations(Texts)

=============================================================================
