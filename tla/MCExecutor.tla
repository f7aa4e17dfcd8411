----------------------------- MODULE MCExecutor -----------------------------
\* Executor on a small instance: two characters with keys, and one byte without.
EXTENDS Executor

MCChars == {"a", "b", "?"}

MCTexts == {<<>>, <<"a">>, <<"?">>, <<"a", "b">>, <<"b", "b", "a">>, <<"a", "?">>, <<"b", "?", "a">>}

MCKeycode == [char \in {"a", "b"} |-> IF char = "a" THEN "A key" ELSE "B key"]

=============================================================================
