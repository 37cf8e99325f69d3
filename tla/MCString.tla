------------------------------ MODULE MCString ------------------------------
EXTENDS StringT

MCCode == [c \in {"NUL", "a", "b"} |-> CASE c = "NUL" -> 0 [] c = "a" -> 97 [] OTHER -> 98]

\* Texts on both sides of the inner buffer's three bytes, one with a 0 inside.
MCTexts == {<<>>, <<"b">>, <<"a", "NUL", "b">>, <<"a", "b", "a", "a">>}
=============================================================================
