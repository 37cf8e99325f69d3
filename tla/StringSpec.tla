----------------------------- MODULE StringSpec -----------------------------
(***************************************************************************)
(* What a string_t promises: it is a sequence of characters, each call     *)
(* does to it what the same operation does to a sequence, and a call that  *)
(* reports a failure leaves it alone.  No buffer, size or capacity.        *)
(***************************************************************************)
EXTENDS Integers, Sequences

CONSTANT Nul    \* the character 0

VARIABLES
    text,       \* the characters of the string; none before it is initialised
    call,       \* the last call: its operation, a text and two numbers
    result      \* what it returned

Init == text = <<>> /\ result = TRUE

\* The part of s from offset pos on, at most len characters of it.
Part(s, pos, len) == SubSeq(s, pos + 1, IF len < Len(s) - pos THEN pos + len ELSE Len(s))

After(c, s) ==
    CASE c.op = "resize"      -> [i \in 1..c.n |-> IF i <= Len(s) THEN s[i] ELSE Nul]
      [] c.op = "append"      -> s \o c.arg
      [] c.op = "append_self" -> s \o s
      [] c.op = "substr_self" -> Part(s, c.n, c.len)
      [] c.op = "reserve"     -> s
      [] OTHER                -> c.arg

\* A string_substr that fails has emptied its target.
AfterFailure(c, s) == IF c.op \in {"substr", "substr_self"} THEN <<>> ELSE s

Next == text' = IF result' THEN After(call', text) ELSE AfterFailure(call', text)

Spec == Init /\ [][Next]_<<text, call, result>>
=============================================================================
