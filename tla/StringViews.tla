----------------------------- MODULE StringViews -----------------------------
(***************************************************************************)
(* The functions of src/src/util/string_t.c that only read a text: a view  *)
(* is a sequence of characters.                                            *)
(***************************************************************************)
EXTENDS Integers, Sequences

LOCAL INSTANCE SequencesExt

CONSTANTS
    Nul,        \* the character 0
    Code,       \* [character -> the char it is], another for each character
    HashMod     \* 2^64: the width of size_t

ASSUME ViewAssumption ==
    /\ Nul \in DOMAIN Code /\ Code[Nul] = 0
    /\ \A c, d \in DOMAIN Code : Code[c] \in Int /\ (Code[c] = Code[d] => c = d)
    /\ HashMod \in Nat \ {0}

\* string_view_substr.
Subview(s, pos, len) ==
    IF pos >= Len(s) THEN <<>>
    ELSE SubSeq(s, pos + 1, IF len < Len(s) - pos THEN pos + len ELSE Len(s))

\* strncmp() over the shorter length stops at the first difference, and at the
\* first 0.
Differ(l, r, i) ==
    /\ i <= Len(l) /\ i <= Len(r)
    /\ l[i] # r[i]
    /\ \A j \in 1 .. i - 1 : l[j] = r[j] /\ l[j] # Nul

\* Mutant: the lengths are not looked at.
CompareShort(l, r) ==
    LET at == {i \in 1 .. Len(l) : Differ(l, r, i)}
    IN  IF at = {} THEN 0
        ELSE LET i == CHOOSE i \in at : TRUE IN Code[l[i]] - Code[r[i]]

\* string_view_compare: the sign of its result orders the texts.
Compare(l, r) ==
    LET at == {i \in 1 .. Len(l) : Differ(l, r, i)}
    IN  IF at = {} THEN Len(l) - Len(r)
        ELSE LET i == CHOOSE i \in at : TRUE IN Code[l[i]] - Code[r[i]]

\* string_view_hash: (hash << 5) + hash + c in a size_t.
Hash(s) == FoldLeft(LAMBDA h, c : (h * 33 + Code[c]) % HashMod, 5381 % HashMod, s)
=============================================================================
