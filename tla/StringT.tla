------------------------------- MODULE StringT -------------------------------
(***************************************************************************)
(* The string of src/src/util/string_t.c: a buffer inside the object for a *)
(* short text, a block of the heap for a long one, a size that counts the  *)
(* final 0, and a capacity that is 0 while the inner buffer is used.       *)
(*                                                                         *)
(* A buffer is a function from offsets to cells.  malloc() and the bytes   *)
(* of freed memory give Junk; realloc() keeps what fits.  Every allocation *)
(* may fail.  The assertions are no part of the actions.                   *)
(***************************************************************************)
EXTENDS StringViews

LOCAL INSTANCE SequencesExt

CONSTANTS
    Junk,        \* a byte that nobody has written
    Texts,       \* the texts that callers pass
    SmallBuf,    \* STR_SMALL_BUF_SIZE
    Capacities,  \* the powers of two that 1 << k gives
    MaxLen       \* bound of the model: the longest text, size and capacity asked for

ASSUME StringAssumption ==
    /\ Junk \notin DOMAIN Code
    /\ Texts \subseteq Seq(DOMAIN Code)
    /\ SmallBuf \in Nat \ {0}
    /\ MaxLen \in Nat
    /\ \A t \in Texts : Len(t) <= MaxLen
    /\ Capacities \subseteq Nat
    /\ \A n \in 1 .. MaxLen + 1 :
          \E c \in Capacities : c >= n /\ \A d \in Capacities : d >= n => c <= d

VARIABLES
    small,      \* the inner buffer
    data,       \* what data points to: "small", "heap", "null"; "gone": no object
    heap,       \* the block that data points to
    capacity,   \* its size
    size,       \* length with the final 0; 0 after string_init and string_clear
    blocks,     \* blocks that were allocated and not freed
    call, result,   \* the last call and its result
    failed      \* history: an allocation of the last call has failed

bufVars == <<small, data, heap, capacity, size, blocks>>
strVars == <<bufVars, call, result, failed>>

-----------------------------------------------------------------------------
(* Buffers.                                                                *)

NoBlock == [i \in {} |-> Junk]
Zeros   == [i \in 0 .. SmallBuf - 1 |-> Nul]
Buffer  == IF data = "small" THEN small ELSE heap
Length  == IF size = 0 THEN 0 ELSE size - 1

\* The characters of the string.
Content == [i \in 1 .. (IF data = "gone" THEN 0 ELSE Length) |-> Buffer[i - 1]]

NextCapacity(n) ==
    CHOOSE c \in Capacities : c >= n /\ \A d \in Capacities : d >= n => c <= d

\* Mutant: no final 0.
CopiedBare(b, t, off) ==
    [i \in DOMAIN b \union off .. off + Len(t) |->
        IF i \in off .. off + Len(t) - 1 THEN t[i - off + 1]
        ELSE IF i \in DOMAIN b THEN b[i] ELSE Junk]

\* cpy_sv2str: t and a final 0 from offset off on.
Copied(b, t, off) ==
    [i \in DOMAIN b \union off .. off + Len(t) |->
        IF i \notin off .. off + Len(t) THEN b[i]
        ELSE IF i = off + Len(t) THEN Nul ELSE t[i - off + 1]]

\* memset(data + from, 0, to - from + 1).
Zeroed(b, from, to) ==
    [i \in DOMAIN b \union from .. to |-> IF i \in from .. to THEN Nul ELSE b[i]]

\* The text in a block of c bytes: cpy_smbuf2data copies size bytes of the
\* inner buffer, realloc() what fits of the old block.
Moved(c) ==
    LET kept == IF data = "small" THEN size ELSE capacity
    IN  [i \in 0 .. c - 1 |-> IF i < kept THEN Buffer[i] ELSE Junk]

Owned == IF data = "heap" THEN 1 ELSE 0

\* The buffer that is there is written.
InPlace(b, n) ==
    /\ IF data = "small" THEN small' = b /\ UNCHANGED heap
                         ELSE heap' = b /\ UNCHANGED small
    /\ size' = n /\ failed' = FALSE
    /\ UNCHANGED <<data, capacity, blocks>>

\* malloc() or realloc() has given a block.
InBlock(b, c, n) ==
    /\ data' = "heap" /\ heap' = b /\ capacity' = c /\ size' = n
    /\ blocks' = blocks + 1 - Owned
    /\ failed' = FALSE

\* Mutant: realloc()'s result is assigned before it is tested.
DataLost ==
    /\ data' = "null" /\ heap' = NoBlock /\ capacity' = 0 /\ size' = 0
    /\ blocks' = blocks - Owned
    /\ failed' = TRUE
    /\ UNCHANGED small

NoMemory == failed' = TRUE /\ UNCHANGED bufVars

Return(r, op, t, n, len) ==
    /\ result' = r
    /\ call' = [op |-> op, arg |-> t, n |-> n, len |-> len]

\* Mutant: the inner buffer is freed too.
FreedAlways ==
    /\ data' = "small" /\ heap' = NoBlock /\ capacity' = 0 /\ size' = 0
    /\ blocks' = blocks - 1
    /\ failed' = FALSE
    /\ UNCHANGED small

\* Mutant: the block is not given back.
Forgotten ==
    /\ data' = "small" /\ heap' = NoBlock /\ capacity' = 0 /\ size' = 0
    /\ failed' = FALSE
    /\ UNCHANGED <<small, blocks>>

\* string_clear, which leaves the inner buffer as it is.
Cleared ==
    /\ data' = "small" /\ heap' = NoBlock /\ capacity' = 0 /\ size' = 0
    /\ blocks' = blocks - Owned
    /\ failed' = FALSE
    /\ UNCHANGED small

\* string_init_from_string_view, after what the object owned is gone.
Made(t) ==
    IF Len(t) < SmallBuf
    THEN /\ data' = "small" /\ small' = Copied(Zeros, t, 0) /\ size' = Len(t) + 1
         /\ heap' = NoBlock /\ capacity' = 0
         /\ blocks' = blocks - Owned /\ failed' = FALSE
    ELSE /\ small' = Zeros
         /\ \/ LET c == NextCapacity(Len(t) + 1)
               IN  /\ data' = "heap" /\ capacity' = c /\ size' = Len(t) + 1
                   /\ heap' = Copied([i \in 0 .. c - 1 |-> Junk], t, 0)
                   /\ blocks' = blocks - Owned + 1 /\ failed' = FALSE
            \/ /\ data' = "null" /\ heap' = NoBlock /\ capacity' = 0 /\ size' = 0
               /\ blocks' = blocks - Owned /\ failed' = TRUE

-----------------------------------------------------------------------------
(* The operations.                                                         *)

Init ==
    /\ small = Zeros /\ data = "gone" /\ heap = NoBlock
    /\ capacity = 0 /\ size = 0 /\ blocks = 0
    /\ call = [op |-> "none", arg |-> <<>>, n |-> 0, len |-> 0]
    /\ result = TRUE /\ failed = FALSE

Exists == data # "gone"

\* string_init, string_init_from_cstr and _from_string_view of a null pointer.
StringInit ==
    /\ ~Exists
    /\ small' = Zeros /\ data' = "small" /\ heap' = NoBlock
    /\ capacity' = 0 /\ size' = 0 /\ failed' = FALSE
    /\ Return(TRUE, "init", <<>>, 0, 0)
    /\ UNCHANGED blocks

\* string_init_from_cstr, _from_parts, _from_string_view.
InitFrom(t) == ~Exists /\ Made(t) /\ Return(~failed', "init", t, 0, 0)

\* string_init_from_parts with a null pointer and a length.
InitRefused ==
    /\ ~Exists
    /\ failed' = FALSE
    /\ Return(FALSE, "refused", <<>>, 0, 0)
    /\ UNCHANGED bufVars

Destroy ==
    /\ Exists
    /\ data' = "gone" /\ heap' = NoBlock /\ capacity' = 0 /\ size' = 0
    /\ blocks' = blocks - Owned /\ failed' = FALSE
    /\ Return(TRUE, "destroy", <<>>, 0, 0)
    /\ UNCHANGED small

\* string_take_ownership, with a block of len + 1 bytes as configure.c passes
\* it.  What the object owned before is not freed.
TakeOwnership(t) ==
    /\ blocks - Owned < 1
    /\ data' = "heap" /\ size' = Len(t) + 1 /\ capacity' = Len(t) + 1
    /\ heap' = Copied(NoBlock, t, 0)
    /\ blocks' = blocks + 1 /\ failed' = FALSE
    /\ Return(TRUE, "take", t, 0, 0)
    /\ UNCHANGED small

Reserve(n) ==
    /\ Exists
    /\ IF n <= size \/ capacity >= n
       THEN UNCHANGED bufVars /\ failed' = FALSE
       ELSE \/ InBlock(Moved(NextCapacity(n)), NextCapacity(n), size) /\ UNCHANGED small
            \/ NoMemory
    /\ Return(n > size /\ ~failed', "reserve", <<>>, n, 0)

\* The texts that fit into the buffer that is there.
Room == IF data = "small" THEN SmallBuf ELSE capacity

\* Mutant: the test lets the final 0 fall behind the buffer.
FitsOneMore(n) == n <= Room

Fits(n) == n < Room

\* Mutant: only the new final 0 is written.
EndOnly(b, n) == Zeroed(b, n, n)

\* The bytes of string_resize from the old end to the new.
Lengthened(b, n) == Zeroed(b, size, n)

\* string_resize: shorter, longer in place, longer in a new block.
Resize(n) ==
    /\ Exists
    /\ IF n = 0 THEN Cleared
       ELSE IF n < size THEN InPlace([Buffer EXCEPT ![n] = Nul], n + 1)
       ELSE IF Fits(n) THEN InPlace(Lengthened(Buffer, n), n + 1)
       ELSE LET c == NextCapacity(n + 1)
            IN  \/ InBlock(Lengthened(Moved(c), n), c, n + 1) /\ UNCHANGED small
                \/ NoMemory
    /\ Return(~failed', "resize", <<>>, n, 0)

\* string_assign_view, string_assign.  A block that has to grow is not written
\* but for the final 0.
Assign(t) ==
    /\ Exists
    /\ LET c == NextCapacity(Len(t) + 1)
       IN  IF Fits(Len(t)) THEN InPlace(Copied(Buffer, t, 0), Len(t) + 1)
           ELSE \/ /\ data = "small"
                   /\ InBlock(Copied([i \in 0 .. c - 1 |-> Junk], t, 0), c, Len(t) + 1)
                   /\ small' = Zeros
                \/ /\ data # "small"
                   /\ InBlock([Moved(c) EXCEPT ![Len(t)] = Nul], c, Len(t) + 1)
                   /\ UNCHANGED small
                \/ NoMemory
    /\ Return(~failed', "assign", t, 0, 0)

\* string_assign with a null pointer.
AssignNull == Exists /\ Cleared /\ Return(TRUE, "assign", <<>>, 0, 0)

\* Mutant: a text that fits is written behind the old one.
AppendedInPlace(t) ==
    /\ Exists /\ Length + Len(t) <= MaxLen
    /\ LET c == NextCapacity(Length + Len(t) + 1)
       IN  IF Fits(Length + Len(t)) THEN InPlace(Copied(Buffer, t, Length), Length + Len(t) + 1)
           ELSE \/ InBlock(Copied(Moved(c), t, Length), c, Length + Len(t) + 1) /\ UNCHANGED small
                \/ NoMemory

\* string_append_view: always into a new block, or the old one made to measure.
Appended(t) ==
    /\ Exists /\ Length + Len(t) <= MaxLen
    /\ LET c == NextCapacity(Length + Len(t) + 1)
       IN  \/ InBlock(Copied(Moved(c), t, Length), c, Length + Len(t) + 1) /\ UNCHANGED small
           \/ NoMemory

\* string_append, _append_cstr, _append_parts, _append_view.
AppendText(t) == Appended(t) /\ Return(~failed', "append", t, 0, 0)

\* string_append_cstr with a null pointer, string_append_parts with a length
\* as well.
AppendRefused ==
    /\ Exists
    /\ failed' = FALSE
    /\ Return(FALSE, "refused", <<>>, 0, 0)
    /\ UNCHANGED bufVars

\* string_append_string with the string itself: if realloc() moves the block,
\* the view of it is read from freed memory.
AppendSelf ==
    /\ \/ Appended(Content)
       \/ data = "heap" /\ Appended([i \in 1 .. Length |-> Junk])
    /\ Return(~failed', "append_self", <<>>, 0, 0)

\* string_push_back drops the result of the append.
PushBack(ch) == Appended(<<ch>>) /\ Return(TRUE, "append", <<ch>>, 0, 0)

Clear == Exists /\ Cleared /\ Return(TRUE, "clear", <<>>, 0, 0)

\* string_substr of another string: its part is t.
Substr(t) == Exists /\ Made(t) /\ Return(~failed', "substr", t, 0, 0)

\* string_substr of the string into itself: string_clear frees the block that
\* the view points into, string_init zeroes the inner buffer.
SubstrSelf(pos, len) ==
    /\ Exists
    /\ LET lost == IF data = "small" THEN Nul ELSE Junk
       IN  Made([i \in 1 .. Len(Subview(Content, pos, len)) |-> lost])
    /\ Return(~failed', "substr_self", <<>>, pos, len)

Next ==
    \/ StringInit \/ InitRefused \/ Destroy \/ AssignNull \/ AppendRefused
    \/ AppendSelf \/ Clear
    \/ \E t \in Texts : \/ InitFrom(t) \/ TakeOwnership(t) \/ Assign(t)
                        \/ AppendText(t) \/ Substr(t)
    \/ \E n \in 0 .. MaxLen : Reserve(n) \/ Resize(n)
    \/ \E ch \in DOMAIN Code : PushBack(ch)
    \/ \E pos \in 0 .. MaxLen, len \in 0 .. MaxLen : SubstrSelf(pos, len)

Spec == Init /\ [][Next]_strVars

-----------------------------------------------------------------------------
(* Properties.                                                             *)

Cells == DOMAIN Code \union {Junk}

\* The type invariant.
TypeOK ==
    /\ data \in {"small", "heap", "null", "gone"}
    /\ capacity \in Nat /\ size \in Nat /\ blocks \in Nat
    /\ \A i \in DOMAIN small : small[i] \in Cells
    /\ \A i \in DOMAIN heap : heap[i] \in Cells
    /\ result \in BOOLEAN /\ failed \in BOOLEAN

\* No write has left the buffer it went to, whatever the sizes were: the inner
\* buffer has its length and the block the capacity that the string remembers,
\* and the text with its final 0 lies inside the one that data points to.  The
\* capacity is 0 exactly when there is no block (the assertions of use_sbuf
\* and cpy_smbuf2data).
BufferFits ==
    /\ DOMAIN small = 0 .. SmallBuf - 1
    /\ DOMAIN heap = 0 .. capacity - 1
    /\ data = "heap" <=> capacity > 0
    /\ data = "small" => size <= SmallBuf
    /\ data = "heap" => size <= capacity
    /\ data = "null" => size = 0

\* A text ends with its 0, so that string_cstr can be given to the C library.
\* string_clear and string_reserve leave size 0 and no 0: then the bytes at
\* data are whatever the buffer held.
Terminated == Exists /\ size > 0 => Buffer[size - 1] = Nul

\* The object owns one block at most: each block that is allocated is freed or
\* still its own, save one that string_take_ownership replaces.
OneBlock ==
    [][\/ blocks' - Owned' = blocks - Owned
       \/ call'.op = "take" /\ data = "heap"]_strVars

\* string_assign_view into a block that is too small: the length alone is right.
GrowLoses ==
    /\ call'.op = "assign" /\ result'
    /\ data \in {"heap", "null"} /\ Len(call'.arg) >= capacity
    /\ Len(Content') = Len(call'.arg)

\* string_push_back without memory.
PushLoses ==
    /\ call'.op = "append" /\ Len(call'.arg) = 1 /\ failed'
    /\ Content' = Content

\* A string that is appended to itself, or cut out of itself: the characters
\* that come through the view of the old buffer are lost, those before stay.
SelfLoses ==
    \/ /\ call'.op = "append_self" /\ data = "heap"
       /\ Len(Content') = 2 * Length
       /\ SubSeq(Content', 1, Length) = Content
    \/ /\ call'.op = "substr_self"
       /\ Len(Content') = Len(Subview(Content, call'.n, call'.len))

\* Every operation does to the text what it does to a sequence, save in the
\* three cases above.
Str == INSTANCE StringSpec WITH text <- Content

ImplementsString ==
    Str!Init /\ [][Str!Next \/ GrowLoses \/ PushLoses \/ SelfLoses]_<<Content, call, result>>

\* An operation fails only if an allocation has, or its arguments are invalid;
\* whatever fails has left the text and its buffer alone, save the two that
\* begin by giving up the old text.
FailsForCause ==
    [][~result' => /\ \/ failed' \/ call'.op = "refused"
                      \/ call'.op = "reserve" /\ call'.n <= size
                   /\ call'.op \in {"init", "substr", "substr_self"} \/ UNCHANGED bufVars]_strVars

UpToNul(s) == SelectInSeq(s, LAMBDA c : c = Nul)

Clean(s) == \A i \in DOMAIN s : s[i] # Junk

\* The path table takes its hash and its equality from here: texts are equal
\* for string_view_equal if and only if they are the same, and then have the
\* same hash, unless both contain a 0 before they differ.
EqualIsSame ==
    Clean(Content) => \A t \in Texts :
        /\ Compare(Content, t) = 0 /\ Content # t =>
              UpToNul(t) # 0 /\ UpToNul(t) = UpToNul(Content)
        /\ Content = t => Compare(Content, t) = 0 /\ Hash(Content) = Hash(t)
        /\ Compare(Content, t) > 0 <=> Compare(t, Content) < 0
=============================================================================
