--------------------------- MODULE StringTProofs ---------------------------
(***************************************************************************)
(* What holds of a string_t for every set of texts, every size of the      *)
(* inner buffer and every sequence of its operations: no write leaves the  *)
(* buffer, a text ends with its 0, and no block is lost.                   *)
(***************************************************************************)
EXTENDS StringT, LeastNumbers, SequenceTheorems, TLAPS

LOCAL INSTANCE SequencesExt

-----------------------------------------------------------------------------
(* The invariant.                                                          *)

\* The two buffers as functions, and what the fields say of each other.
BufInv ==
    /\ data \in {"small", "heap", "null", "gone"}
    /\ small \in [0 .. SmallBuf - 1 -> Cells]
    /\ capacity \in Nat /\ heap \in [0 .. capacity - 1 -> Cells]
    /\ data = "heap" <=> capacity > 0
    /\ size \in Nat /\ size <= MaxLen + 1
    /\ data = "small" => size <= SmallBuf
    /\ data = "heap" => size <= capacity
    /\ data \in {"null", "gone"} => size = 0
    /\ size > 0 => Buffer[size - 1] = Nul
    /\ blocks \in Nat /\ Owned <= blocks

StrInv == BufInv /\ result \in BOOLEAN /\ failed \in BOOLEAN

-----------------------------------------------------------------------------
(* The helpers.                                                            *)

LEMMA NulIsCell == Nul \in Cells /\ Junk \in Cells
  BY ViewAssumption DEF Cells

\* 1 << k is large enough.
LEMMA CapacityFits ==
    ASSUME NEW n \in 1 .. MaxLen + 1
    PROVE  NextCapacity(n) \in Nat /\ NextCapacity(n) >= n
  <1>1. \E c \in Capacities : c >= n /\ \A d \in Capacities : d >= n => c <= d
    BY StringAssumption
  <1>2. NextCapacity(n) \in Capacities /\ NextCapacity(n) >= n
    BY <1>1 DEF NextCapacity
  <1>q. QED BY <1>2, StringAssumption

\* The texts of callers.
LEMMA TextOK ==
    ASSUME NEW t \in Texts
    PROVE  t \in Seq(Cells) /\ Len(t) \in 0 .. MaxLen
  BY StringAssumption DEF Cells

\* cpy_sv2str writes inside a buffer that is longer than what it copies.
LEMMA CopiedFits ==
    ASSUME NEW c \in Nat, NEW b \in [0 .. c - 1 -> Cells], NEW t \in Seq(Cells), NEW off \in Nat,
           off + Len(t) < c
    PROVE  /\ Copied(b, t, off) \in [0 .. c - 1 -> Cells]
           /\ Copied(b, t, off)[off + Len(t)] = Nul
  <1>1. DOMAIN b \union off .. off + Len(t) = 0 .. c - 1
    OBVIOUS
  <1>2. \A i \in off .. off + Len(t) : i # off + Len(t) => t[i - off + 1] \in Cells
    OBVIOUS
  <1>q. QED BY <1>1, <1>2, NulIsCell DEF Copied

\* The same into a new block.
LEMMA CopiedAnew ==
    ASSUME NEW c \in Nat, NEW t \in Seq(Cells), Len(t) < c
    PROVE  /\ Copied([i \in 0 .. c - 1 |-> Junk], t, 0) \in [0 .. c - 1 -> Cells]
           /\ Copied([i \in 0 .. c - 1 |-> Junk], t, 0)[Len(t)] = Nul
  <1> DEFINE b == [i \in 0 .. c - 1 |-> Junk]
  <1>1. b \in [0 .. c - 1 -> Cells]
    BY NulIsCell
  <1>2. 0 \in Nat /\ 0 + Len(t) = Len(t) /\ 0 + Len(t) < c
    OBVIOUS
  <1> HIDE DEF b
  <1>3. /\ Copied(b, t, 0) \in [0 .. c - 1 -> Cells]
        /\ Copied(b, t, 0)[0 + Len(t)] = Nul
    BY <1>1, <1>2, CopiedFits
  <1>4. Copied(b, t, 0)[Len(t)] = Nul
    BY <1>2, <1>3
  <1>q. QED BY <1>3, <1>4 DEF b

LEMMA ZeroedFits ==
    ASSUME NEW c \in Nat, NEW b \in [0 .. c - 1 -> Cells], NEW from \in Nat, NEW to \in Nat,
           from <= to, to < c
    PROVE  Zeroed(b, from, to) \in [0 .. c - 1 -> Cells] /\ Zeroed(b, from, to)[to] = Nul
  <1>1. DOMAIN b \union from .. to = 0 .. c - 1
    OBVIOUS
  <1>q. QED BY <1>1, NulIsCell DEF Zeroed

\* A new block holds the text as far as it reaches.
LEMMA MovedFits ==
    ASSUME BufInv, Exists, NEW c \in Nat
    PROVE  /\ Moved(c) \in [0 .. c - 1 -> Cells]
           /\ \A i \in 0 .. c - 1 : i < size => Moved(c)[i] = Buffer[i]
  <1>1. CASE data = "small"
    BY <1>1, NulIsCell, StringAssumption DEF BufInv, Moved, Buffer
  <1>2. CASE data \in {"heap", "null"}
    BY <1>2, NulIsCell DEF BufInv, Moved, Buffer
  <1>q. QED BY <1>1, <1>2 DEF BufInv, Exists

\* The buffer that is there.
LEMMA BufferIs ==
    ASSUME BufInv, data \in {"small", "heap"}
    PROVE  Buffer \in [0 .. Room - 1 -> Cells] /\ size <= Room /\ Room \in Nat
  BY StringAssumption DEF BufInv, Buffer, Room

\* An object without a text.
LEMMA EmptyKeeps ==
    ASSUME data' \in {"small", "gone"}, size' = 0, capacity' = 0, heap' = NoBlock,
           small' \in [0 .. SmallBuf - 1 -> Cells], blocks' \in Nat, Owned' <= blocks'
    PROVE  BufInv'
  <1>1. heap' \in [0 .. capacity' - 1 -> Cells]
    BY DEF NoBlock
  <1>q. QED BY <1>1, StringAssumption DEF BufInv

\* A buffer that is written in place.
LEMMA InPlaceKeeps ==
    ASSUME BufInv, data \in {"small", "heap"}, NEW b \in [0 .. Room - 1 -> Cells],
           NEW n \in 1 .. Room, n <= MaxLen + 1, b[n - 1] = Nul, InPlace(b, n)
    PROVE  BufInv' /\ failed' = FALSE
  <1>1. CASE data = "small"
    BY <1>1, StringAssumption DEF BufInv, InPlace, Room, Buffer, Owned
  <1>2. CASE data = "heap"
    BY <1>2 DEF BufInv, InPlace, Room, Buffer, Owned
  <1>q. QED BY <1>1, <1>2

\* A buffer that has been moved into a block.
LEMMA InBlockKeeps ==
    ASSUME BufInv, Exists, NEW c \in Nat, NEW b \in [0 .. c - 1 -> Cells], NEW n \in 0 .. c, c > 0,
           n <= MaxLen + 1, n > 0 => b[n - 1] = Nul, InBlock(b, c, n), small' \in {small, Zeros}
    PROVE  BufInv' /\ failed' = FALSE
  BY NulIsCell DEF BufInv, InBlock, Buffer, Owned, Zeros

LEMMA ClearedKeeps ==
    ASSUME BufInv, Cleared
    PROVE  BufInv' /\ failed' = FALSE
  BY StringAssumption DEF BufInv, Cleared, NoBlock, Owned, Buffer

LEMMA UnchangedKeeps ==
    ASSUME BufInv, UNCHANGED bufVars
    PROVE  BufInv'
  BY DEF BufInv, bufVars, Buffer, Owned

\* The text of the string, whatever its buffer.
LEMMA ContentIs ==
    ASSUME BufInv
    PROVE  /\ Length \in Nat /\ Length <= MaxLen /\ (size > 0 => Length = size - 1)
           /\ Exists => Content \in Seq(Cells) /\ Len(Content) = Length
  <1>1. /\ size \in Nat /\ Length \in Nat
        /\ (size > 0 => Length = size - 1) /\ (size = 0 => Length = 0) /\ Length <= MaxLen
    BY StringAssumption DEF BufInv, Length
  <1>2. ASSUME Exists, NEW i \in 1 .. Length PROVE Buffer[i - 1] \in Cells
    <2>1. size > 0 /\ i - 1 \in 0 .. size - 1
      BY <1>1, <1>2
    <2>2. data \in {"small", "heap"}
      BY <1>2, <2>1 DEF BufInv, Exists
    <2>3. Buffer \in [0 .. Room - 1 -> Cells] /\ size <= Room /\ Room \in Nat
      BY <2>2, BufferIs
    <2>q. QED BY <1>1, <2>1, <2>3
  <1>3. ASSUME Exists PROVE Content \in [1 .. Length -> Cells]
    BY <1>2, <1>3 DEF Content, Exists
  <1>q. QED BY <1>1, <1>3

\* The string made of a text.
LEMMA MadeKeeps ==
    ASSUME BufInv, NEW t \in Seq(Cells), Len(t) <= MaxLen, Made(t)
    PROVE  BufInv' /\ failed' \in BOOLEAN
  <1>z. Zeros \in [0 .. SmallBuf - 1 -> Cells] /\ SmallBuf \in Nat /\ MaxLen \in Nat
    BY NulIsCell, StringAssumption DEF Zeros
  <1>o. blocks - Owned \in Nat /\ Len(t) \in Nat /\ (Len(t) + 1) - 1 = Len(t)
    BY DEF BufInv, Owned
  <1>1. CASE Len(t) < SmallBuf
    <2>1. /\ Copied(Zeros, t, 0) \in [0 .. SmallBuf - 1 -> Cells]
          /\ Copied(Zeros, t, 0)[Len(t)] = Nul
      BY <1>1, <1>z, CopiedFits
    <2>2. /\ data' = "small" /\ small' = Copied(Zeros, t, 0) /\ size' = Len(t) + 1
          /\ heap' = NoBlock /\ capacity' = 0
          /\ blocks' = blocks - Owned /\ failed' = FALSE
      BY <1>1 DEF Made
    <2>3. Buffer'[size' - 1] = Nul
      BY <1>o, <2>1, <2>2 DEF Buffer
    <2>4. heap' \in [0 .. capacity' - 1 -> Cells] /\ capacity' \in Nat /\ ~(capacity' > 0)
      BY <2>2 DEF NoBlock
    <2>5. blocks' \in Nat /\ Owned' <= blocks'
      BY <1>o, <2>2 DEF Owned
    <2>6. small' \in [0 .. SmallBuf - 1 -> Cells] /\ size' \in Nat /\ size' <= SmallBuf
          /\ size' <= MaxLen + 1
      BY <1>1, <1>o, <1>z, <2>1, <2>2
    <2>q. QED BY <2>2, <2>3, <2>4, <2>5, <2>6 DEF BufInv
  <1>2. CASE ~(Len(t) < SmallBuf)
    <2> DEFINE c == NextCapacity(Len(t) + 1)
               b == Copied([i \in 0 .. c - 1 |-> Junk], t, 0)
    <2>1. c \in Nat /\ c > Len(t)
      BY <1>z, CapacityFits
    <2>2. b \in [0 .. c - 1 -> Cells] /\ b[Len(t)] = Nul
      <3> HIDE DEF c
      <3>q. QED BY <2>1, CopiedAnew
    <2>3. CASE /\ small' = Zeros /\ data' = "heap" /\ capacity' = c /\ size' = Len(t) + 1
               /\ heap' = b /\ blocks' = blocks - Owned + 1 /\ failed' = FALSE
      <3> HIDE DEF c, b
      <3>1. Buffer'[size' - 1] = Nul
        BY <1>o, <2>2, <2>3 DEF Buffer
      <3>2. blocks' \in Nat /\ Owned' <= blocks'
        BY <1>o, <2>3 DEF Owned
      <3>3. heap' \in [0 .. capacity' - 1 -> Cells] /\ capacity' \in Nat /\ size' <= capacity'
            /\ size' \in Nat /\ capacity' > 0 /\ size' <= MaxLen + 1
        BY <1>o, <1>z, <2>1, <2>2, <2>3
      <3>q. QED BY <1>z, <2>3, <3>1, <3>2, <3>3 DEF BufInv
    <2>4. CASE /\ small' = Zeros /\ data' = "null" /\ heap' = NoBlock /\ capacity' = 0 /\ size' = 0
               /\ blocks' = blocks - Owned /\ failed' = TRUE
      BY <1>o, <1>z, <2>4 DEF BufInv, Buffer, NoBlock, Owned
    <2>q. QED BY <1>2, <2>3, <2>4 DEF Made
  <1>q. QED BY <1>1, <1>2

\* The string that a text is appended to.
LEMMA AppendedKeeps ==
    ASSUME BufInv, NEW t \in Seq(Cells), Appended(t)
    PROVE  BufInv' /\ failed' \in BOOLEAN
  <1> DEFINE c == NextCapacity(Length + Len(t) + 1)
             b == Copied(Moved(c), t, Length)
  <1>1. Length \in Nat /\ Exists /\ c \in Nat /\ c > Length + Len(t)
    BY ContentIs, CapacityFits, StringAssumption DEF Appended
  <1>2. b \in [0 .. c - 1 -> Cells] /\ b[Length + Len(t)] = Nul
    BY <1>1, MovedFits, CopiedFits
  <1>3. CASE InBlock(b, c, Length + Len(t) + 1) /\ UNCHANGED small
    <2> HIDE DEF b, c
    <2> DEFINE n == Length + Len(t) + 1
    <2>1. n <= MaxLen + 1 /\ n \in 0 .. c /\ n - 1 = Length + Len(t) /\ c > 0 /\ c \in Nat
      BY <1>1, StringAssumption DEF Appended
    <2>2. InBlock(b, c, n)
      BY <1>3
    <2> HIDE DEF n
    <2>q. QED BY <1>1, <1>2, <1>3, <2>1, <2>2, InBlockKeeps
  <1>4. CASE NoMemory
    BY <1>4, UnchangedKeeps DEF NoMemory
  <1>q. QED BY <1>3, <1>4 DEF Appended

-----------------------------------------------------------------------------
(* The operations.                                                         *)

LEMMA StrInvInit == Init => StrInv
  <1> SUFFICES ASSUME Init PROVE StrInv
    OBVIOUS
  <1>1. Zeros \in [0 .. SmallBuf - 1 -> Cells]
    BY NulIsCell DEF Zeros
  <1>2. NoBlock \in [0 .. 0 - 1 -> Cells]
    BY DEF NoBlock
  <1>3. Owned = 0
    BY DEF Init, Owned
  <1>4. /\ small = Zeros /\ data = "gone" /\ heap = NoBlock /\ capacity = 0 /\ size = 0
        /\ blocks = 0 /\ result = TRUE /\ failed = FALSE
    BY DEF Init
  <1>5. heap \in [0 .. capacity - 1 -> Cells] /\ capacity \in Nat /\ ~(capacity > 0)
    BY <1>2, <1>4
  <1>6. small \in [0 .. SmallBuf - 1 -> Cells]
    BY <1>1, <1>4
  <1>7. data = "gone" /\ size = 0 /\ blocks = 0
    BY <1>4
  <1>8. BufInv
    BY <1>3, <1>5, <1>6, <1>7, StringAssumption DEF BufInv
  <1>q. QED BY <1>4, <1>8 DEF StrInv

LEMMA ReserveKeeps ==
    ASSUME BufInv, NEW n \in 0 .. MaxLen, Reserve(n)
    PROVE  BufInv' /\ failed' \in BOOLEAN
  <1> DEFINE c == NextCapacity(n)
  <1>1. CASE UNCHANGED bufVars /\ failed' \in BOOLEAN
    BY <1>1, UnchangedKeeps
  <1>2. CASE n > size /\ InBlock(Moved(c), c, size) /\ UNCHANGED small
    <2>1. c \in Nat /\ c >= n /\ size \in Nat
      BY <1>2, CapacityFits, StringAssumption DEF BufInv
    <2>2. Moved(c) \in [0 .. c - 1 -> Cells] /\ \A i \in 0 .. c - 1 : i < size => Moved(c)[i] = Buffer[i]
      BY <2>1, MovedFits DEF Reserve
    <2>3. size > 0 => Moved(c)[size - 1] = Nul
      BY <1>2, <2>1, <2>2 DEF BufInv
    <2>4. Exists /\ c > 0 /\ size \in 0 .. c /\ size <= MaxLen + 1
      BY <1>2, <2>1 DEF Reserve, BufInv
    <2>5. InBlock(Moved(c), c, size) /\ UNCHANGED small
      BY <1>2
    <2> DEFINE b == Moved(c)
    <2> HIDE DEF b, c
    <2>q. QED BY <2>1, <2>2, <2>3, <2>4, <2>5, InBlockKeeps DEF b
  <1>3. n \in Int /\ size \in Int
    BY StringAssumption DEF BufInv
  <1>4. CASE n <= size \/ capacity >= n
    BY <1>1, <1>4 DEF Reserve
  <1>5. CASE ~(n <= size \/ capacity >= n)
    <2>1. (InBlock(Moved(c), c, size) /\ UNCHANGED small) \/ NoMemory
      BY <1>5 DEF Reserve
    <2>2. n > size
      BY <1>3, <1>5
    <2> HIDE DEF c
    <2>q. QED BY <1>1, <1>2, <2>1, <2>2 DEF NoMemory
  <1>q. QED BY <1>4, <1>5

LEMMA ResizeKeeps ==
    ASSUME BufInv, NEW n \in 0 .. MaxLen, Resize(n)
    PROVE  BufInv' /\ failed' \in BOOLEAN
  <1> DEFINE c == NextCapacity(n + 1)
  <1>e. Exists /\ size \in Nat /\ n \in Nat /\ n + 1 <= MaxLen + 1
    BY StringAssumption DEF Resize, BufInv
  <1>1. CASE Cleared
    BY <1>1, ClearedKeeps
  <1>2. CASE n # 0 /\ n < size /\ InPlace([Buffer EXCEPT ![n] = Nul], n + 1)
    <2>1. data \in {"small", "heap"}
      BY <1>2, <1>e DEF BufInv, Exists
    <2>2. Buffer \in [0 .. Room - 1 -> Cells] /\ size <= Room /\ Room \in Nat
      BY <2>1, BufferIs
    <2> DEFINE b == [Buffer EXCEPT ![n] = Nul]
    <2>3. b \in [0 .. Room - 1 -> Cells] /\ b[n] = Nul /\ n + 1 \in 1 .. Room /\ (n + 1) - 1 = n
      BY <1>2, <1>e, <2>2, NulIsCell
    <2>4. InPlace(b, n + 1)
      BY <1>2
    <2> HIDE DEF b
    <2>q. QED BY <1>e, <2>1, <2>3, <2>4, InPlaceKeeps
  <1>3. CASE n # 0 /\ ~(n < size) /\ Fits(n) /\ InPlace(Lengthened(Buffer, n), n + 1)
    <2>1. data \in {"small", "heap"}
      BY <1>3, <1>e DEF BufInv, Fits, Room, Exists
    <2>2. Buffer \in [0 .. Room - 1 -> Cells] /\ Room \in Nat
      BY <2>1, BufferIs
    <2> DEFINE b == Lengthened(Buffer, n)
    <2>3. b \in [0 .. Room - 1 -> Cells] /\ b[n] = Nul /\ n + 1 \in 1 .. Room /\ (n + 1) - 1 = n
      BY <1>3, <1>e, <2>2, ZeroedFits DEF Fits, Lengthened
    <2>4. InPlace(b, n + 1)
      BY <1>3
    <2> HIDE DEF b
    <2>q. QED BY <1>e, <2>1, <2>3, <2>4, InPlaceKeeps
  <1>4. CASE n # 0 /\ ~(n < size) /\ InBlock(Lengthened(Moved(c), n), c, n + 1) /\ UNCHANGED small
    <2>1. c \in Nat /\ c >= n + 1
      BY <1>e, CapacityFits, StringAssumption
    <2> DEFINE b == Lengthened(Moved(c), n)
    <2>2. Moved(c) \in [0 .. c - 1 -> Cells]
      BY <1>e, <2>1, MovedFits
    <2>3. b \in [0 .. c - 1 -> Cells] /\ b[n] = Nul /\ n + 1 \in 0 .. c /\ (n + 1) - 1 = n /\ c > 0
      BY <1>4, <1>e, <2>1, <2>2, ZeroedFits DEF Lengthened
    <2>4. InBlock(b, c, n + 1) /\ UNCHANGED small
      BY <1>4
    <2> HIDE DEF b, c
    <2>q. QED BY <1>e, <2>1, <2>3, <2>4, InBlockKeeps
  <1>5. CASE NoMemory
    BY <1>5, UnchangedKeeps DEF NoMemory
  <1>q. QED BY <1>1, <1>2, <1>3, <1>4, <1>5 DEF Resize

LEMMA AssignKeeps ==
    ASSUME BufInv, NEW t \in Texts, Assign(t)
    PROVE  BufInv' /\ failed' \in BOOLEAN
  <1> DEFINE c == NextCapacity(Len(t) + 1)
  <1>e. /\ Exists /\ t \in Seq(Cells) /\ Len(t) \in Nat
        /\ (Len(t) + 1) - 1 = Len(t) /\ 0 + Len(t) = Len(t) /\ Len(t) + 1 <= MaxLen + 1
    BY TextOK, StringAssumption DEF Assign
  <1>c. c \in Nat /\ c >= Len(t) + 1
    BY TextOK, CapacityFits, StringAssumption
  <1>1. CASE Fits(Len(t)) /\ InPlace(Copied(Buffer, t, 0), Len(t) + 1)
    <2>1. data \in {"small", "heap"}
      BY <1>1, <1>e DEF BufInv, Fits, Room, Exists
    <2>2. Buffer \in [0 .. Room - 1 -> Cells] /\ Room \in Nat
      BY <2>1, BufferIs
    <2> DEFINE b == Copied(Buffer, t, 0)
    <2>3. b \in [0 .. Room - 1 -> Cells] /\ b[Len(t)] = Nul /\ Len(t) + 1 \in 1 .. Room
      BY <1>1, <1>e, <2>2, CopiedFits DEF Fits
    <2>4. InPlace(b, Len(t) + 1)
      BY <1>1
    <2> HIDE DEF b
    <2>q. QED BY <1>e, <2>1, <2>3, <2>4, InPlaceKeeps
  <1>2. CASE /\ InBlock(Copied([i \in 0 .. c - 1 |-> Junk], t, 0), c, Len(t) + 1)
             /\ small' = Zeros
    <2> DEFINE b == Copied([i \in 0 .. c - 1 |-> Junk], t, 0)
    <2>1. b \in [0 .. c - 1 -> Cells] /\ b[Len(t)] = Nul /\ Len(t) + 1 \in 0 .. c /\ c > 0
      <3> HIDE DEF c
      <3>q. QED BY <1>e, <1>c, CopiedAnew
    <2>2. InBlock(b, c, Len(t) + 1)
      BY <1>2
    <2> HIDE DEF b, c
    <2>q. QED BY <1>2, <1>e, <1>c, <2>1, <2>2, InBlockKeeps
  <1>3. CASE InBlock([Moved(c) EXCEPT ![Len(t)] = Nul], c, Len(t) + 1) /\ UNCHANGED small
    <2> DEFINE b == [Moved(c) EXCEPT ![Len(t)] = Nul]
    <2>1. Moved(c) \in [0 .. c - 1 -> Cells]
      BY <1>e, <1>c, MovedFits
    <2>2. b \in [0 .. c - 1 -> Cells] /\ b[Len(t)] = Nul /\ Len(t) + 1 \in 0 .. c /\ c > 0
      BY <1>e, <1>c, <2>1, NulIsCell
    <2>3. InBlock(b, c, Len(t) + 1)
      BY <1>3
    <2> HIDE DEF b, c
    <2>q. QED BY <1>3, <1>e, <1>c, <2>2, <2>3, InBlockKeeps
  <1>4. CASE NoMemory
    BY <1>4, UnchangedKeeps DEF NoMemory
  <1>q. QED BY <1>1, <1>2, <1>3, <1>4 DEF Assign

LEMMA TakeOwnershipKeeps ==
    ASSUME BufInv, NEW t \in Texts, TakeOwnership(t)
    PROVE  BufInv' /\ failed' \in BOOLEAN
  <1> DEFINE b == Copied(NoBlock, t, 0)
  <1>1. t \in Seq(Cells) /\ Len(t) \in Nat /\ (Len(t) + 1) - 1 = Len(t) /\ Len(t) + 1 <= MaxLen + 1
    BY TextOK, StringAssumption
  <1>2. b \in [0 .. (Len(t) + 1) - 1 -> Cells] /\ b[Len(t)] = Nul
    BY <1>1, NulIsCell DEF Copied, NoBlock
  <1>3. /\ data' = "heap" /\ size' = Len(t) + 1 /\ capacity' = Len(t) + 1 /\ heap' = b
        /\ blocks' = blocks + 1 /\ failed' = FALSE /\ small' = small
    BY DEF TakeOwnership
  <1> HIDE DEF b
  <1>4. Buffer'[size' - 1] = Nul
    BY <1>1, <1>2, <1>3 DEF Buffer
  <1>5. heap' \in [0 .. capacity' - 1 -> Cells] /\ capacity' \in Nat /\ capacity' > 0
        /\ size' \in Nat /\ size' <= capacity' /\ size' <= MaxLen + 1
    BY <1>1, <1>2, <1>3
  <1>6. blocks' \in Nat /\ Owned' <= blocks'
    BY <1>3 DEF BufInv, Owned
  <1>7. small' \in [0 .. SmallBuf - 1 -> Cells]
    BY <1>3 DEF BufInv
  <1>q. QED BY <1>3, <1>4, <1>5, <1>6, <1>7 DEF BufInv

LEMMA StrInvStep == StrInv /\ [Next]_strVars => StrInv'
  <1> SUFFICES ASSUME StrInv, [Next]_strVars PROVE StrInv'
    OBVIOUS
  <1>i. BufInv
    BY DEF StrInv
  <1> USE DEF StrInv, Return
  <1>1. CASE StringInit
    <2>1. /\ data = "gone" /\ data' = "small" /\ small' = Zeros /\ heap' = NoBlock
          /\ capacity' = 0 /\ size' = 0 /\ blocks' = blocks
      BY <1>1 DEF StringInit, Exists
    <2>2. small' \in [0 .. SmallBuf - 1 -> Cells]
      BY <2>1, NulIsCell DEF Zeros
    <2>3. Owned' <= blocks' /\ blocks' \in Nat
      BY <1>i, <2>1 DEF BufInv, Owned
    <2>4. BufInv'
      BY <2>1, <2>2, <2>3, EmptyKeeps
    <2>q. QED BY <1>1, <2>4 DEF StringInit
  <1>2. CASE InitRefused \/ AppendRefused
    BY <1>2, <1>i, UnchangedKeeps DEF InitRefused, AppendRefused
  <1>3. CASE Destroy
    <2>1. /\ data' = "gone" /\ small' = small /\ heap' = NoBlock
          /\ capacity' = 0 /\ size' = 0 /\ blocks' = blocks - Owned
      BY <1>3 DEF Destroy
    <2>2. Owned' <= blocks' /\ blocks' \in Nat
      BY <1>i, <2>1 DEF BufInv, Owned
    <2>3. small' \in [0 .. SmallBuf - 1 -> Cells]
      BY <1>i, <2>1 DEF BufInv
    <2>4. BufInv'
      BY <2>1, <2>2, <2>3, EmptyKeeps
    <2>q. QED BY <1>3, <2>4 DEF Destroy
  <1>4. CASE AssignNull \/ Clear
    BY <1>4, <1>i, ClearedKeeps DEF AssignNull, Clear
  <1>5. ASSUME NEW t \in Texts, InitFrom(t) \/ Substr(t) PROVE StrInv'
    <2>1. t \in Seq(Cells) /\ Len(t) <= MaxLen
      BY TextOK, StringAssumption
    <2>q. QED BY <1>5, <1>i, <2>1, MadeKeeps DEF InitFrom, Substr
  <1>6. ASSUME NEW t \in Texts, TakeOwnership(t) PROVE StrInv'
    BY <1>6, <1>i, TakeOwnershipKeeps DEF TakeOwnership
  <1>7. ASSUME NEW t \in Texts, Assign(t) PROVE StrInv'
    BY <1>7, <1>i, AssignKeeps DEF Assign
  <1>8. ASSUME NEW t \in Texts, AppendText(t) PROVE StrInv'
    BY <1>8, <1>i, TextOK, AppendedKeeps DEF AppendText
  <1>9. ASSUME NEW n \in 0 .. MaxLen, Reserve(n) PROVE StrInv'
    BY <1>9, <1>i, ReserveKeeps DEF Reserve
  <1>10. ASSUME NEW n \in 0 .. MaxLen, Resize(n) PROVE StrInv'
    BY <1>10, <1>i, ResizeKeeps DEF Resize
  <1>11. ASSUME NEW ch \in DOMAIN Code, PushBack(ch) PROVE StrInv'
    <2>1. <<ch>> \in Seq(Cells)
      BY DEF Cells
    <2>q. QED BY <1>11, <1>i, <2>1, AppendedKeeps DEF PushBack
  <1>12. CASE AppendSelf
    <2>1. Exists /\ Length \in Nat
      BY <1>12, <1>i, ContentIs DEF AppendSelf, Appended
    <2>2. Content \in Seq(Cells) /\ [i \in 1 .. Length |-> Junk] \in Seq(Cells)
      BY <1>i, <2>1, ContentIs, NulIsCell
    <2>q. QED BY <1>12, <1>i, <2>2, AppendedKeeps DEF AppendSelf
  <1>13. ASSUME NEW pos \in 0 .. MaxLen, NEW len \in 0 .. MaxLen, SubstrSelf(pos, len) PROVE StrInv'
    <2> DEFINE s == Subview(Content, pos, len)
               lost == IF data = "small" THEN Nul ELSE Junk
               t == [i \in 1 .. Len(s) |-> lost]
    <2>1. Content \in Seq(Cells) /\ Len(Content) <= MaxLen
      BY <1>13, <1>i, ContentIs DEF SubstrSelf
    <2>2. s \in Seq(Cells) /\ Len(s) <= Len(Content)
      BY <2>1, StringAssumption DEF Subview
    <2>3. t \in Seq(Cells) /\ Len(t) = Len(s)
      BY <2>2, NulIsCell
    <2>4. Made(t) /\ result' = ~failed'
      BY <1>13 DEF SubstrSelf
    <2>5. Len(t) <= MaxLen
      BY <2>1, <2>2, <2>3, StringAssumption
    <2> HIDE DEF t
    <2>q. QED BY <1>i, <2>3, <2>4, <2>5, MadeKeeps
  <1>14. CASE UNCHANGED strVars
    BY <1>14, <1>i, UnchangedKeeps DEF strVars
  <1>q. QED BY <1>1, <1>2, <1>3, <1>4, <1>5, <1>6, <1>7, <1>8, <1>9, <1>10, <1>11, <1>12, <1>13,
              <1>14 DEF Next

LEMMA StrInvAlways == Spec => []StrInv
  BY StrInvInit, StrInvStep, PTL DEF Spec

-----------------------------------------------------------------------------
(* The theorems.                                                           *)

\* The fields have their types, whatever is called in whatever order.
THEOREM TypeCorrect == Spec => []TypeOK
  <1>1. StrInv => TypeOK
    BY DEF StrInv, BufInv, TypeOK
  <1>q. QED BY StrInvAlways, <1>1, PTL

\* No operation writes outside the buffer that data points to, and the capacity
\* tells which one that is.
THEOREM WritesStayInside == Spec => []BufferFits
  <1>1. StrInv => BufferFits
    BY DEF StrInv, BufInv, BufferFits
  <1>q. QED BY StrInvAlways, <1>1, PTL

\* A text that has a size ends with its 0.
THEOREM AlwaysTerminated == Spec => []Terminated
  <1>1. StrInv => Terminated
    BY DEF StrInv, BufInv, Terminated
  <1>q. QED BY StrInvAlways, <1>1, PTL

\* Each block that is allocated is freed or still the string's own, save one
\* that string_take_ownership replaces.
THEOREM NoBlockLost == Spec => OneBlock
  <1> DEFINE Kept == blocks' - Owned' = blocks - Owned
             Step == Kept \/ (call'.op = "take" /\ data = "heap")
  <1>1. StrInv /\ [Next]_strVars => [Step]_strVars
    <2> SUFFICES ASSUME StrInv, Next PROVE Step
      BY DEF strVars
    <2>i. blocks \in Int /\ Owned \in Int
      BY DEF StrInv, BufInv, Owned
    <2>u. UNCHANGED bufVars => Kept
      BY DEF bufVars, Owned
    <2>n. NoMemory => Kept
      BY <2>u DEF NoMemory
    <2>m. ASSUME NEW t, Made(t) PROVE Kept
      <3>1. CASE data' = "heap" /\ blocks' = blocks - Owned + 1
        BY <2>i, <3>1 DEF Owned
      <3>2. CASE data' \in {"small", "null"} /\ blocks' = blocks - Owned
        BY <2>i, <3>2 DEF Owned
      <3>q. QED BY <2>m, <3>1, <3>2 DEF Made
    <2>b. ASSUME NEW b, NEW c, NEW n, InBlock(b, c, n) PROVE Kept
      BY <2>i, <2>b DEF InBlock, Owned
    <2>p. ASSUME NEW b, NEW n, InPlace(b, n) PROVE Kept
      BY <2>p DEF InPlace, Owned
    <2>c. Cleared => Kept
      BY <2>i DEF Cleared, Owned
    <2>a. ASSUME NEW t, Appended(t) PROVE Kept
      BY <2>a, <2>b, <2>n DEF Appended
    <2> HIDE DEF Kept
    <2>1. CASE StringInit \/ Destroy
      <3>1. CASE StringInit
        <4>1. data = "gone" /\ data' = "small" /\ blocks' = blocks
          BY <3>1 DEF StringInit, Exists
        <4>2. Owned = 0 /\ Owned' = 0
          BY <4>1 DEF Owned
        <4>q. QED BY <4>1, <4>2 DEF Kept
      <3>2. CASE Destroy
        <4>1. Owned' = 0 /\ blocks' = blocks - Owned
          BY <3>2 DEF Destroy, Owned
        <4>q. QED BY <2>i, <4>1 DEF Kept
      <3>q. QED BY <2>1, <3>1, <3>2
    <2>2. CASE InitRefused \/ AppendRefused \/ AssignNull \/ Clear
      BY <2>2, <2>u, <2>c DEF InitRefused, AppendRefused, AssignNull, Clear
    <2>3. CASE AppendSelf \/ \E ch \in DOMAIN Code : PushBack(ch)
      BY <2>3, <2>a DEF AppendSelf, PushBack
    <2>4. ASSUME NEW t \in Texts, InitFrom(t) \/ Substr(t) \/ AppendText(t) PROVE Kept
      BY <2>4, <2>a, <2>m DEF InitFrom, Substr, AppendText
    <2>5. ASSUME NEW t \in Texts, Assign(t) PROVE Kept
      BY <2>5, <2>b, <2>p, <2>n DEF Assign
    <2>6. ASSUME NEW t \in Texts, TakeOwnership(t) PROVE Step
      <3>1. blocks' = blocks + 1 /\ data' = "heap" /\ call'.op = "take"
        BY <2>6 DEF TakeOwnership, Return
      <3>q. QED BY <2>i, <3>1 DEF Owned, Kept
    <2>7. ASSUME NEW n \in 0 .. MaxLen, Reserve(n) \/ Resize(n) PROVE Kept
      BY <2>7, <2>u, <2>b, <2>p, <2>n, <2>c DEF Reserve, Resize
    <2>8. ASSUME NEW pos \in 0 .. MaxLen, NEW len \in 0 .. MaxLen, SubstrSelf(pos, len) PROVE Kept
      BY <2>8, <2>m DEF SubstrSelf
    <2>q. QED BY <2>1, <2>2, <2>3, <2>4, <2>5, <2>6, <2>7, <2>8 DEF Next
  <1>q. QED BY StrInvAlways, <1>1, PTL DEF Spec, OneBlock

\* What fails has a cause and leaves the string as it was.
THEOREM FailuresHaveCause == Spec => FailsForCause
  <1> DEFINE Step == ~result' => /\ \/ failed' \/ call'.op = "refused"
                                    \/ call'.op = "reserve" /\ call'.n <= size
                                 /\ call'.op \in {"init", "substr", "substr_self"} \/ UNCHANGED bufVars
  <1>1. StrInv /\ [Next]_strVars => [Step]_strVars
    <2> SUFFICES ASSUME StrInv, Next, ~result' PROVE Step
      BY DEF strVars
    <2> USE DEF Return
    <2>i. size \in Int
      BY DEF StrInv, BufInv
    <2>b. ASSUME NEW b, NEW c, NEW n, InBlock(b, c, n) PROVE failed' = FALSE
      BY <2>b DEF InBlock
    <2>p. ASSUME NEW b, NEW n, InPlace(b, n) PROVE failed' = FALSE
      BY <2>p DEF InPlace
    <2>a. ASSUME NEW t, Appended(t), failed' PROVE UNCHANGED bufVars
      BY <2>a, <2>b DEF Appended, NoMemory
    <2>1. CASE StringInit \/ Destroy \/ AssignNull \/ Clear
      BY <2>1 DEF StringInit, Destroy, AssignNull, Clear
    <2>2. CASE InitRefused \/ AppendRefused
      BY <2>2 DEF InitRefused, AppendRefused
    <2>3. CASE AppendSelf
      BY <2>3, <2>a DEF AppendSelf
    <2>4. ASSUME NEW t \in Texts, InitFrom(t) \/ Substr(t) PROVE Step
      <3>1. Made(t) /\ result' = ~failed'
        BY <2>4 DEF InitFrom, Substr
      <3>2. failed' = TRUE \/ failed' = FALSE
        BY <3>1 DEF Made
      <3>3. call'.op = "init" \/ call'.op = "substr"
        BY <2>4 DEF InitFrom, Substr
      <3>q. QED BY <3>1, <3>2, <3>3
    <2>5. ASSUME NEW t \in Texts, AppendText(t) PROVE Step
      BY <2>5, <2>a DEF AppendText
    <2>6. ASSUME NEW t \in Texts, Assign(t) PROVE Step
      BY <2>6, <2>b, <2>p DEF Assign, NoMemory
    <2>7. ASSUME NEW t \in Texts, TakeOwnership(t) PROVE Step
      BY <2>7 DEF TakeOwnership
    <2>8. ASSUME NEW n \in 0 .. MaxLen, Reserve(n) PROVE Step
      <3> DEFINE c == NextCapacity(n)
      <3>1. n \in Int /\ result' = (n > size /\ ~failed') /\ call'.op = "reserve" /\ call'.n = n
        BY <2>8, StringAssumption DEF Reserve
      <3>2. CASE n <= size \/ capacity >= n
        <4>1. UNCHANGED bufVars /\ failed' = FALSE
          BY <2>8, <3>2 DEF Reserve
        <4>2. ~(n > size)
          BY <3>1, <4>1, Zenon
        <4>3. n <= size
          BY <2>i, <3>1, <4>2
        <4>q. QED BY <3>1, <4>1, <4>3
      <3>3. CASE ~(n <= size \/ capacity >= n)
        <4>1. InBlock(Moved(c), c, size) \/ NoMemory
          BY <2>8, <3>3 DEF Reserve
        <4>2. n > size
          BY <2>i, <3>1, <3>3
        <4> HIDE DEF c
        <4>3. failed'
          BY <2>b, <3>1, <4>1, <4>2 DEF NoMemory
        <4>4. UNCHANGED bufVars
          BY <2>b, <4>1, <4>3 DEF NoMemory
        <4>q. QED BY <4>3, <4>4
      <3>q. QED BY <3>2, <3>3
    <2>9. ASSUME NEW n \in 0 .. MaxLen, Resize(n) PROVE Step
      BY <2>9, <2>b, <2>p DEF Resize, NoMemory, Cleared
    <2>10. ASSUME NEW ch \in DOMAIN Code, PushBack(ch) PROVE Step
      BY <2>10 DEF PushBack
    <2>11. ASSUME NEW pos \in 0 .. MaxLen, NEW len \in 0 .. MaxLen, SubstrSelf(pos, len) PROVE Step
      BY <2>11 DEF SubstrSelf
    <2>q. QED BY <2>1, <2>2, <2>3, <2>4, <2>5, <2>6, <2>7, <2>8, <2>9, <2>10, <2>11 DEF Next
  <1>q. QED BY StrInvAlways, <1>1, PTL DEF Spec, FailsForCause

-----------------------------------------------------------------------------
(* Texts that are compared, hashed and copied.                             *)

\* Two sequences that agree before i, where both have a 0, have their first 0
\* at the same place.
LEMMA SameFirstNul ==
    ASSUME NEW S, NEW l \in Seq(S), NEW r \in Seq(S), NEW i \in 1 .. Len(l), i <= Len(r),
           \A j \in 1 .. i : l[j] = r[j], l[i] = Nul
    PROVE  UpToNul(l) # 0 /\ UpToNul(l) = UpToNul(r)
  <1> DEFINE L == {k \in 1 .. Len(l) : l[k] = Nul}
             R == {k \in 1 .. Len(r) : r[k] = Nul}
  <1>0. Len(l) \in Nat /\ Len(r) \in Nat
    OBVIOUS
  <1>1. L \subseteq Nat /\ R \subseteq Nat /\ i \in L /\ i \in R
    BY <1>0
  <1>2. PICK m \in L : \A k \in L : m <= k
    BY <1>1, NatMin
  <1>3. m \in R /\ \A k \in R : m <= k
    <2>1. m <= i /\ m \in 1 .. i
      BY <1>1, <1>2
    <2>2. m \in R
      BY <1>0, <1>2, <2>1
    <2>3. ASSUME NEW k \in R PROVE m <= k
      <3>1. CASE k <= i
        BY <1>0, <1>2, <3>1
      <3>2. CASE k > i
        BY <1>0, <2>1, <3>2
      <3>q. QED BY <1>0, <3>1, <3>2
    <2>q. QED BY <2>2, <2>3
  <1>4. UpToNul(l) = (CHOOSE x \in L : \A y \in L : x <= y)
    BY <1>1 DEF UpToNul, SelectInSeq, Min
  <1>5. UpToNul(r) = (CHOOSE x \in R : \A y \in R : x <= y)
    BY <1>1 DEF UpToNul, SelectInSeq, Min
  <1> HIDE DEF L, R
  <1>6. \A x \in L : (\A y \in L : x <= y) => x = m
    BY <1>1, <1>2
  <1>7. \A x \in R : (\A y \in R : x <= y) => x = m
    BY <1>1, <1>2, <1>3
  <1>8. UpToNul(l) = m /\ UpToNul(r) = m
    BY <1>2, <1>3, <1>4, <1>5, <1>6, <1>7
  <1>q. QED BY <1>0, <1>2, <1>8 DEF L

\* strncmp() stops at one place, the same whatever the order of its arguments.
LEMMA OneDifference ==
    ASSUME NEW S, NEW l \in Seq(S), NEW r \in Seq(S)
    PROVE  /\ \A i : Differ(l, r, i) <=> Differ(r, l, i)
           /\ \A i, j \in Nat \ {0} : Differ(l, r, i) /\ Differ(l, r, j) => i = j
  <1>0. Len(l) \in Nat /\ Len(r) \in Nat
    OBVIOUS
  <1>1. ASSUME NEW i \in Nat \ {0}, NEW j \in Nat \ {0}, Differ(l, r, i), Differ(l, r, j), i < j
        PROVE FALSE
    <2>1. i \in 1 .. j - 1
      BY <1>1
    <2>q. QED BY <1>1, <2>1 DEF Differ
  <1>2. \A i, j \in Nat \ {0} : Differ(l, r, i) /\ Differ(l, r, j) => ~(i < j) /\ ~(j < i)
    BY <1>1
  <1>3. \A i, j \in Nat \ {0} : ~(i < j) /\ ~(j < i) => i = j
    OBVIOUS
  <1>4. \A i : Differ(l, r, i) <=> Differ(r, l, i)
    BY DEF Differ
  <1>q. QED BY <1>2, <1>3, <1>4

\* The two results of string_view_compare.
LEMMA CompareIs ==
    ASSUME NEW l \in Seq(DOMAIN Code), NEW r \in Seq(DOMAIN Code)
    PROVE  /\ (\A i \in 1 .. Len(l) : ~Differ(l, r, i)) => Compare(l, r) = Len(l) - Len(r)
           /\ \A i \in 1 .. Len(l) : Differ(l, r, i) => Compare(l, r) = Code[l[i]] - Code[r[i]]
  <1> DEFINE at == {i \in 1 .. Len(l) : Differ(l, r, i)}
  <1>1. at = {} => Compare(l, r) = Len(l) - Len(r)
    BY DEF Compare
  <1>2. ASSUME NEW i \in 1 .. Len(l), Differ(l, r, i)
        PROVE  Compare(l, r) = Code[l[i]] - Code[r[i]]
    <2>1. i \in at /\ at # {}
      BY <1>2
    <2>2. \A j \in at : j = i
      <3>1. \A j \in at : j \in Nat \ {0} /\ i \in Nat \ {0} /\ Differ(l, r, j)
        OBVIOUS
      <3>q. QED BY <1>2, <3>1, OneDifference
    <2>3. (CHOOSE j \in at : TRUE) = i
      BY <2>1, <2>2
    <2>4. Compare(l, r) = Code[l[CHOOSE j \in at : TRUE]] - Code[r[CHOOSE j \in at : TRUE]]
      BY <2>1 DEF Compare
    <2> HIDE DEF at
    <2>q. QED BY <2>3, <2>4
  <1>q. QED BY <1>1, <1>2

\* Texts that compare equal are the same, or both have a 0 before they differ.
LEMMA EqualTexts ==
    ASSUME NEW l \in Seq(DOMAIN Code), NEW r \in Seq(DOMAIN Code), Compare(l, r) = 0, l # r
    PROVE  UpToNul(r) # 0 /\ UpToNul(r) = UpToNul(l)
  <1>0. Len(l) \in Nat /\ Len(r) \in Nat
    OBVIOUS
  <1>1. \A i \in 1 .. Len(l) : ~Differ(l, r, i)
    <2> SUFFICES ASSUME NEW i \in 1 .. Len(l), Differ(l, r, i) PROVE FALSE
      OBVIOUS
    <2>1. Code[l[i]] - Code[r[i]] = 0
      BY CompareIs
    <2>2. l[i] \in DOMAIN Code /\ r[i] \in DOMAIN Code /\ l[i] # r[i]
      BY <1>0 DEF Differ
    <2>3. Code[l[i]] \in Int /\ Code[r[i]] \in Int
      BY <2>2, ViewAssumption
    <2>4. Code[l[i]] = Code[r[i]]
      BY <2>1, <2>3
    <2>q. QED BY <2>2, <2>4, ViewAssumption
  <1>2. Len(l) = Len(r)
    <2>1. Len(l) - Len(r) = 0
      BY <1>1, CompareIs
    <2>q. QED BY <1>0, <2>1
  <1> DEFINE off == {i \in 1 .. Len(l) : l[i] # r[i]}
  <1>3. off # {} /\ off \subseteq Nat
    <2>1. \E i \in 1 .. Len(l) : l[i] # r[i]
      BY <1>2, SeqEqual
    <2>q. QED BY <2>1
  <1>4. PICK d \in off : \A i \in off : d <= i
    BY <1>3, NatMin
  <1>5. d \in 1 .. Len(l) /\ l[d] # r[d] /\ \A j \in 1 .. d - 1 : l[j] = r[j]
    <2>1. \A j \in 1 .. d - 1 : j \in 1 .. Len(l) /\ ~(d <= j)
      BY <1>0, <1>4
    <2>q. QED BY <1>4, <2>1
  <1>6. PICK j \in 1 .. d - 1 : l[j] = Nul
    BY <1>0, <1>1, <1>2, <1>5 DEF Differ
  <1>7. \A k \in 1 .. j : l[k] = r[k] /\ k \in 1 .. d - 1
    BY <1>5, <1>6
  <1>8. j \in 1 .. Len(l) /\ j <= Len(r)
    BY <1>0, <1>2, <1>5, <1>6
  <1>q. QED BY <1>6, <1>7, <1>8, SameFirstNul

\* The order of the texts does not depend on the order of the arguments.
LEMMA CompareTurns ==
    ASSUME NEW l \in Seq(DOMAIN Code), NEW r \in Seq(DOMAIN Code)
    PROVE  Compare(l, r) > 0 <=> Compare(r, l) < 0
  <1>0. Len(l) \in Nat /\ Len(r) \in Nat
    OBVIOUS
  <1>1. CASE \E i \in 1 .. Len(l) : Differ(l, r, i)
    <2>1. PICK i \in 1 .. Len(l) : Differ(l, r, i)
      BY <1>1
    <2>2. Differ(r, l, i) /\ i \in 1 .. Len(r)
      BY <1>0, <2>1, OneDifference DEF Differ
    <2>3. Compare(l, r) = Code[l[i]] - Code[r[i]] /\ Compare(r, l) = Code[r[i]] - Code[l[i]]
      BY <2>1, <2>2, CompareIs
    <2>4. Code[l[i]] \in Int /\ Code[r[i]] \in Int
      BY <2>2, ViewAssumption
    <2>q. QED BY <2>3, <2>4
  <1>2. CASE ~ \E i \in 1 .. Len(l) : Differ(l, r, i)
    <2>1. \A i \in 1 .. Len(r) : ~Differ(r, l, i)
      <3> SUFFICES ASSUME NEW i \in 1 .. Len(r), Differ(r, l, i) PROVE FALSE
        OBVIOUS
      <3>1. Differ(l, r, i) /\ i \in 1 .. Len(l)
        BY <1>0, OneDifference DEF Differ
      <3>q. QED BY <1>2, <3>1
    <2>2. Compare(l, r) = Len(l) - Len(r) /\ Compare(r, l) = Len(r) - Len(l)
      BY <1>2, <2>1, CompareIs
    <2>q. QED BY <1>0, <2>2
  <1>q. QED BY <1>1, <1>2

\* What the path table takes from here: texts that are equal are the same, or
\* have a 0 at the same place before they differ, and hash alike.
THEOREM EqualTextsAreSame == Spec => []EqualIsSame
  <1>1. StrInv => EqualIsSame
    <2> SUFFICES ASSUME StrInv, Clean(Content), NEW t \in Texts
                 PROVE  /\ Compare(Content, t) = 0 /\ Content # t =>
                              UpToNul(t) # 0 /\ UpToNul(t) = UpToNul(Content)
                        /\ Content = t => Compare(Content, t) = 0 /\ Hash(Content) = Hash(t)
                        /\ Compare(Content, t) > 0 <=> Compare(t, Content) < 0
      BY DEF EqualIsSame
    <2>1. t \in Seq(DOMAIN Code) /\ Len(t) \in Nat
      BY StringAssumption
    <2>2. Content \in Seq(DOMAIN Code)
      <3>1. CASE Exists
        <4>1. Content \in Seq(Cells)
          BY <3>1, ContentIs DEF StrInv
        <4> DEFINE s == Content
        <4>2. s \in Seq(Cells) /\ \A i \in DOMAIN s : s[i] # Junk
          BY <4>1 DEF Clean
        <4> HIDE DEF s
        <4>3. \A i \in 1 .. Len(s) : s[i] \in DOMAIN Code
          BY <4>2 DEF Cells
        <4>4. s \in Seq(DOMAIN Code)
          BY <4>2, <4>3
        <4>q. QED BY <4>4 DEF s
      <3>2. CASE ~Exists
        BY <3>2 DEF Exists, Content
      <3>q. QED BY <3>1, <3>2
    <2> DEFINE s == Content
    <2>s. s \in Seq(DOMAIN Code)
      BY <2>2
    <2> HIDE DEF s
    <2>3. Compare(s, t) = 0 /\ s # t => UpToNul(t) # 0 /\ UpToNul(t) = UpToNul(s)
      BY <2>1, <2>s, EqualTexts
    <2>4. s = t => Compare(s, t) = 0
      <3>1. \A i : ~Differ(t, t, i)
        BY DEF Differ
      <3>2. Compare(t, t) = Len(t) - Len(t)
        BY <2>1, <3>1, CompareIs
      <3>q. QED BY <2>1, <3>2
    <2>5. s = t => Hash(s) = Hash(t)
      OBVIOUS
    <2>6. Compare(s, t) > 0 <=> Compare(t, s) < 0
      BY <2>1, <2>s, CompareTurns
    <2>q. QED BY <2>3, <2>4, <2>5, <2>6 DEF s
  <1>q. QED BY StrInvAlways, <1>1, PTL

-----------------------------------------------------------------------------
(* The text that each operation leaves.                                    *)

\* A buffer whose cells are those of t, and a size that fits, hold the text t.
LEMMA ContentBecomes ==
    ASSUME NEW t \in Seq(Cells), data' # "gone", size' = Len(t) + 1,
           \A i \in 1 .. Len(t) : Buffer'[i - 1] = t[i]
    PROVE  Content' = t
  <1>1. Len(t) \in Nat /\ t = [i \in 1 .. Len(t) |-> t[i]]
    OBVIOUS
  <1>2. Length' = Len(t)
    BY <1>1 DEF Length
  <1>3. Content' = [i \in 1 .. Length' |-> Buffer'[i - 1]]
    BY DEF Content
  <1>q. QED BY <1>1, <1>2, <1>3

LEMMA ContentEmpty ==
    ASSUME size' = 0
    PROVE  Content' = <<>>
  <1>1. Length' = 0
    BY DEF Length
  <1>q. QED BY <1>1 DEF Content

LEMMA ContentKept ==
    ASSUME UNCHANGED bufVars
    PROVE  Content' = Content
  BY DEF bufVars, Content, Length, Buffer

\* The text before a call.
LEMMA ContentCells ==
    ASSUME BufInv
    PROVE  /\ Content \in Seq(Cells) /\ Len(Content) = Length /\ Length \in Nat
           /\ \A i \in 1 .. Length : Content[i] = Buffer[i - 1]
           /\ data = "gone" => Content = <<>>
           /\ size = 0 => Length = 0
           /\ size > 0 => Length = size - 1
           /\ size \in Nat
  <1>0. Length \in Nat /\ size \in Nat /\ (size = 0 => Length = 0) /\ (size > 0 => Length = size - 1)
    BY ContentIs DEF BufInv, Length
  <1>1. CASE Exists
    <2>1. Content \in Seq(Cells) /\ Len(Content) = Length
      BY <1>1, ContentIs
    <2>2. Content = [i \in 1 .. Length |-> Buffer[i - 1]]
      BY <1>1 DEF Content, Exists
    <2>3. \A i \in 1 .. Length : Content[i] = Buffer[i - 1]
      BY <2>2, Zenon
    <2>q. QED BY <1>0, <1>1, <2>1, <2>3 DEF Exists
  <1>2. CASE ~Exists
    <2>1. size = 0
      BY <1>2 DEF BufInv, Exists
    <2>2. Content = <<>>
      BY <1>2 DEF Content, Exists
    <2>q. QED BY <1>0, <2>1, <2>2
  <1>q. QED BY <1>1, <1>2

\* What cpy_sv2str leaves: the old text up to off, the copied one behind it.
LEMMA CopiedText ==
    ASSUME NEW b, NEW t \in Seq(Cells), NEW off \in Nat
    PROVE  /\ \A i \in 1 .. Len(t) : Copied(b, t, off)[off + i - 1] = t[i]
           /\ \A i \in 1 .. off : i - 1 \in DOMAIN b => Copied(b, t, off)[i - 1] = b[i - 1]
  <1>0. Len(t) \in Nat
    OBVIOUS
  <1> DEFINE D == DOMAIN b \union off .. off + Len(t)
  <1>1. ASSUME NEW i \in 1 .. Len(t) PROVE Copied(b, t, off)[off + i - 1] = t[i]
    <2>1. off + i - 1 \in D /\ off + i - 1 \in off .. off + Len(t) /\ off + i - 1 # off + Len(t)
      BY <1>0
    <2>2. Copied(b, t, off)[off + i - 1] = t[off + i - 1 - off + 1]
      BY <2>1 DEF Copied
    <2>3. off + i - 1 - off + 1 = i
      BY <1>0
    <2>q. QED BY <2>2, <2>3
  <1>2. ASSUME NEW i \in 1 .. off, i - 1 \in DOMAIN b PROVE Copied(b, t, off)[i - 1] = b[i - 1]
    <2>1. i - 1 \in D /\ i - 1 \notin off .. off + Len(t)
      BY <1>2
    <2>q. QED BY <2>1 DEF Copied
  <1>q. QED BY <1>1, <1>2

\* The same at the start of a buffer.
LEMMA CopiedFirst ==
    ASSUME NEW t \in Seq(Cells)
    PROVE  \A b : \A i \in 1 .. Len(t) : Copied(b, t, 0)[i - 1] = t[i]
  <1>1. 0 \in Nat /\ Len(t) \in Nat
    OBVIOUS
  <1>2. \A b : \A i \in 1 .. Len(t) : Copied(b, t, 0)[0 + i - 1] = t[i]
    BY <1>1, CopiedText, Zenon
  <1>3. \A i \in 1 .. Len(t) : 0 + i - 1 = i - 1
    BY <1>1
  <1>q. QED BY <1>2, <1>3

\* string_init_from_string_view leaves its text, or none if it fails.
LEMMA MadeText ==
    ASSUME BufInv, NEW t \in Seq(Cells), Made(t)
    PROVE  \/ failed' = FALSE /\ Content' = t
           \/ failed' = TRUE /\ Content' = <<>>
  <1>0. Len(t) \in Nat
    OBVIOUS
  <1>c. \A b : \A i \in 1 .. Len(t) : Copied(b, t, 0)[i - 1] = t[i]
    BY CopiedFirst
  <1>1. CASE data' = "small" /\ small' = Copied(Zeros, t, 0) /\ size' = Len(t) + 1 /\ failed' = FALSE
    <2>1. Buffer' = Copied(Zeros, t, 0)
      BY <1>1 DEF Buffer
    <2>q. QED BY <1>1, <1>c, <2>1, ContentBecomes
  <1>2. CASE \E b : data' = "heap" /\ heap' = Copied(b, t, 0) /\ size' = Len(t) + 1 /\ failed' = FALSE
    <2>1. \E b : Buffer' = Copied(b, t, 0)
      BY <1>2 DEF Buffer
    <2>q. QED BY <1>2, <1>c, <2>1, ContentBecomes
  <1>3. CASE size' = 0 /\ failed' = TRUE
    BY <1>3, ContentEmpty
  <1>4. CASE Len(t) < SmallBuf
    BY <1>1, <1>4 DEF Made
  <1>5. CASE ~(Len(t) < SmallBuf)
    BY <1>2, <1>3, <1>5 DEF Made
  <1>q. QED BY <1>4, <1>5

\* A text in its buffer, in place or in a new block.
LEMMA InPlaceBuffer ==
    ASSUME NEW b, NEW n, data \in {"small", "heap"}, InPlace(b, n)
    PROVE  Buffer' = b /\ data' # "gone" /\ size' = n
  BY DEF InPlace, Buffer

LEMMA InBlockBuffer ==
    ASSUME NEW b, NEW c, NEW n, InBlock(b, c, n)
    PROVE  Buffer' = b /\ data' # "gone" /\ size' = n
  BY DEF InBlock, Buffer

\* An append leaves the two texts, one behind the other, or fails and leaves
\* the old one.
LEMMA AppendedText ==
    ASSUME BufInv, NEW t \in Seq(Cells), Appended(t)
    PROVE  \/ failed' = FALSE /\ Content' = Content \o t
           \/ failed' = TRUE /\ Content' = Content
  <1> DEFINE c == NextCapacity(Length + Len(t) + 1)
             b == Copied(Moved(c), t, Length)
             s == Content
             u == s \o t
  <1>0. /\ Exists /\ Len(t) \in Nat /\ Length \in Nat /\ s \in Seq(Cells) /\ Len(s) = Length
        /\ size \in Nat /\ (size = 0 => Length = 0) /\ (size > 0 => Length = size - 1)
        /\ \A i \in 1 .. Length : s[i] = Buffer[i - 1]
    BY ContentCells DEF Appended
  <1>t. \A w : \A i \in 1 .. Len(t) : Copied(w, t, Length)[Length + i - 1] = t[i]
    <2>1. Length \in Nat
      BY <1>0
    <2>q. QED BY <2>1, CopiedText, Zenon
  <1>1. c \in Nat /\ c > Length + Len(t)
    BY <1>0, CapacityFits, StringAssumption DEF Appended
  <1>2. CASE InBlock(b, c, Length + Len(t) + 1)
    <2>m. Moved(c) \in [0 .. c - 1 -> Cells] /\ \A i \in 0 .. c - 1 : i < size => Moved(c)[i] = Buffer[i]
      BY <1>0, <1>1, MovedFits
    <2>1. Buffer' = b /\ data' # "gone" /\ size' = Length + Len(t) + 1 /\ failed' = FALSE
      <3>1. InBlock(b, c, Length + Len(t) + 1) => failed' = FALSE
        BY DEF InBlock
      <3> HIDE DEF b, c
      <3>q. QED BY <1>2, <3>1, InBlockBuffer
    <2> HIDE DEF c, s
    <2>2. u \in Seq(Cells) /\ Len(u) = Length + Len(t)
      BY <1>0, ConcatProperties
    <2>3. ASSUME NEW i \in 1 .. Length + Len(t) PROVE b[i - 1] = u[i]
      <3>1. CASE i <= Length
        <4>1. i - 1 \in 0 .. c - 1 /\ i - 1 < size /\ i \in 1 .. Length
          BY <1>0, <1>1, <3>1
        <4>2. b[i - 1] = Moved(c)[i - 1]
          BY <1>0, <2>m, <4>1, CopiedText
        <4>3. b[i - 1] = s[i]
          BY <1>0, <2>m, <4>1, <4>2
        <4>4. u[i] = s[i]
          BY <1>0, <4>1
        <4>q. QED BY <4>3, <4>4
      <3>2. CASE i > Length
        <4>1. i - Length \in 1 .. Len(t) /\ Length + (i - Length) - 1 = i - 1
          BY <1>0, <3>2
        <4>2. b[Length + (i - Length) - 1] = t[i - Length]
          BY <4>1, <1>t, Zenon
        <4>3. u[i] = t[i - Length]
          BY <1>0, <3>2, <4>1
        <4>q. QED BY <4>1, <4>2, <4>3
      <3>q. QED BY <1>0, <3>1, <3>2
    <2> HIDE DEF u, b
    <2>4. size' = Len(u) + 1 /\ \A i \in 1 .. Len(u) : Buffer'[i - 1] = u[i]
      BY <2>1, <2>2, <2>3
    <2>5. Content' = u
      BY <2>1, <2>2, <2>4, ContentBecomes
    <2>q. QED BY <2>1, <2>5 DEF u, s
  <1>3. CASE NoMemory
    BY <1>3, ContentKept DEF NoMemory
  <1>4. InBlock(b, c, Length + Len(t) + 1) \/ NoMemory
    BY DEF Appended
  <1>q. QED BY <1>2, <1>3, <1>4

-----------------------------------------------------------------------------
(* Every operation does to the text what it does to a sequence.            *)

Allowed == Str!Next \/ GrowLoses \/ PushLoses \/ SelfLoses

\* The cases of StringSpec, one by one.
LEMMA AfterCases ==
    ASSUME NEW c, NEW s
    PROVE  /\ c.op = "append" => Str!After(c, s) = s \o c.arg
           /\ c.op = "append_self" => Str!After(c, s) = s \o s
           /\ c.op = "reserve" => Str!After(c, s) = s
           /\ c.op = "resize" =>
                 Str!After(c, s) = [i \in 1 .. c.n |-> IF i <= Len(s) THEN s[i] ELSE Nul]
           /\ c.op \in {"init", "destroy", "take", "assign", "clear", "substr"} =>
                 Str!After(c, s) = c.arg
           /\ c.op \in {"substr", "substr_self"} => Str!AfterFailure(c, s) = <<>>
           /\ c.op \notin {"substr", "substr_self"} => Str!AfterFailure(c, s) = s
  BY DEF Str!After, Str!AfterFailure

LEMMA SuccessAllowed ==
    ASSUME result' = TRUE, Content' = Str!After(call', Content)
    PROVE  Allowed
  BY DEF Allowed, Str!Next

LEMMA FailureAllowed ==
    ASSUME result' = FALSE, Content' = Str!AfterFailure(call', Content)
    PROVE  Allowed
  BY DEF Allowed, Str!Next

\* What leaves no text behind and succeeds.
LEMMA EmptiedAllowed ==
    ASSUME size' = 0, result' = TRUE, call'.arg = <<>>,
           call'.op \in {"init", "destroy", "assign", "clear"}
    PROVE  Allowed
  <1>1. Content' = <<>>
    BY ContentEmpty
  <1>2. Str!After(call', Content) = call'.arg
    BY AfterCases, Zenon
  <1>q. QED BY <1>1, <1>2, SuccessAllowed

\* What fails and leaves its buffer alone.
LEMMA RefusedAllowed ==
    ASSUME UNCHANGED bufVars, result' = FALSE, call'.op \notin {"substr", "substr_self"}
    PROVE  Allowed
  <1>1. Str!AfterFailure(call', Content) = Content
    BY AfterCases, Zenon
  <1>q. QED BY <1>1, ContentKept, FailureAllowed

LEMMA ReserveAllowed ==
    ASSUME BufInv, NEW n \in 0 .. MaxLen, Reserve(n)
    PROVE  Allowed
  <1> DEFINE c == NextCapacity(n)
             s == Content
  <1>0. n \in Int /\ call'.op = "reserve" /\ result' \in BOOLEAN /\ Exists
    BY StringAssumption DEF Reserve, Return
  <1>1. Content' = Content
    <2>1. CASE UNCHANGED bufVars
      BY <2>1, ContentKept
    <2>2. CASE InBlock(Moved(c), c, size) /\ n > size
      <3>0. /\ size \in Nat /\ Length \in Nat /\ s \in Seq(Cells) /\ Len(s) = Length
            /\ (size = 0 => Length = 0) /\ (size > 0 => Length = size - 1)
            /\ \A i \in 1 .. Length : s[i] = Buffer[i - 1]
        BY ContentCells
      <3>1. c \in Nat /\ c >= n
        BY <1>0, <2>2, <3>0, CapacityFits, StringAssumption
      <3>2. \A i \in 0 .. c - 1 : i < size => Moved(c)[i] = Buffer[i]
        BY <1>0, <3>1, MovedFits
      <3>3. \A i \in 1 .. Length : Moved(c)[i - 1] = s[i]
        <4>1. \A i \in 1 .. Length : i - 1 \in 0 .. c - 1 /\ i - 1 < size
          BY <1>0, <2>2, <3>0, <3>1
        <4>q. QED BY <3>0, <3>2, <4>1
      <3>4. Buffer' = Moved(c) /\ data' # "gone" /\ size' = size
        <4> HIDE DEF c
        <4>q. QED BY <2>2, InBlockBuffer
      <3> HIDE DEF c
      <3>5. CASE size = 0
        <4>1. Content' = <<>>
          BY <3>4, <3>5, ContentEmpty
        <4>2. s = <<>>
          BY <3>0, <3>5
        <4>q. QED BY <4>1, <4>2
      <3>6. CASE size > 0
        <4> HIDE DEF s
        <4>1. size' = Len(s) + 1 /\ \A i \in 1 .. Len(s) : Buffer'[i - 1] = s[i]
          BY <3>0, <3>3, <3>4, <3>6
        <4>2. Content' = s
          BY <3>0, <3>4, <4>1, ContentBecomes
        <4>q. QED BY <4>2 DEF s
      <3>q. QED BY <3>0, <3>5, <3>6
    <2>3. CASE n <= size \/ capacity >= n
      BY <2>1, <2>3 DEF Reserve
    <2>4. CASE ~(n <= size \/ capacity >= n)
      <3>1. n > size
        BY <1>0, <2>4 DEF BufInv
      <3>q. QED BY <2>1, <2>2, <2>4, <3>1 DEF Reserve, NoMemory
    <2>q. QED BY <2>3, <2>4
  <1>2. Str!After(call', Content) = Content /\ Str!AfterFailure(call', Content) = Content
    BY <1>0, AfterCases, Zenon
  <1>q. QED BY <1>0, <1>1, <1>2, SuccessAllowed, FailureAllowed

LEMMA ResizeAllowed ==
    ASSUME BufInv, NEW n \in 0 .. MaxLen, Resize(n)
    PROVE  Allowed
  <1> DEFINE c == NextCapacity(n + 1)
             s == Content
             u == [i \in 1 .. n |-> IF i <= Len(s) THEN s[i] ELSE Nul]
  <1>0. /\ n \in Nat /\ n + 1 <= MaxLen + 1 /\ Exists /\ call'.op = "resize" /\ call'.n = n
        /\ call'.arg = <<>> /\ result' = ~failed'
    BY StringAssumption DEF Resize, Return
  <1>s. /\ size \in Nat /\ Length \in Nat /\ s \in Seq(Cells) /\ Len(s) = Length
        /\ (size = 0 => Length = 0) /\ (size > 0 => Length = size - 1)
        /\ \A i \in 1 .. Length : s[i] = Buffer[i - 1]
        /\ size > 0 => Buffer[size - 1] = Nul
    BY ContentCells DEF BufInv
  <1>u. /\ u \in Seq(Cells) /\ Len(u) = n
        /\ \A i \in 1 .. n : i <= Length => u[i] = s[i]
        /\ \A i \in 1 .. n : ~(i <= Length) => u[i] = Nul
    <2>1. \A i \in 1 .. n : u[i] \in Cells
      BY <1>s, NulIsCell
    <2>q. QED BY <1>0, <1>s, <2>1
  <1>a. Str!After(call', s) = u
    <2>1. Str!After(call', s) = [i \in 1 .. call'.n |-> IF i <= Len(s) THEN s[i] ELSE Nul]
      <3> HIDE DEF s
      <3>q. QED BY <1>0, AfterCases, Zenon
    <2>q. QED BY <1>0, <2>1
  <1>b. ASSUME NEW b, Buffer' = b, data' # "gone", size' = n + 1, failed' = FALSE,
               \A i \in 1 .. n : b[i - 1] = u[i]
        PROVE  Allowed
    <2> HIDE DEF s, u
    <2>1. size' = Len(u) + 1 /\ \A i \in 1 .. Len(u) : Buffer'[i - 1] = u[i]
      BY <1>b, <1>u
    <2>2. Content' = u
      BY <1>b, <1>u, <2>1, ContentBecomes
    <2>q. QED BY <1>0, <1>a, <1>b, <2>2, SuccessAllowed DEF s
  <1>1. CASE n = 0
    <2>1. Cleared
      BY <1>1 DEF Resize
    <2>2. size' = 0 /\ failed' = FALSE
      BY <2>1 DEF Cleared
    <2>3. Content' = <<>> /\ result' = TRUE
      BY <1>0, <2>2, ContentEmpty
    <2>4. u = <<>>
      BY <1>1, <1>u
    <2> HIDE DEF u
    <2>q. QED BY <1>a, <2>3, <2>4, SuccessAllowed
  <1>2. CASE n # 0 /\ n < size
    <2>1. data \in {"small", "heap"}
      BY <1>2, <1>0 DEF BufInv, Exists
    <2> DEFINE b == [Buffer EXCEPT ![n] = Nul]
    <2>2. InPlace(b, n + 1)
      BY <1>2 DEF Resize
    <2>3. \A i \in 1 .. n : b[i - 1] = u[i]
      <3>1. Buffer \in [0 .. Room - 1 -> Cells] /\ size <= Room /\ Room \in Nat
        BY <2>1, BufferIs
      <3>2. \A i \in 1 .. n : i - 1 \in 0 .. Room - 1 /\ i - 1 # n /\ i <= Length /\ i \in 1 .. Length
        BY <1>0, <1>2, <1>s, <3>1
      <3>3. \A i \in 1 .. n : b[i - 1] = Buffer[i - 1]
        BY <3>1, <3>2
      <3>q. QED BY <1>s, <1>u, <3>2, <3>3
    <2>4. InPlace(b, n + 1) => failed' = FALSE
      BY DEF InPlace
    <2> HIDE DEF b, u
    <2>5. Buffer' = b /\ data' # "gone" /\ size' = n + 1
      BY <2>1, <2>2, InPlaceBuffer
    <2>q. QED BY <1>b, <2>2, <2>3, <2>4, <2>5
  \* The bytes from the old end, which was a 0, to the new one.
  <1>l. ASSUME NEW b, ~(n < size), 0 .. size - 1 \subseteq DOMAIN b,
               \A i \in 0 .. size - 1 : b[i] = Buffer[i]
        PROVE  \A i \in 1 .. n : Lengthened(b, n)[i - 1] = u[i]
    <2> SUFFICES ASSUME NEW i \in 1 .. n PROVE Lengthened(b, n)[i - 1] = u[i]
      OBVIOUS
    <2>0. i \in Nat /\ i > 0
      BY <1>0
    <2>1. CASE i - 1 < size
      <3>1. i - 1 \in DOMAIN b \union size .. n /\ i - 1 \notin size .. n /\ i - 1 \in 0 .. size - 1
        BY <1>l, <1>s, <2>0, <2>1
      <3>2. Lengthened(b, n)[i - 1] = Buffer[i - 1]
        BY <1>l, <3>1 DEF Lengthened, Zeroed
      <3>3. CASE i <= Length
        <4>1. i \in 1 .. Length
          BY <1>s, <2>0, <3>3
        <4>q. QED BY <1>s, <1>u, <3>2, <3>3, <4>1
      <3>4. CASE ~(i <= Length)
        <4>1. i - 1 = size - 1 /\ size > 0
          BY <1>s, <2>0, <2>1, <3>4
        <4>q. QED BY <1>s, <1>u, <3>2, <3>4, <4>1
      <3>q. QED BY <3>3, <3>4
    <2>2. CASE ~(i - 1 < size)
      <3>1. i - 1 \in size .. n
        BY <1>0, <1>s, <2>0, <2>2
      <3>2. Lengthened(b, n)[i - 1] = Nul
        BY <3>1 DEF Lengthened, Zeroed
      <3>3. ~(i <= Length)
        BY <1>s, <2>0, <2>2
      <3>q. QED BY <1>u, <3>2, <3>3
    <2>q. QED BY <2>1, <2>2
  <1>3. CASE n # 0 /\ ~(n < size) /\ InPlace(Lengthened(Buffer, n), n + 1) /\ Fits(n)
    <2> DEFINE b == Lengthened(Buffer, n)
    <2>1. data \in {"small", "heap"}
      BY <1>0, <1>3 DEF BufInv, Fits, Room, Exists
    <2>2. Buffer \in [0 .. Room - 1 -> Cells] /\ size <= Room /\ Room \in Nat
      BY <2>1, BufferIs
    <2>3. 0 .. size - 1 \subseteq DOMAIN Buffer
      BY <1>s, <2>2
    <2> HIDE DEF u
    <2>4. \A i \in 1 .. n : b[i - 1] = u[i]
      BY <1>3, <1>l, <2>3
    <2>5. InPlace(b, n + 1) => failed' = FALSE
      BY DEF InPlace
    <2>6. InPlace(b, n + 1)
      BY <1>3
    <2> HIDE DEF b
    <2>7. Buffer' = b /\ data' # "gone" /\ size' = n + 1
      BY <2>1, <2>6, InPlaceBuffer
    <2>q. QED BY <1>b, <2>4, <2>5, <2>6, <2>7
  <1>4. CASE n # 0 /\ ~(n < size) /\ InBlock(Lengthened(Moved(c), n), c, n + 1)
    <2> DEFINE b == Lengthened(Moved(c), n)
    <2>1. c \in Nat /\ c >= n + 1
      BY <1>0, CapacityFits, StringAssumption
    <2>2. Moved(c) \in [0 .. c - 1 -> Cells] /\ \A i \in 0 .. c - 1 : i < size => Moved(c)[i] = Buffer[i]
      BY <1>0, <2>1, MovedFits
    <2>6. InBlock(b, c, n + 1)
      BY <1>4
    <2> HIDE DEF c, u
    <2>3. 0 .. size - 1 \subseteq DOMAIN Moved(c) /\ \A i \in 0 .. size - 1 : Moved(c)[i] = Buffer[i]
      BY <1>0, <1>4, <1>s, <2>1, <2>2
    <2>4. \A i \in 1 .. n : b[i - 1] = u[i]
      BY <1>4, <1>l, <2>3
    <2>5. InBlock(b, c, n + 1) => failed' = FALSE
      BY DEF InBlock
    <2> HIDE DEF b
    <2>7. Buffer' = b /\ data' # "gone" /\ size' = n + 1
      BY <2>6, InBlockBuffer
    <2>q. QED BY <1>b, <2>4, <2>5, <2>6, <2>7
  <1>5. CASE NoMemory
    <2>1. UNCHANGED bufVars /\ result' = FALSE
      BY <1>0, <1>5 DEF NoMemory
    <2>q. QED BY <1>0, <2>1, RefusedAllowed
  <1>q. QED BY <1>1, <1>2, <1>3, <1>4, <1>5 DEF Resize

LEMMA AssignAllowed ==
    ASSUME BufInv, NEW t \in Texts, Assign(t)
    PROVE  Allowed
  <1> DEFINE c == NextCapacity(Len(t) + 1)
  <1>0. /\ Exists /\ t \in Seq(Cells) /\ Len(t) \in Nat
        /\ call'.op = "assign" /\ call'.arg = t /\ result' = ~failed'
    BY TextOK DEF Assign, Return
  <1>t. \A w : \A i \in 1 .. Len(t) : Copied(w, t, 0)[i - 1] = t[i]
    BY <1>0, CopiedFirst
  <1>b. ASSUME NEW w, Buffer' = Copied(w, t, 0), data' # "gone", size' = Len(t) + 1, failed' = FALSE
        PROVE  Allowed
    <2>1. Content' = t
      BY <1>0, <1>b, <1>t, ContentBecomes
    <2>2. Str!After(call', Content) = call'.arg
      BY <1>0, AfterCases, Zenon
    <2>q. QED BY <1>0, <1>b, <2>1, <2>2, SuccessAllowed
  <1>1. CASE Fits(Len(t)) /\ InPlace(Copied(Buffer, t, 0), Len(t) + 1)
    <2>1. data \in {"small", "heap"}
      BY <1>0, <1>1 DEF BufInv, Fits, Room, Exists
    <2>2. failed' = FALSE
      BY <1>1 DEF InPlace
    <2>3. Buffer' = Copied(Buffer, t, 0) /\ data' # "gone" /\ size' = Len(t) + 1
      BY <1>1, <2>1, InPlaceBuffer
    <2> DEFINE old == Buffer
    <2>4. Buffer' = Copied(old, t, 0)
      BY <2>3
    <2> HIDE DEF old
    <2>q. QED BY <1>b, <2>2, <2>3, <2>4
  <1>2. CASE InBlock(Copied([i \in 0 .. c - 1 |-> Junk], t, 0), c, Len(t) + 1)
    <2>1. failed' = FALSE
      BY <1>2 DEF InBlock
    <2> DEFINE new == [i \in 0 .. c - 1 |-> Junk]
    <2> HIDE DEF c
    <2>2. InBlock(Copied(new, t, 0), c, Len(t) + 1)
      BY <1>2
    <2> HIDE DEF new
    <2>3. Buffer' = Copied(new, t, 0) /\ data' # "gone" /\ size' = Len(t) + 1
      BY <2>2, InBlockBuffer
    <2>q. QED BY <1>b, <2>1, <2>3
  \* The bytes of the text are not copied: its length alone is right.
  <1>3. CASE ~Fits(Len(t)) /\ data # "small" /\ InBlock([Moved(c) EXCEPT ![Len(t)] = Nul], c, Len(t) + 1)
    <2>1. failed' = FALSE /\ data' = "heap" /\ size' = Len(t) + 1
      BY <1>3 DEF InBlock
    <2>2. Length' = Len(t)
      BY <1>0, <2>1 DEF Length
    <2>3. Content' = [i \in 1 .. Len(t) |-> Buffer'[i - 1]]
      BY <2>1, <2>2 DEF Content
    <2>4. Len(Content') = Len(t)
      BY <1>0, <2>3
    <2>5. data \in {"heap", "null"} /\ Len(t) >= capacity
      BY <1>0, <1>3 DEF BufInv, Exists, Fits, Room
    <2>q. QED BY <1>0, <2>1, <2>4, <2>5 DEF Allowed, GrowLoses
  <1>4. CASE NoMemory
    <2>1. UNCHANGED bufVars /\ result' = FALSE
      BY <1>0, <1>4 DEF NoMemory
    <2>q. QED BY <1>0, <2>1, RefusedAllowed
  <1>q. QED BY <1>1, <1>2, <1>3, <1>4 DEF Assign

LEMMA TakeOwnershipAllowed ==
    ASSUME BufInv, NEW t \in Texts, TakeOwnership(t)
    PROVE  Allowed
  <1>0. t \in Seq(Cells) /\ Len(t) \in Nat
    BY TextOK
  <1>1. /\ data' = "heap" /\ size' = Len(t) + 1 /\ heap' = Copied(NoBlock, t, 0)
        /\ call'.op = "take" /\ call'.arg = t /\ result' = TRUE
    BY DEF TakeOwnership, Return
  <1>2. Buffer' = Copied(NoBlock, t, 0)
    BY <1>1 DEF Buffer
  <1>3. \A i \in 1 .. Len(t) : Copied(NoBlock, t, 0)[i - 1] = t[i]
    BY <1>0, CopiedFirst
  <1>4. Content' = t
    BY <1>0, <1>1, <1>2, <1>3, ContentBecomes
  <1>5. Str!After(call', Content) = call'.arg
    BY <1>1, AfterCases, Zenon
  <1>q. QED BY <1>1, <1>4, <1>5, SuccessAllowed

LEMMA MadeAllowed ==
    ASSUME BufInv, NEW t \in Texts, InitFrom(t) \/ Substr(t)
    PROVE  Allowed
  <1>0. /\ t \in Seq(Cells) /\ Made(t) /\ result' = ~failed' /\ call'.arg = t
        /\ \/ call'.op = "substr"
           \/ call'.op = "init" /\ data = "gone"
    BY TextOK DEF InitFrom, Substr, Return, Exists
  <1>1. CASE failed' = FALSE /\ Content' = t
    <2>1. Str!After(call', Content) = call'.arg
      BY <1>0, AfterCases, Zenon
    <2>q. QED BY <1>0, <1>1, <2>1, SuccessAllowed
  <1>2. CASE failed' = TRUE /\ Content' = <<>>
    <2>1. CASE call'.op = "substr"
      <3>1. Str!AfterFailure(call', Content) = <<>>
        BY <2>1, AfterCases, Zenon
      <3>q. QED BY <1>0, <1>2, <3>1, FailureAllowed
    <2>2. CASE call'.op = "init" /\ data = "gone"
      <3>1. Content = <<>>
        BY <2>2, ContentCells
      <3>2. Str!AfterFailure(call', Content) = Content
        BY <2>2, AfterCases, Zenon
      <3>q. QED BY <1>0, <1>2, <3>1, <3>2, FailureAllowed
    <2>q. QED BY <1>0, <2>1, <2>2
  <1>q. QED BY <1>0, <1>1, <1>2, MadeText

LEMMA AppendAllowed ==
    ASSUME BufInv, \/ \E t \in Texts : AppendText(t)
                   \/ \E ch \in DOMAIN Code : PushBack(ch)
    PROVE  Allowed
  <1>1. PICK t \in Seq(Cells) :
            /\ Appended(t) /\ call'.op = "append" /\ call'.arg = t
            /\ \/ result' = ~failed'
               \/ result' = TRUE /\ Len(t) = 1
    <2>1. ASSUME NEW t \in Texts, AppendText(t)
          PROVE  /\ t \in Seq(Cells) /\ Appended(t) /\ call'.op = "append" /\ call'.arg = t
                 /\ result' = ~failed'
      BY <2>1, TextOK DEF AppendText, Return
    <2>2. ASSUME NEW ch \in DOMAIN Code, PushBack(ch)
          PROVE  /\ <<ch>> \in Seq(Cells) /\ Appended(<<ch>>) /\ call'.op = "append"
                 /\ call'.arg = <<ch>> /\ result' = TRUE /\ Len(<<ch>>) = 1
      BY <2>2 DEF PushBack, Return, Cells
    <2>q. QED BY <2>1, <2>2
  <1>2. CASE failed' = FALSE /\ Content' = Content \o t
    <2>1. Str!After(call', Content) = Content \o call'.arg
      BY <1>1, AfterCases, Zenon
    <2>q. QED BY <1>1, <1>2, <2>1, SuccessAllowed
  <1>3. CASE failed' = TRUE /\ Content' = Content
    <2>1. CASE result' = FALSE
      <3>1. Str!AfterFailure(call', Content) = Content
        BY <1>1, AfterCases, Zenon
      <3>q. QED BY <1>3, <2>1, <3>1, FailureAllowed
    <2>2. CASE result' = TRUE
      BY <1>1, <1>3, <2>2 DEF Allowed, PushLoses
    <2>q. QED BY <1>1, <1>3, <2>1, <2>2
  <1>q. QED BY <1>1, <1>2, <1>3, AppendedText

LEMMA AppendSelfAllowed ==
    ASSUME BufInv, AppendSelf
    PROVE  Allowed
  <1> DEFINE s == Content
             junk == [i \in 1 .. Length |-> Junk]
  <1>0. /\ s \in Seq(Cells) /\ Len(s) = Length /\ Length \in Nat
        /\ call'.op = "append_self" /\ result' = ~failed'
    BY ContentCells DEF AppendSelf, Return
  <1>1. junk \in Seq(Cells) /\ Len(junk) = Length
    BY <1>0, NulIsCell
  <1>f. CASE failed' = TRUE /\ Content' = Content
    <2>1. Str!AfterFailure(call', Content) = Content
      BY <1>0, AfterCases, Zenon
    <2>q. QED BY <1>0, <1>f, <2>1, FailureAllowed
  <1>2. CASE Appended(s)
    <2>1. CASE failed' = FALSE /\ Content' = s \o s
      <3>1. Str!After(call', Content) = s \o s
        BY <1>0, AfterCases, Zenon
      <3>q. QED BY <1>0, <2>1, <3>1, SuccessAllowed
    <2>q. QED BY <1>0, <1>2, <1>f, <2>1, AppendedText
  \* The view of the old block reads freed memory.
  <1>3. CASE data = "heap" /\ Appended(junk)
    <2> HIDE DEF junk
    <2>1. CASE failed' = FALSE /\ Content' = s \o junk
      <3> HIDE DEF s
      <3>1. Len(s \o junk) = Len(s) + Len(junk) /\ Len(s) \in Nat
        BY <1>0, <1>1, ConcatProperties
      <3>2. Len(s \o junk) = 2 * Length
        BY <1>0, <1>1, <3>1
      <3>3. SubSeq(s \o junk, 1, Length) = s
        <4>1. s \o junk \in Seq(Cells)
          BY <1>0, <1>1, ConcatProperties
        <4>2. \A i \in 1 .. Length : (s \o junk)[i] = s[i]
          BY <1>0, <1>1
        <4>3. 1 \in Int /\ Length <= Len(s \o junk)
          BY <1>0, <3>2
        <4> DEFINE w == s \o junk
        <4> HIDE DEF w
        <4>4. /\ SubSeq(w, 1, Length) \in Seq(Cells) /\ Len(SubSeq(w, 1, Length)) = Length
              /\ \A i \in 1 .. Length : SubSeq(w, 1, Length)[i] = w[i]
          BY <1>0, <4>1, <4>3 DEF w
        <4>5. SubSeq(w, 1, Length) = s
          BY <1>0, <4>2, <4>4, SeqEqual DEF w
        <4>q. QED BY <4>5 DEF w
      <3>q. QED BY <1>0, <1>3, <2>1, <3>2, <3>3 DEF Allowed, SelfLoses, s
    <2>q. QED BY <1>0, <1>1, <1>3, <1>f, <2>1, AppendedText
  <1>q. QED BY <1>2, <1>3 DEF AppendSelf

LEMMA SubstrSelfAllowed ==
    ASSUME BufInv, NEW pos \in 0 .. MaxLen, NEW len \in 0 .. MaxLen, SubstrSelf(pos, len)
    PROVE  Allowed
  <1> DEFINE s == Subview(Content, pos, len)
             lost == IF data = "small" THEN Nul ELSE Junk
             t == [i \in 1 .. Len(s) |-> lost]
  <1>0. /\ Content \in Seq(Cells) /\ call'.op = "substr_self" /\ call'.n = pos /\ call'.len = len
        /\ result' = ~failed' /\ Made(t)
    BY ContentCells DEF SubstrSelf, Return
  <1>1. s \in Seq(Cells)
    BY <1>0, StringAssumption DEF Subview
  <1>2. t \in Seq(Cells) /\ Len(t) = Len(s)
    BY <1>1, NulIsCell
  <1> HIDE DEF t
  <1>3. CASE failed' = FALSE /\ Content' = t
    <2>1. Len(Content') = Len(Subview(Content, call'.n, call'.len))
      BY <1>0, <1>2, <1>3
    <2>q. QED BY <1>0, <2>1 DEF Allowed, SelfLoses
  <1>4. CASE failed' = TRUE /\ Content' = <<>>
    <2>1. Str!AfterFailure(call', Content) = <<>>
      BY <1>0, AfterCases, Zenon
    <2>q. QED BY <1>0, <1>4, <2>1, FailureAllowed
  <1>q. QED BY <1>0, <1>2, <1>3, <1>4, MadeText

LEMMA NextAllowed ==
    ASSUME BufInv, Next
    PROVE  Allowed
  <1>1. CASE StringInit \/ Destroy \/ AssignNull \/ Clear
    <2>1. size' = 0 /\ result' = TRUE /\ call'.arg = <<>>
      BY <1>1 DEF StringInit, Destroy, AssignNull, Clear, Cleared, Return
    <2>2. call'.op \in {"init", "destroy", "assign", "clear"}
      BY <1>1 DEF StringInit, Destroy, AssignNull, Clear, Return
    <2>q. QED BY <2>1, <2>2, EmptiedAllowed
  <1>2. CASE InitRefused \/ AppendRefused
    <2>1. UNCHANGED bufVars /\ result' = FALSE /\ call'.op = "refused"
      BY <1>2 DEF InitRefused, AppendRefused, Return
    <2>q. QED BY <2>1, RefusedAllowed
  <1>q. QED BY <1>1, <1>2, AppendSelfAllowed, MadeAllowed, TakeOwnershipAllowed, AssignAllowed,
               AppendAllowed, ReserveAllowed, ResizeAllowed, SubstrSelfAllowed DEF Next

\* Every operation does to the text what the same operation does to a sequence,
\* whatever the sizes of the buffers and whichever allocation fails, save for
\* the three cases that GrowLoses, PushLoses and SelfLoses describe.
THEOREM StringIsSequence == Spec => ImplementsString
  <1>1. Init => Str!Init
    BY ContentEmpty DEF Init, Str!Init, Content
  <1>2. StrInv /\ [Next]_strVars =>
            [Str!Next \/ GrowLoses \/ PushLoses \/ SelfLoses]_<<Content, call, result>>
    <2>1. CASE UNCHANGED strVars
      BY <2>1, ContentKept DEF strVars
    <2>2. ASSUME StrInv, Next PROVE Str!Next \/ GrowLoses \/ PushLoses \/ SelfLoses
      BY <2>2, NextAllowed DEF StrInv, Allowed
    <2>q. QED BY <2>1, <2>2
  <1>q. QED BY StrInvAlways, <1>1, <1>2, PTL DEF Spec, ImplementsString
=============================================================================
