---------------------------- MODULE ReactorProofs ----------------------------
(***************************************************************************)
(* Invariants of Reactor, for any number of clients, workers and file      *)
(* numbers, and its refinement of ClientService.                           *)
(***************************************************************************)
EXTENDS Reactor, SequenceTheorems, FiniteSetTheorems, TLAPS

LOCAL INSTANCE SequencesExt

Sources == Clients \union {Listen}

-----------------------------------------------------------------------------
(* Sequences of events.                                                    *)

NoRepeat(s) == \A i, j \in DOMAIN s : s[i] = s[j] => i = j

LEMMA ToSetOf ==
    ASSUME NEW S, NEW s \in Seq(S)
    PROVE  /\ ToSet(s) \subseteq S
           /\ ToSet(s) = {s[i] : i \in 1 .. Len(s)}
           /\ s \in Seq(ToSet(s))
<1>1. DOMAIN s = 1 .. Len(s) /\ Len(s) \in Nat /\ s \in [1 .. Len(s) -> S]
    BY LenProperties
<1>2. s \in [1 .. Len(s) -> ToSet(s)]
    BY <1>1 DEF ToSet
<1>3. s \in Seq(ToSet(s))
    <2>1. Seq(ToSet(s)) = UNION {[1 .. n -> ToSet(s)] : n \in Nat}
        BY SeqDef
    <2> QED BY <2>1, <1>1, <1>2, Zenon
<1> QED BY <1>1, <1>2, <1>3 DEF ToSet

LEMMA AppendOf ==
    ASSUME NEW S, NEW s \in Seq(S), NEW x \in S
    PROVE  /\ Append(s, x) \in Seq(S)
           /\ ToSet(Append(s, x)) = ToSet(s) \union {x}
           /\ NoRepeat(s) /\ x \notin ToSet(s) => NoRepeat(Append(s, x))
<1>1. /\ Append(s, x) \in Seq(S) /\ Len(Append(s, x)) = Len(s) + 1
      /\ \A i \in 1 .. Len(s) : Append(s, x)[i] = s[i]
      /\ Append(s, x)[Len(s) + 1] = x
    BY AppendProperties
<1>2. /\ DOMAIN s = 1 .. Len(s) /\ Len(s) \in Nat
      /\ DOMAIN Append(s, x) = 1 .. (Len(s) + 1)
    BY <1>1, LenProperties
<1>3. ToSet(Append(s, x)) = ToSet(s) \union {x}
    BY <1>1, <1>2 DEF ToSet
<1>4. NoRepeat(s) /\ x \notin ToSet(s) => NoRepeat(Append(s, x))
    BY <1>1, <1>2 DEF ToSet, NoRepeat
<1> QED BY <1>1, <1>3, <1>4

LEMMA TailOf ==
    ASSUME NEW S, NEW s \in Seq(S), s # <<>>
    PROVE  /\ Head(s) \in S /\ Tail(s) \in Seq(S)
           /\ ToSet(s) = {Head(s)} \union ToSet(Tail(s))
           /\ NoRepeat(s) => NoRepeat(Tail(s)) /\ Head(s) \notin ToSet(Tail(s))
<1>1. /\ Head(s) \in S /\ Tail(s) \in Seq(S) /\ Len(Tail(s)) = Len(s) - 1
      /\ \A i \in 1 .. Len(Tail(s)) : Tail(s)[i] = s[i + 1]
    BY HeadTailProperties
<1>2. /\ DOMAIN s = 1 .. Len(s) /\ Len(s) \in Nat \ {0} /\ Head(s) = s[1]
      /\ DOMAIN Tail(s) = 1 .. (Len(s) - 1)
    BY <1>1, LenProperties, EmptySeq
<1>3. ToSet(s) \subseteq {Head(s)} \union ToSet(Tail(s))
    <2> SUFFICES ASSUME NEW i \in 1 .. Len(s), s[i] # Head(s) PROVE s[i] \in ToSet(Tail(s))
        BY <1>2 DEF ToSet
    <2>1. i - 1 \in 1 .. (Len(s) - 1) /\ Tail(s)[i - 1] = s[i]
        BY <1>1, <1>2
    <2> QED BY <2>1, <1>2 DEF ToSet
<1>4. {Head(s)} \union ToSet(Tail(s)) \subseteq ToSet(s)
    BY <1>1, <1>2 DEF ToSet
<1>5. NoRepeat(s) => NoRepeat(Tail(s)) /\ Head(s) \notin ToSet(Tail(s))
    BY <1>1, <1>2 DEF ToSet, NoRepeat
<1> QED BY <1>1, <1>3, <1>4, <1>5

LEMMA PartOf ==
    ASSUME NEW S, NEW s \in Seq(S), NEW m \in 1 .. Len(s) + 1, NEW n \in m - 1 .. Len(s)
    PROVE  /\ SubSeq(s, m, n) \in Seq(S) /\ Len(SubSeq(s, m, n)) = n - m + 1
           /\ \A i \in 1 .. n - m + 1 : SubSeq(s, m, n)[i] = s[m + i - 1]
<1> DEFINE r == SubSeq(s, m, n)
<1>1. Len(s) \in Nat /\ m \in Int /\ n \in Int /\ \A i \in 1 .. Len(s) : s[i] \in S
    BY LenProperties, ElementOfSeq
<1>2. \A i \in m .. n : s[i] \in S
    BY <1>1
<1> HIDE DEF r
<1>3. /\ r \in Seq(S) /\ Len(r) = IF m <= n THEN n - m + 1 ELSE 0
      /\ \A i \in 1 .. n - m + 1 : r[i] = s[m + i - 1]
    BY <1>1, <1>2, SubSeqProperties DEF r
<1>4. CASE m <= n
    BY <1>3, <1>4 DEF r
<1>5. CASE m = n + 1
    BY <1>1, <1>3, <1>5 DEF r
<1> QED BY <1>1, <1>4, <1>5

LEMMA SplitOf ==
    ASSUME NEW S, NEW s \in Seq(S), NEW n \in 0 .. Len(s)
    PROVE  LET a == SubSeq(s, 1, n)
               b == SubSeq(s, n + 1, Len(s))
           IN  /\ a \in Seq(S) /\ b \in Seq(S) /\ Len(a) = n
               /\ ToSet(s) = ToSet(a) \union ToSet(b)
               /\ NoRepeat(s) => NoRepeat(a) /\ NoRepeat(b) /\ ToSet(a) \intersect ToSet(b) = {}
<1> DEFINE a == SubSeq(s, 1, n)
           b == SubSeq(s, n + 1, Len(s))
<1> HIDE DEF a, b
<1>1. DOMAIN s = 1 .. Len(s) /\ Len(s) \in Nat /\ \A i \in 1 .. Len(s) : s[i] \in S
    BY LenProperties, ElementOfSeq
<1>2. a \in Seq(S) /\ Len(a) = n /\ \A i \in 1 .. n : a[i] = s[i]
    <2>1. 1 \in 1 .. Len(s) + 1 /\ n \in 1 - 1 .. Len(s)
        BY <1>1
    <2>2. /\ a \in Seq(S) /\ Len(a) = n - 1 + 1
          /\ \A i \in 1 .. n - 1 + 1 : a[i] = s[1 + i - 1]
        BY <2>1, PartOf DEF a
    <2> QED BY <1>1, <2>2
<1>3. /\ b \in Seq(S) /\ Len(b) = Len(s) - n
      /\ \A i \in 1 .. Len(s) - n : b[i] = s[n + i]
    <2>1. n + 1 \in 1 .. Len(s) + 1 /\ Len(s) \in n + 1 - 1 .. Len(s)
        BY <1>1
    <2>2. /\ b \in Seq(S) /\ Len(b) = Len(s) - (n + 1) + 1
          /\ \A i \in 1 .. Len(s) - (n + 1) + 1 : b[i] = s[n + 1 + i - 1]
        BY <2>1, PartOf DEF b
    <2>3. Len(s) - (n + 1) + 1 = Len(s) - n
        BY <1>1
    <2>4. ASSUME NEW i \in 1 .. Len(s) - n PROVE b[i] = s[n + i]
        <3>1. n + 1 + i - 1 = n + i
            BY <1>1
        <3> QED BY <3>1, <2>2, <2>3
    <2> QED BY <2>2, <2>3, <2>4
<1>4. DOMAIN a = 1 .. n /\ DOMAIN b = 1 .. (Len(s) - n)
    BY <1>2, <1>3, LenProperties
<1>5. ToSet(s) \subseteq ToSet(a) \union ToSet(b)
    <2> SUFFICES ASSUME NEW i \in 1 .. Len(s) PROVE s[i] \in ToSet(a) \union ToSet(b)
        BY <1>1 DEF ToSet
    <2>1. CASE i <= n
        BY <2>1, <1>2, <1>4 DEF ToSet
    <2>2. CASE i > n
        <3>1. i - n \in DOMAIN b /\ b[i - n] = s[i]
            BY <2>2, <1>1, <1>3, <1>4
        <3> QED BY <3>1 DEF ToSet
    <2> QED BY <2>1, <2>2
<1>6. ToSet(a) \union ToSet(b) \subseteq ToSet(s)
    <2>1. \A i \in DOMAIN a : i \in DOMAIN s /\ a[i] = s[i]
        BY <1>1, <1>2, <1>4
    <2>2. \A i \in DOMAIN b : n + i \in DOMAIN s /\ b[i] = s[n + i]
        BY <1>1, <1>3, <1>4
    <2> QED BY <2>1, <2>2 DEF ToSet
<1>7. NoRepeat(s) => NoRepeat(a) /\ NoRepeat(b)
    <2>1. NoRepeat(s) => NoRepeat(a)
        BY <1>1, <1>2, <1>4 DEF NoRepeat
    <2>2. ASSUME NoRepeat(s), NEW i \in DOMAIN b, NEW j \in DOMAIN b, b[i] = b[j] PROVE i = j
        <3>1. s[n + i] = s[n + j] /\ n + i \in DOMAIN s /\ n + j \in DOMAIN s
            BY <1>1, <1>3, <1>4, <2>2
        <3>2. n + i = n + j
            BY <3>1, <2>2 DEF NoRepeat
        <3> QED BY <3>2, <1>4
    <2> QED BY <2>1, <2>2 DEF NoRepeat
<1>8. NoRepeat(s) => ToSet(a) \intersect ToSet(b) = {}
    <2> SUFFICES ASSUME NoRepeat(s), NEW i \in DOMAIN a, NEW j \in DOMAIN b, a[i] = b[j]
                 PROVE FALSE
        BY DEF ToSet
    <2>1. i \in 1 .. n /\ j \in 1 .. (Len(s) - n)
        BY <1>4
    <2>2. s[i] = s[n + j]
        BY <2>1, <1>2, <1>3
    <2>3. i \in DOMAIN s /\ n + j \in DOMAIN s /\ i # n + j
        BY <2>1, <1>1
    <2> QED BY <2>2, <2>3 DEF NoRepeat
<1> QED BY <1>2, <1>3, <1>5, <1>6, <1>7, <1>8 DEF a, b

LEMMA RemoveAtOf ==
    ASSUME NEW S, NEW s \in Seq(S), NEW k \in 1 .. Len(s)
    PROVE  /\ RemoveAt(s, k) \in Seq(S) /\ Len(RemoveAt(s, k)) = Len(s) - 1
           /\ \A i \in 1 .. k - 1 : RemoveAt(s, k)[i] = s[i]
           /\ \A i \in k .. Len(s) - 1 : RemoveAt(s, k)[i] = s[i + 1]
<1> DEFINE a == SubSeq(s, 1, k - 1)
           b == SubSeq(s, k + 1, Len(s))
<1> HIDE DEF a, b
<1>1. DOMAIN s = 1 .. Len(s) /\ Len(s) \in Nat /\ \A i \in 1 .. Len(s) : s[i] \in S
    BY LenProperties, ElementOfSeq
<1>2. a \in Seq(S) /\ Len(a) = k - 1 /\ \A i \in 1 .. k - 1 : a[i] = s[i]
    <2>1. 1 \in 1 .. Len(s) + 1 /\ k - 1 \in 1 - 1 .. Len(s)
        BY <1>1
    <2>2. /\ a \in Seq(S) /\ Len(a) = k - 1 - 1 + 1
          /\ \A i \in 1 .. k - 1 - 1 + 1 : a[i] = s[1 + i - 1]
        BY <2>1, PartOf DEF a
    <2> QED BY <1>1, <2>2
<1>3. /\ b \in Seq(S) /\ Len(b) = Len(s) - k
      /\ \A i \in 1 .. Len(s) - k : b[i] = s[k + i]
    <2>1. k + 1 \in 1 .. Len(s) + 1 /\ Len(s) \in k + 1 - 1 .. Len(s)
        BY <1>1
    <2>2. /\ b \in Seq(S) /\ Len(b) = Len(s) - (k + 1) + 1
          /\ \A i \in 1 .. Len(s) - (k + 1) + 1 : b[i] = s[k + 1 + i - 1]
        BY <2>1, PartOf DEF b
    <2>3. Len(s) - (k + 1) + 1 = Len(s) - k
        BY <1>1
    <2>4. ASSUME NEW i \in 1 .. Len(s) - k PROVE b[i] = s[k + i]
        <3>1. k + 1 + i - 1 = k + i
            BY <1>1
        <3> QED BY <3>1, <2>2, <2>3
    <2> QED BY <2>2, <2>3, <2>4
<1>4. /\ a \o b \in Seq(S) /\ Len(a \o b) = Len(a) + Len(b)
      /\ \A i \in 1 .. Len(a) + Len(b) : (a \o b)[i] = IF i <= Len(a) THEN a[i] ELSE b[i - Len(a)]
    BY <1>2, <1>3, ConcatProperties
<1>5. RemoveAt(s, k) = a \o b
    BY DEF RemoveAt, a, b
<1>6. Len(a \o b) = Len(s) - 1
    BY <1>1, <1>2, <1>3, <1>4
<1>7. ASSUME NEW i \in 1 .. k - 1 PROVE (a \o b)[i] = s[i]
    BY <1>1, <1>2, <1>3, <1>4
<1>8. ASSUME NEW i \in k .. Len(s) - 1 PROVE (a \o b)[i] = s[i + 1]
    <2>1. i - (k - 1) \in 1 .. Len(s) - k /\ k + (i - (k - 1)) = i + 1
        BY <1>1
    <2>2. (a \o b)[i] = b[i - (k - 1)]
        BY <1>1, <1>2, <1>3, <1>4
    <2> QED BY <2>1, <2>2, <1>3
<1> QED BY <1>4, <1>5, <1>6, <1>7, <1>8

LEMMA WithoutOf ==
    ASSUME NEW S, NEW s \in Seq(S), NoRepeat(s), NEW x
    PROVE  /\ Without(s, x) \in Seq(S \ {x})
           /\ ToSet(Without(s, x)) = ToSet(s) \ {x}
           /\ NoRepeat(Without(s, x))
<1>1. CASE x \notin ToSet(s)
    <2>1. ToSet(s) \subseteq S \ {x} /\ s \in Seq(ToSet(s))
        BY <1>1, ToSetOf
    <2>2. s \in Seq(S \ {x})
        BY <2>1, SeqMonotonic
    <2> QED BY <1>1, <2>2 DEF Without
<1>2. CASE x \in ToSet(s)
    <2> DEFINE k == CHOOSE i \in DOMAIN s : s[i] = x
               r == RemoveAt(s, k)
    <2>1. k \in DOMAIN s /\ s[k] = x /\ Without(s, x) = r
        BY <1>2 DEF ToSet, Without
    <2> HIDE DEF k
    <2>2. Len(s) \in Nat /\ k \in 1 .. Len(s) /\ DOMAIN s = 1 .. Len(s)
        BY <2>1, LenProperties
    <2>3. /\ r \in Seq(S) /\ Len(r) = Len(s) - 1
          /\ \A i \in 1 .. k - 1 : r[i] = s[i]
          /\ \A i \in k .. Len(s) - 1 : r[i] = s[i + 1]
        BY <2>2, RemoveAtOf
    <2> HIDE DEF r
    <2>4. DOMAIN r = 1 .. (Len(s) - 1)
        BY <2>2, <2>3, LenProperties
    <2>5. ToSet(r) \subseteq ToSet(s) \ {x}
        <3> SUFFICES ASSUME NEW i \in 1 .. Len(s) - 1 PROVE r[i] \in ToSet(s) /\ r[i] # x
            BY <2>4 DEF ToSet
        <3>2. CASE i <= k - 1
            <4>1. i \in 1 .. k - 1 /\ i \in DOMAIN s /\ i # k
                BY <2>2, <3>2
            <4> QED BY <4>1, <2>3, <2>1 DEF ToSet, NoRepeat
        <3>3. CASE i > k - 1
            <4>1. i \in k .. Len(s) - 1 /\ i + 1 \in DOMAIN s /\ i + 1 # k
                BY <2>2, <3>3
            <4> QED BY <4>1, <2>3, <2>1 DEF ToSet, NoRepeat
        <3> QED BY <2>2, <3>2, <3>3
    <2>6. ToSet(s) \ {x} \subseteq ToSet(r)
        <3> SUFFICES ASSUME NEW i \in 1 .. Len(s), s[i] # x PROVE s[i] \in ToSet(r)
            BY <2>2 DEF ToSet
        <3>1. CASE i < k
            <4>1. i \in DOMAIN r /\ r[i] = s[i]
                BY <3>1, <2>2, <2>3, <2>4
            <4> QED BY <4>1 DEF ToSet
        <3>2. CASE i > k
            <4>1. i - 1 \in DOMAIN r /\ r[i - 1] = s[i]
                BY <3>2, <2>2, <2>3, <2>4
            <4> QED BY <4>1 DEF ToSet
        <3> QED BY <3>1, <3>2, <2>1, <2>2
    <2>7. NoRepeat(r)
        <3> SUFFICES ASSUME NEW i \in 1 .. Len(s) - 1, NEW j \in 1 .. Len(s) - 1, r[i] = r[j]
                     PROVE  i = j
            BY <2>4 DEF NoRepeat
        <3>1. CASE i < k /\ j < k
            <4>1. s[i] = s[j] /\ i \in DOMAIN s /\ j \in DOMAIN s
                BY <2>2, <2>3, <3>1
            <4> QED BY <4>1 DEF NoRepeat
        <3>2. CASE i >= k /\ j >= k
            <4>1. s[i + 1] = s[j + 1] /\ i + 1 \in DOMAIN s /\ j + 1 \in DOMAIN s
                BY <2>2, <2>3, <3>2
            <4>2. i + 1 = j + 1
                BY <4>1 DEF NoRepeat
            <4> QED BY <4>2
        <3>3. CASE i < k /\ j >= k
            <4>1. s[i] = s[j + 1] /\ i \in DOMAIN s /\ j + 1 \in DOMAIN s
                BY <2>2, <2>3, <3>3
            <4>2. i = j + 1
                BY <4>1 DEF NoRepeat
            <4> QED BY <4>2, <3>3, <2>2
        <3>4. CASE i >= k /\ j < k
            <4>1. s[i + 1] = s[j] /\ i + 1 \in DOMAIN s /\ j \in DOMAIN s
                BY <2>2, <2>3, <3>4
            <4>2. i + 1 = j
                BY <4>1 DEF NoRepeat
            <4> QED BY <4>2, <3>4, <2>2
        <3> QED BY <2>2, <3>1, <3>2, <3>3, <3>4
    <2>8. r \in Seq(S \ {x})
        <3>1. ToSet(r) \subseteq S \ {x} /\ r \in Seq(ToSet(r))
            BY <2>3, <2>5, ToSetOf
        <3> QED BY <3>1, SeqMonotonic
    <2> QED BY <2>1, <2>5, <2>6, <2>7, <2>8
<1> QED BY <1>1, <1>2

-----------------------------------------------------------------------------
(* The epoll instance.                                                     *)

EpollOK == interest \subseteq Sources /\ ready \in Seq(interest) /\ NoRepeat(ready)

\* An empty sequence of events.
LEMMA EmptyOf ==
    /\ \A S : <<>> \in Seq(S)
    /\ ToSet(<<>>) = {} /\ NoRepeat(<<>>)
BY DEF ToSet, NoRepeat

LEMMA AddKeeps ==
    ASSUME EpollOK, NEW i \in Sources, Add(i)
    PROVE  /\ EpollOK'
           /\ interest' = interest \union {i}
           /\ ToSet(ready) \subseteq ToSet(ready')
           /\ ToSet(ready') \subseteq ToSet(ready) \union {i}
           /\ Readable(i) => i \in ToSet(ready')
<1>1. interest' = interest \union {i} /\ ready \in Seq(interest')
    BY SeqMonotonic DEF Add, EpollOK
<1>2. CASE Readable(i) /\ i \notin ToSet(ready)
    <2>1. ready' = Append(ready, i) /\ i \in interest'
        BY <1>1, <1>2 DEF Add
    <2> QED BY <1>1, <1>2, <2>1, AppendOf DEF EpollOK
<1>3. CASE ~(Readable(i) /\ i \notin ToSet(ready))
    BY <1>1, <1>3 DEF Add, EpollOK
<1> QED BY <1>2, <1>3

LEMMA NotifyKeeps ==
    ASSUME EpollOK, NEW i, Notify(i), interest' = interest
    PROVE  /\ EpollOK'
           /\ ToSet(ready) \subseteq ToSet(ready')
           /\ ToSet(ready') \subseteq ToSet(ready) \union (interest \intersect {i})
           /\ i \in interest => i \in ToSet(ready')
<1>1. CASE i \in interest /\ i \notin ToSet(ready)
    <2>1. ready' = Append(ready, i)
        BY <1>1 DEF Notify
    <2> QED BY <1>1, <2>1, AppendOf DEF EpollOK
<1>2. CASE ~(i \in interest /\ i \notin ToSet(ready))
    BY <1>2, ToSetOf DEF Notify, EpollOK
<1> QED BY <1>1, <1>2

LEMMA ForgetKeeps ==
    ASSUME EpollOK, NEW i, Forget(i)
    PROVE  /\ EpollOK'
           /\ interest' = interest \ {i}
           /\ ToSet(ready') = ToSet(ready) \ {i}
BY WithoutOf DEF Forget, EpollOK

LEMMA CloseKeeps ==
    ASSUME EpollOK, NEW n \in Fds, NEW waiting \in BOOLEAN, CloseNumber(n, waiting)
    PROVE  /\ EpollOK'
           /\ fdtab' = [fdtab EXCEPT ![n] = NoFile]
           /\ interest' \subseteq interest /\ ToSet(ready') \subseteq ToSet(ready)
           /\ fdtab[n] # Epoll => /\ interest' = interest \ {fdtab[n]}
                                  /\ ToSet(ready') = ToSet(ready) \ {fdtab[n]}
<1>1. CASE fdtab[n] = Epoll /\ ~waiting
    BY <1>1, EmptyOf DEF CloseNumber, EpollOK
<1>2. CASE fdtab[n] = Epoll /\ waiting
    BY <1>2 DEF CloseNumber, EpollOK, epollVars
<1>3. CASE fdtab[n] # Epoll
    <2>1. Forget(fdtab[n])
        BY <1>3 DEF CloseNumber
    <2> QED BY <1>3, <2>1, ForgetKeeps DEF CloseNumber
<1> QED BY <1>1, <1>2, <1>3

LEMMA LeaveKeeps ==
    ASSUME EpollOK, NEW rest \in Seq(interest), NoRepeat(rest), Leave(rest)
    PROVE  /\ EpollOK'
           /\ interest' \subseteq interest /\ ToSet(ready') \subseteq ToSet(rest)
           /\ fdtab[EpollFd] = Epoll => interest' = interest /\ ready' = rest
<1>1. CASE fdtab[EpollFd] = Epoll
    BY <1>1 DEF Leave, EpollOK
<1>2. CASE fdtab[EpollFd] # Epoll
    BY <1>2, EmptyOf DEF Leave, EpollOK
<1> QED BY <1>1, <1>2

-----------------------------------------------------------------------------
(* Type correctness.  It rests on what each worker holds as its job, and on *)
(* no socket having two events: one that is closed leaves none behind.     *)

ClientPc == {"read", "feed", "parse", "pop", "take", "unlink", "release",
             "answer", "del", "close", "free"}

JobOK ==
    \A w \in Workers :
        /\ wpc[w] = "idle" => job[w] = NoJob
        /\ wpc[w] = "accept" => job[w] = Listen
        /\ wpc[w] \in ClientPc \union {"register"} => job[w] \in Clients

SockOK == SockTypeOK /\ NoRepeat(ready)
WorkOK == WorkerTypeOK /\ JobOK

TypeInv == SockOK /\ MainTypeOK /\ WorkOK /\ ClientTypeOK /\ HistTypeOK

LEMMA SourcesDistinct ==
    /\ Listen \notin Clients /\ NoJob \notin Clients /\ NoJob # Listen
    /\ Epoll \notin Sources /\ NoFile \notin Sources /\ Epoll # NoFile
BY FilesDistinct, ReactorAssumption DEF Sources

LEMMA SockIsEpoll == SockOK => EpollOK
BY DEF SockOK, SockTypeOK, EpollOK, Sources

LEMMA FaultCounted == ASSUME HistTypeOK, Fault PROVE faults' \in 0 .. MaxFaults
BY ReactorAssumption DEF HistTypeOK, Fault

\* What is left alone stays right.
LEMMA Frames ==
    /\ SockOK /\ UNCHANGED sockVars => SockOK'
    /\ WorkOK /\ UNCHANGED workerVars => WorkOK'
    /\ ClientTypeOK /\ UNCHANGED clientVars => ClientTypeOK'
    /\ HistTypeOK /\ UNCHANGED histVars => HistTypeOK'
    /\ MainTypeOK /\ UNCHANGED <<mainVars, queue>> => MainTypeOK'
<1>1. SockOK /\ UNCHANGED sockVars => SockOK'
    BY DEF SockOK, SockTypeOK, NoRepeat, sockVars, epollVars, peerVars
<1>2. WorkOK /\ UNCHANGED workerVars => WorkOK'
    BY DEF WorkOK, WorkerTypeOK, JobOK, workerVars
<1>3. ClientTypeOK /\ UNCHANGED clientVars => ClientTypeOK'
    BY DEF ClientTypeOK, clientVars
<1>4. HistTypeOK /\ UNCHANGED histVars => HistTypeOK'
    BY DEF HistTypeOK, histVars
<1>5. MainTypeOK /\ UNCHANGED <<mainVars, queue>> => MainTypeOK'
    BY DEF MainTypeOK, mainVars
<1> QED BY <1>1, <1>2, <1>3, <1>4, <1>5

LEMMA InitType == Init => TypeInv
<1> SUFFICES ASSUME Init PROVE TypeInv
    OBVIOUS
<1>1. SockOK
    BY FdsAssumption, PeersAssumption, EmptyOf DEF Init, SockInit, SockOK, SockTypeOK
<1>2. WorkOK
    BY EmptyOf DEF Init, WorkOK, WorkerTypeOK, JobOK, ClientPc
<1>3. ClientTypeOK
    BY FdsAssumption, EmptyOf DEF Init, ClientTypeOK
<1>4. HistTypeOK
    <2>1. 0 \in 0 .. MaxFaults
        BY ReactorAssumption
    <2> QED BY <2>1 DEF Init, HistTypeOK
<1>5. MainTypeOK
    BY EmptyOf DEF Init, MainTypeOK
<1> QED BY <1>1, <1>2, <1>3, <1>4, <1>5 DEF TypeInv

\* The events that are returned and the events that stay.
LEMMA WakeSplit ==
    ASSUME EpollOK, Wake
    PROVE  \E rest \in Seq(interest) :
              /\ batch' \in Seq(interest) /\ batch' # <<>>
              /\ NoRepeat(batch') /\ NoRepeat(rest) /\ Leave(rest)
              /\ ToSet(ready) = ToSet(batch') \union ToSet(rest)
              /\ ToSet(batch') \intersect ToSet(rest) = {}
<1> DEFINE n == Least(MaxEvents, Len(ready))
           rest == SubSeq(ready, n + 1, Len(ready))
<1>1. Len(ready) \in Nat \ {0}
    BY EmptySeq DEF Wake, EpollOK
<1>2. n \in 1 .. Len(ready)
    BY <1>1, ReactorAssumption DEF Least
<1>3. batch' = SubSeq(ready, 1, n) /\ Leave(rest)
    BY DEF Wake
<1> HIDE DEF n
<1>4. /\ rest \in Seq(interest) /\ batch' \in Seq(interest) /\ Len(batch') = n
      /\ NoRepeat(batch') /\ NoRepeat(rest)
      /\ ToSet(ready) = ToSet(batch') \union ToSet(rest)
      /\ ToSet(batch') \intersect ToSet(rest) = {}
    BY <1>2, <1>3, SplitOf DEF EpollOK
<1>5. batch' # <<>>
    BY <1>2, <1>4, EmptySeq
<1> QED BY <1>3, <1>4, <1>5

\* The first event of the batch, which is dealt with, and the others.
LEMMA BatchOf ==
    ASSUME MainTypeOK, mainpc = "dispatch"
    PROVE  /\ Head(batch) \in Sources /\ Rest \in Seq(Sources)
           /\ ToSet(batch) = {Head(batch)} \union ToSet(Rest)
BY TailOf DEF MainTypeOK, Rest, Sources

LEMMA AdvanceKeeps ==
    ASSUME MainTypeOK, mainpc = "dispatch", Advance, UNCHANGED loop_terminal,
           queue' \in Seq(Sources)
    PROVE  MainTypeOK'
BY BatchOf DEF MainTypeOK, Advance, MainGoto, Sources

LEMMA MainType == ASSUME TypeInv, Main PROVE TypeInv'
<1> USE Frames, SockIsEpoll DEF TypeInv, MainAt, MainGoto
<1>1. CASE Start
    <2>1. EpollOK' /\ interest' \subseteq Sources
        BY <1>1, AddKeeps DEF Start, EpollOK, Sources
    <2>2. merged' \in Nat
        BY <1>1, LenProperties DEF Start, SockOK, SockTypeOK
    <2>3. SockOK'
        BY <1>1, <2>1, <2>2 DEF Start, SockOK, SockTypeOK, EpollOK, Sources, peerVars
    <2>4. MainTypeOK'
        BY <1>1 DEF Start, MainTypeOK
    <2> QED BY <1>1, <2>3, <2>4 DEF Start
<1>2. CASE Check \/ Wait
    <2>1. MainTypeOK'
        BY <1>2 DEF Check, Wait, MainTypeOK
    <2> QED BY <1>2, <2>1 DEF Check, Wait
<1>3. CASE Wake
    <2>1. PICK rest \in Seq(interest) :
              batch' \in Seq(interest) /\ batch' # <<>> /\ NoRepeat(rest) /\ Leave(rest)
        BY <1>3, WakeSplit
    <2>2. EpollOK' /\ interest' \subseteq Sources
        BY <2>1, LeaveKeeps DEF EpollOK
    <2>3. SockOK'
        BY <1>3, <2>2 DEF Wake, SockOK, SockTypeOK, EpollOK, Sources, peerVars
    <2>4. batch' \in Seq(Sources)
        BY <2>1, SeqMonotonic DEF EpollOK
    <2>5. MainTypeOK'
        BY <1>3, <2>1, <2>4 DEF Wake, MainTypeOK, Sources
    <2> QED BY <1>3, <2>3, <2>5 DEF Wake
<1>4. CASE Dispatch \/ DispatchFreed
    <2>1. queue' \in Seq(Sources)
        <3>1. queue \in Seq(Sources)
            BY DEF MainTypeOK, Sources
        <3>2. Head(batch) \in Sources
            BY <1>4, BatchOf DEF Dispatch, DispatchFreed
        <3> QED BY <1>4, <3>1, <3>2, AppendOf DEF Dispatch, DispatchFreed
    <2>2. MainTypeOK'
        <3>1. CASE Advance
            BY <1>4, <2>1, <3>1, AdvanceKeeps DEF Dispatch, DispatchFreed
        <3>2. CASE UNCHANGED <<queue, mainpc, batch, loop_terminal>>
            BY <3>2 DEF mainVars
        <3> QED BY <1>4, <3>1, <3>2 DEF Dispatch, DispatchFreed
    <2>3. HistTypeOK'
        BY <1>4 DEF Dispatch, DispatchFreed, HistTypeOK, histVars
    <2> QED BY <1>4, <2>2, <2>3 DEF Dispatch, DispatchFreed
<1>5. CASE DispatchNoMemory
    <2>1. MainTypeOK'
        BY <1>5, EmptyOf DEF DispatchNoMemory, MainTypeOK
    <2>2. HistTypeOK'
        BY <1>5, FaultCounted DEF DispatchNoMemory, HistTypeOK
    <2> QED BY <1>5, <2>1, <2>2 DEF DispatchNoMemory
<1>6. CASE DispatchRefused
    <2>1. MainTypeOK'
        BY <1>6, AdvanceKeeps DEF DispatchRefused, MainTypeOK, Sources
    <2>2. HistTypeOK'
        BY <1>6, BatchOf, FaultCounted DEF DispatchRefused, HistTypeOK, Sources
    <2>3. merged' \in Nat
        BY <1>6 DEF DispatchRefused, SockOK, SockTypeOK
    <2>4. SockOK'
        BY <1>6, <2>3 DEF DispatchRefused, SockOK, SockTypeOK, NoRepeat, epollVars, peerVars
    <2> QED BY <1>6, <2>1, <2>2, <2>4 DEF DispatchRefused
<1>7. CASE CloseEpoll \/ CloseServer
    <2>1. PICK n \in Fds : CloseNumber(n, FALSE)
        BY <1>7, FdsAssumption DEF CloseEpoll, CloseServer
    <2>2. SockOK'
        BY <1>7, <2>1, CloseKeeps
           DEF CloseEpoll, CloseServer, SockOK, SockTypeOK, EpollOK, Sources, peerVars
    <2>3. MainTypeOK'
        BY <1>7 DEF CloseEpoll, CloseServer, MainTypeOK
    <2> QED BY <1>7, <2>2, <2>3 DEF CloseEpoll, CloseServer
<1>8. CASE Join
    <2>1. MainTypeOK'
        BY <1>8, EmptyOf DEF Join, MainTypeOK
    <2> QED BY <1>8, <2>1 DEF Join
<1> QED BY <1>1, <1>2, <1>3, <1>4, <1>5, <1>6, <1>7, <1>8 DEF Main

LEMMA SignalType == ASSUME TypeInv, Signal PROVE TypeInv'
<1> USE Frames, SockIsEpoll DEF TypeInv, MainGoto
<1>1. MainTypeOK'
    BY DEF Signal, MainTypeOK
<1>2. SockOK'
    <2>1. CASE mainpc = "blocked"
        <3>1. EpollOK' /\ interest' \subseteq interest
            BY <2>1, LeaveKeeps DEF Signal, EpollOK
        <3> QED BY <2>1, <3>1 DEF Signal, SockOK, SockTypeOK, EpollOK, Sources, peerVars
    <2>2. CASE mainpc # "blocked"
        BY <2>2 DEF Signal, sockVars, peerVars
    <2> QED BY <2>1, <2>2
<1> QED BY <1>1, <1>2 DEF Signal

LEMMA ArriveType == ASSUME TypeInv, NEW c \in Clients, Arrive(c) PROVE TypeInv'
<1> USE Frames, SockIsEpoll DEF TypeInv
<1>1. CASE Connect(c)
    <2>1. EpollOK'
        BY <1>1, NotifyKeeps DEF Connect
    <2>2. backlog' \in Seq(Clients)
        BY <1>1, AppendOf DEF Connect, SockOK, SockTypeOK
    <2>3. merged' \in Nat
        BY <1>1 DEF Connect, SockOK, SockTypeOK
    <2>4. SockOK'
        BY <1>1, <2>1, <2>2, <2>3 DEF Connect, SockOK, SockTypeOK, EpollOK, Sources
    <2> QED BY <2>4 DEF Arrive
<1>2. CASE Send(c)
    <2>1. EpollOK'
        BY <1>2, NotifyKeeps DEF Send
    <2>2. sent[c] + 1 \in 0 .. MaxSegments
        BY <1>2, PeersAssumption DEF Send, SockOK, SockTypeOK
    <2>3. sent' \in [Clients -> 0 .. MaxSegments]
        BY <1>2, <2>2 DEF Send, SockOK, SockTypeOK
    <2>4. SockOK'
        BY <1>2, <2>1, <2>3 DEF Send, SockOK, SockTypeOK, EpollOK, Sources
    <2> QED BY <2>4 DEF Arrive
<1>3. CASE Hang(c)
    <2>1. EpollOK'
        BY <1>3, NotifyKeeps DEF Hang
    <2>2. SockOK'
        BY <1>3, <2>1 DEF Hang, SockOK, SockTypeOK, EpollOK, Sources
    <2> QED BY <2>2 DEF Arrive
<1> QED BY <1>1, <1>2, <1>3 DEF Arrive, PeerStep

\* The job of a worker ends, goes on, or comes to nothing.
LEMMA FinishKeeps == ASSUME WorkOK, NEW w \in Workers, Finish(w) PROVE WorkOK'
BY EmptyOf DEF WorkOK, WorkerTypeOK, JobOK, Finish, Goto, ClientPc

LEMMA GotoKeeps ==
    ASSUME WorkOK, NEW w \in Workers, wpc[w] \in ClientPc,
           NEW l \in ClientPc, Goto(w, l), UNCHANGED job,
           text' \in [Workers -> Seq(Clients \X (1 .. MaxSegments))]
    PROVE  WorkOK'
BY DEF WorkOK, WorkerTypeOK, JobOK, Goto, ClientPc

LEMMA ContinueKeeps ==
    ASSUME WorkOK, NEW w \in Workers, wpc[w] \in ClientPc, NEW l \in ClientPc, Continue(w, l)
    PROVE  WorkOK'
BY GotoKeeps DEF Continue, WorkOK, WorkerTypeOK

LEMMA UndefinedKeeps ==
    ASSUME WorkOK, HistTypeOK, NEW w \in Workers, Undefined(w), UNCHANGED <<dropped, overlaps, faults>>
    PROVE  WorkOK' /\ HistTypeOK'
<1>1. WorkOK'
    BY Frames, FinishKeeps DEF Undefined
<1>2. HistTypeOK'
    BY DEF Undefined, HistTypeOK
<1> QED BY <1>1, <1>2

\* A step on the way of a client's job has a client.
LEMMA JobIsClient ==
    ASSUME WorkOK, NEW w \in Workers, wpc[w] \in ClientPc \union {"register"}
    PROVE  job[w] \in Clients
BY DEF WorkOK, JobOK

LEMMA SegmentsOf ==
    ASSUME NEW c \in Clients, NEW from \in Nat, NEW to \in from .. MaxSegments
    PROVE  /\ Segments(c, from, to) \in Seq(Clients \X (1 .. MaxSegments))
           /\ Len(Segments(c, from, to)) = to - from
           /\ \A k \in 1 .. to - from : Segments(c, from, to)[k] = <<c, from + k>>
<1> DEFINE S == Clients \X (1 .. MaxSegments)
<1>1. to - from \in Nat /\ \A k \in 1 .. to - from : <<c, from + k>> \in S
    BY PeersAssumption
<1>2. Segments(c, from, to) \in [1 .. to - from -> S]
    BY <1>1 DEF Segments
<1>3. Segments(c, from, to) \in Seq(S)
    <2>1. Seq(S) = UNION {[1 .. n -> S] : n \in Nat}
        BY SeqDef
    <2> HIDE DEF S
    <2> QED BY <1>1, <1>2, <2>1, Zenon
<1>4. Len(Segments(c, from, to)) = to - from
    BY <1>1, <1>2, <1>3, LenProperties DEF Segments
<1> QED BY <1>3, <1>4 DEF Segments

LEMMA ServerJobType == ASSUME TypeInv, NEW w \in Workers, ServerJob(w) PROVE TypeInv'
<1> USE Frames, SockIsEpoll, FinishKeeps DEF TypeInv, At
<1>1. CASE Accept(w)
    <2> DEFINE c == Head(backlog)
    <2>1. c \in Clients /\ backlog' \in Seq(Clients)
        BY <1>1, TailOf DEF Accept, Accepting, SockOK, SockTypeOK
    <2> HIDE DEF c
    <2>2. PICK n \in Fds : /\ fdtab' = [fdtab EXCEPT ![n] = c]
                           /\ fd' = [fd EXCEPT ![c] = n]
                           /\ usrdata' = [usrdata EXCEPT ![c] = "live"]
                           /\ ctx' = [ctx EXCEPT ![c] = "parsing"]
                           /\ job' = [job EXCEPT ![w] = c]
        BY <1>1 DEF Accept, c
    <2>3. SockOK'
        BY <1>1, <2>1, <2>2
           DEF Accept, SockOK, SockTypeOK, NoRepeat, epollVars, peerVars
    <2>4. ClientTypeOK'
        BY <1>1, <2>1, <2>2 DEF Accept, ClientTypeOK
    <2>5. WorkOK'
        BY <1>1, <2>1, <2>2 DEF Accept, WorkOK, WorkerTypeOK, JobOK, Goto, ClientPc
    <2> QED BY <1>1, <2>3, <2>4, <2>5 DEF Accept
<1>2. CASE AcceptNoMemory(w)
    <2>1. SockOK'
        BY <1>2, TailOf
           DEF AcceptNoMemory, Accepting, SockOK, SockTypeOK, NoRepeat, epollVars, peerVars
    <2>2. HistTypeOK'
        BY <1>2, FaultCounted DEF AcceptNoMemory, HistTypeOK
    <2> QED BY <1>2, <2>1, <2>2 DEF AcceptNoMemory
<1>3. CASE AcceptFull(w)
    <2>1. SockOK'
        BY <1>3 DEF AcceptFull, SockOK, SockTypeOK, NoRepeat, epollVars, peerVars
    <2> QED BY <1>3, <2>1 DEF AcceptFull
<1>4. CASE AcceptNothing(w)
    BY <1>4 DEF AcceptNothing
<1>5. CASE Register(w)
    <2>1. job[w] \in Clients /\ fd[job[w]] \in Fds
        BY <1>5, JobIsClient DEF Register, ClientTypeOK
    <2>2. /\ EpollOK' /\ interest' \subseteq Sources
          /\ fdtab' \in [Fds -> Clients \union {Listen, Epoll, NoFile}]
        <3>1. CASE fdtab[EpollFd] = Epoll
            BY <1>5, <2>1, <3>1, AddKeeps
               DEF Register, Watch, EpollOK, Sources, SockOK, SockTypeOK
        <3>2. CASE fdtab[EpollFd] # Epoll
            BY <1>5, <2>1, <3>2, CloseKeeps DEF Register, EpollOK, Sources, SockOK, SockTypeOK
        <3> QED BY <3>1, <3>2
    <2>3. SockOK'
        BY <1>5, <2>2 DEF Register, SockOK, SockTypeOK, EpollOK, Sources, peerVars
    <2> QED BY <1>5, <2>3 DEF Register
<1> QED BY <1>1, <1>2, <1>3, <1>4, <1>5 DEF ServerJob

LEMMA TakeJobType == ASSUME TypeInv, NEW w \in Workers, TakeJob(w) PROVE TypeInv'
<1> USE Frames DEF TypeInv, At
<1>1. Head(queue) \in Sources /\ queue' \in Seq(Sources)
    BY TailOf DEF TakeJob, MainTypeOK, Sources
<1>2. MainTypeOK'
    BY <1>1 DEF TakeJob, MainTypeOK, mainVars, Sources
<1>3. WorkOK'
    BY <1>1, SourcesDistinct DEF TakeJob, WorkOK, WorkerTypeOK, JobOK, Goto, ClientPc, Sources
<1>4. HistTypeOK'
    BY DEF TakeJob, HistTypeOK
<1> QED BY <1>2, <1>3, <1>4 DEF TakeJob

LEMMA ReadType ==
    ASSUME TypeInv, NEW w \in Workers, Read(w)
    PROVE  TypeInv'
<1> USE Frames DEF TypeInv, At
<1> DEFINE c == Peer(w)
<1>1. PICK k \in received[c] + 1 .. sent[c] :
          /\ text' = [text EXCEPT ![w] = @ \o Segments(c, received[c], k)]
          /\ received' = [received EXCEPT ![c] = k]
    BY DEF Read
<1>2. c \in Clients
    BY DEF Read
<1> HIDE DEF c
<1>3. /\ received[c] \in Nat /\ k \in received[c] .. MaxSegments /\ k \in 0 .. MaxSegments
    BY <1>1, <1>2, PeersAssumption DEF SockOK, SockTypeOK
<1>4. Segments(c, received[c], k) \in Seq(Clients \X (1 .. MaxSegments))
    BY <1>2, <1>3, SegmentsOf
<1>5. text' \in [Workers -> Seq(Clients \X (1 .. MaxSegments))]
    BY <1>1, <1>4, ConcatProperties DEF WorkOK, WorkerTypeOK
<1>6. WorkOK'
    BY <1>5, GotoKeeps DEF Read, Uses, ReadAgain, ClientPc
<1>7. received' \in [Clients -> 0 .. MaxSegments]
    BY <1>1, <1>2, <1>3 DEF SockOK, SockTypeOK
<1>8. SockOK'
    BY <1>7 DEF Read, SockOK, SockTypeOK, NoRepeat, epollVars, peerVars
<1> QED BY <1>6, <1>8 DEF Read

LEMMA ClientJobType == ASSUME TypeInv, NEW w \in Workers, ClientJob(w) PROVE TypeInv'
<1> USE Frames, SockIsEpoll, FinishKeeps, ContinueKeeps DEF TypeInv, At, Uses
<1>1. CASE UseFreed(w)
    BY <1>1, UndefinedKeeps DEF UseFreed
<1>2. CASE Read(w)
    BY <1>2, ReadType
<1>3. CASE ReadEnd(w) \/ ReadEmpty(w)
    BY <1>3 DEF ReadEnd, ReadEmpty, OnEagain, ClientPc
<1>4. CASE Feed(w)
    <2> DEFINE c == job[w]
    <2>1. c \in Clients
        BY <1>4, JobIsClient DEF Feed, ClientPc
    <2>2. fed[c] \o text[w] \in Seq(Clients \X (1 .. MaxSegments))
        BY <2>1, ConcatProperties DEF WorkOK, WorkerTypeOK, ClientTypeOK
    <2>3. fed' \in [Clients -> Seq(Clients \X (1 .. MaxSegments))]
        BY <1>4, <2>1, <2>2 DEF Feed, ClientTypeOK
    <2>4. ClientTypeOK'
        BY <1>4, <2>3 DEF Feed, ClientTypeOK
    <2>5. WorkOK'
        BY <1>4 DEF Feed, ClientPc
    <2> QED BY <1>4, <2>4, <2>5 DEF Feed
<1>5. CASE FeedNoMemory(w)
    <2>1. HistTypeOK'
        BY <1>5, FaultCounted DEF FeedNoMemory, HistTypeOK
    <2>2. WorkOK'
        BY <1>5 DEF FeedNoMemory, ClientPc
    <2> QED BY <1>5, <2>1, <2>2 DEF FeedNoMemory
<1>6. CASE ContextFreed(w)
    BY <1>6, UndefinedKeeps DEF ContextFreed
<1>7. CASE Parse(w)
    <2>1. ctx' \in [Clients -> {"none", "parsing", "ended", "popped", "freed"}]
        BY <1>7 DEF Parse, ClientTypeOK
    <2>2. ClientTypeOK'
        BY <1>7, <2>1 DEF Parse, ClientTypeOK
    <2>3. WorkOK'
        BY <1>7 DEF Parse, ClientPc
    <2> QED BY <1>7, <2>2, <2>3 DEF Parse
<1>8. CASE Pop(w) \/ Take(w)
    <2>1. WorkOK'
        BY <1>8 DEF Pop, Take, ClientPc
    <2> QED BY <1>8, <2>1 DEF Pop, Take
<1>9. CASE Unlink(w) \/ Release(w)
    <2>1. ClientTypeOK'
        BY <1>9 DEF Unlink, Release, ClientTypeOK
    <2>2. WorkOK'
        BY <1>9 DEF Unlink, Release, ClientPc
    <2> QED BY <1>9, <2>1, <2>2 DEF Unlink, Release
<1>10. CASE DoubleFree(w)
    <2>1. WorkOK'
        BY <1>10 DEF DoubleFree, ClientPc
    <2>2. HistTypeOK'
        BY <1>10 DEF DoubleFree, HistTypeOK
    <2> QED BY <1>10, <2>1, <2>2 DEF DoubleFree
<1>11. CASE RaceKills(w)
    <2>1. HistTypeOK'
        BY <1>11 DEF RaceKills, HistTypeOK
    <2> QED BY <1>11, <2>1 DEF RaceKills
<1>12. CASE Answer(w)
    <2>1. ClientTypeOK'
        BY <1>12 DEF Answer, ClientTypeOK
    <2>2. WorkOK'
        BY <1>12 DEF Answer, ClientPc
    <2> QED BY <1>12, <2>1, <2>2 DEF Answer
<1>13. CASE AnswerError(w)
    BY <1>13 DEF AnswerError
<1>14. CASE AnswerShort(w)
    <2>1. HistTypeOK'
        BY <1>14, FaultCounted DEF AnswerShort, HistTypeOK
    <2>2. WorkOK'
        BY <1>14 DEF AnswerShort, ClientPc
    <2> QED BY <1>14, <2>1, <2>2 DEF AnswerShort
<1>15. CASE AnswerKilled(w) \/ AnswerNull(w)
    <2>1. HistTypeOK'
        BY <1>15, FaultCounted DEF AnswerKilled, AnswerNull, HistTypeOK
    <2> QED BY <1>15, <2>1 DEF AnswerKilled, AnswerNull
<1>16. CASE Del(w)
    <2>1. EpollOK' /\ interest' \subseteq Sources
        <3>1. CASE fdtab[EpollFd] = Epoll
            BY <1>16, <3>1, ForgetKeeps DEF Del, EpollOK
        <3>2. CASE fdtab[EpollFd] # Epoll
            BY <1>16, <3>2 DEF Del, EpollOK, epollVars
        <3> QED BY <3>1, <3>2
    <2>2. SockOK'
        BY <1>16, <2>1 DEF Del, SockOK, SockTypeOK, EpollOK, Sources, peerVars
    <2>3. WorkOK'
        BY <1>16 DEF Del, ClientPc
    <2> QED BY <1>16, <2>2, <2>3 DEF Del
<1>17. CASE Close(w)
    <2>1. SockOK'
        <3>1. EpollFd \in Fds /\ (mainpc = "blocked") \in BOOLEAN
            BY FdsAssumption
        <3>2. EpollOK' /\ fdtab' = [fdtab EXCEPT ![EpollFd] = NoFile] /\ interest' \subseteq interest
            BY <1>17, <3>1, CloseKeeps DEF Close
        <3> QED BY <1>17, <3>2 DEF Close, SockOK, SockTypeOK, EpollOK, Sources, peerVars
    <2>2. WorkOK'
        BY <1>17 DEF Close, ClientPc
    <2> QED BY <1>17, <2>1, <2>2 DEF Close
<1>18. CASE Free(w)
    <2>1. ClientTypeOK'
        BY <1>18 DEF Free, ClientTypeOK
    <2> QED BY <1>18, <2>1 DEF Free
<1> QED BY <1>1, <1>2, <1>3, <1>4, <1>5, <1>6, <1>7, <1>8, <1>9,
           <1>10, <1>11, <1>12, <1>13, <1>14, <1>15, <1>16, <1>17, <1>18 DEF ClientJob

LEMMA NextType == TypeInv /\ [Next]_vars => TypeInv'
<1> SUFFICES ASSUME TypeInv, [Next]_vars PROVE TypeInv'
    OBVIOUS
<1>1. CASE UNCHANGED vars
    BY <1>1, Frames DEF TypeInv, vars
<1> QED BY <1>1, MainType, SignalType, ArriveType, TakeJobType, ServerJobType, ClientJobType
           DEF Next, Worker

LEMMA TypeInvAlways == Spec => []TypeInv
BY InitType, NextType, PTL DEF Spec

\* Every variable has its type, whatever the numbers of clients, workers, file
\* numbers and faults.
THEOREM TypeAlways == Spec => []TypeOK
<1>1. TypeInv => TypeOK
    BY DEF TypeInv, TypeOK, SockOK, WorkOK
<1> QED BY <1>1, TypeInvAlways, PTL

-----------------------------------------------------------------------------
(* Whose socket a number is.  A job looks its file number up at each use,  *)
(* and numbers are closed and given out again; the clients that are served *)
(* keep theirs, as the only numbers that are closed are those of the epoll *)
(* instance, of the listening socket, and of a client that could not be    *)
(* registered.                                                             *)

AtWork(c) == \E w \in Workers : wpc[w] \in ClientPc /\ job[w] = c

\* Some step may still use the socket of c.
Served(c) == c \in interest \/ InFlight(c) \/ AtWork(c)

Registering(w) == wpc[w] = "register"

\* A connection in the backlog has no number yet.
BacklogOK ==
    /\ NoRepeat(backlog)
    /\ \A c \in ToSet(backlog) : c \in met /\ usrdata[c] = "none"
    /\ \A c \in Clients : usrdata[c] # "none" => c \in met

AcceptedOK ==
    \A c \in Clients : usrdata[c] # "none" =>
        /\ fd[c] # ServerFd
        /\ fd[c] = EpollFd => fdtab[EpollFd] # Epoll

OwnSocket ==
    \A c \in Clients : Served(c) =>
        usrdata[c] # "none" /\ fd[c] # EpollFd /\ fdtab[fd[c]] = c

\* A client that is about to be registered is known to its worker only.
RegisterOK ==
    \A w \in Workers : Registering(w) =>
        /\ usrdata[job[w]] # "none" /\ ~Served(job[w])
        /\ fd[job[w]] = EpollFd \/ fdtab[fd[job[w]]] = job[w]
        /\ \A v \in Workers : Registering(v) /\ job[v] = job[w] => v = w

SocketsOK == BacklogOK /\ AcceptedOK /\ OwnSocket /\ RegisterOK

\* While the loop runs the listening socket is open and registered.
ServerFile ==
    /\ \A n \in Fds : fdtab[n] = Listen => n = ServerFd
    /\ mainpc \notin {"join", "done"} => fdtab[ServerFd] = Listen

ListenOK == InLoop /\ fdtab[EpollFd] = Epoll => Listen \in interest

\* Before the loop nothing happens but connections.
StartOK ==
    mainpc = "start" =>
        interest = {} /\ ready = <<>> /\ queue = <<>> /\ \A w \in Workers : wpc[w] = "idle"

LoopOK == ServerFile /\ ListenOK /\ StartOK

ConnInv == TypeInv /\ SocketsOK /\ LoopOK

LEMMA InitConn == Init => ConnInv
<1> SUFFICES ASSUME Init PROVE ConnInv
    OBVIOUS
<1>1. TypeInv
    BY InitType
<1>2. SocketsOK
    BY EmptyOf DEF Init, SockInit, SocketsOK, BacklogOK, AcceptedOK, OwnSocket, RegisterOK,
                   Served, InFlight, AtWork, ClientPc, Registering
<1>3. LoopOK
    BY FdsAssumption, FilesDistinct
       DEF Init, SockInit, LoopOK, ServerFile, ListenOK, StartOK, InLoop
<1> QED BY <1>1, <1>2, <1>3 DEF ConnInv

\* Steps that serve nobody new, and close no number of a client.
LEMMA QuietSockets ==
    ASSUME TypeInv, SocketsOK,
           NoRepeat(backlog'), ToSet(backlog') \subseteq ToSet(backlog), met' = met, fd' = fd,
           \A n \in Fds : \/ fdtab'[n] = fdtab[n]
                          \/ n \in {EpollFd, ServerFd} /\ fdtab'[n] = NoFile,
           \A c \in Clients : usrdata'[c] = "none" <=> usrdata[c] = "none",
           \A c \in Clients : Served(c)' => Served(c),
           \A w \in Workers : Registering(w)' => Registering(w) /\ job'[w] = job[w]
    PROVE  SocketsOK'
<1> USE DEF SocketsOK
<1>1. ToSet(backlog) \subseteq Clients
    BY ToSetOf DEF TypeInv, SockOK, SockTypeOK
<1>2. BacklogOK'
    BY <1>1 DEF BacklogOK
<1>3. AcceptedOK'
    BY SourcesDistinct, FdsAssumption DEF AcceptedOK
<1>4. \A c \in Clients : fd[c] \in Fds
    BY DEF TypeInv, ClientTypeOK
<1>5. OwnSocket'
    BY <1>4 DEF OwnSocket, AcceptedOK
<1>6. \A w \in Workers : Registering(w) => job[w] \in Clients
    BY JobIsClient DEF TypeInv, Registering
<1>7. RegisterOK'
    BY <1>4, <1>6 DEF RegisterOK, AcceptedOK
<1> QED BY <1>2, <1>3, <1>5, <1>7

\* A worker that goes on with its job, or ends it, serves nobody new.
Proceeds(w) ==
    \/ UNCHANGED <<wpc, job>>
    \/ Finish(w)
    \/ wpc[w] \in ClientPc /\ UNCHANGED job /\ \E l \in ClientPc : Goto(w, l)

LEMMA ProceedsQuiet ==
    ASSUME WorkOK, NEW w \in Workers, Proceeds(w)
    PROVE  /\ \A c \in Clients : AtWork(c)' => AtWork(c)
           /\ \A v \in Workers : Registering(v)' => Registering(v) /\ job'[v] = job[v]
<1> USE DEF WorkOK, WorkerTypeOK, AtWork, Registering, ClientPc
<1>1. CASE UNCHANGED <<wpc, job>>
    BY <1>1
<1>2. CASE Finish(w)
    <2>1. wpc'[w] = "idle" /\ \A v \in Workers \ {w} : wpc'[v] = wpc[v] /\ job'[v] = job[v]
        BY <1>2 DEF Finish, Goto
    <2> QED BY <2>1
<1>3. CASE wpc[w] \in ClientPc /\ UNCHANGED job /\ \E l \in ClientPc : Goto(w, l)
    <2>1. wpc'[w] \in ClientPc /\ \A v \in Workers \ {w} : wpc'[v] = wpc[v]
        BY <1>3 DEF Goto
    <2> QED BY <1>3, <2>1
<1> QED BY <1>1, <1>2, <1>3 DEF Proceeds

\* What a step of a client's job may do to the rest of the system.
LEMMA ClientStep ==
    ASSUME TypeInv, NEW w \in Workers, ClientJob(w)
    PROVE  /\ wpc[w] \in ClientPc /\ job[w] \in Clients /\ Proceeds(w)
           /\ UNCHANGED <<mainVars, queue, backlog, merged, peerVars, fd>>
           /\ \A c \in Clients : usrdata'[c] = "none" <=> usrdata[c] = "none"
           /\ \/ UNCHANGED <<fdtab, epollVars>>
              \/ /\ Del(w) /\ UNCHANGED fdtab /\ interest' \subseteq interest
                 /\ ToSet(ready') \subseteq ToSet(ready)
              \/ /\ fdtab' = [fdtab EXCEPT ![EpollFd] = NoFile] /\ interest' \subseteq interest
                 /\ ToSet(ready') \subseteq ToSet(ready)
<1> DEFINE Idles == UNCHANGED <<mainVars, queue, backlog, merged, peerVars, fd>>
           Keeps == UNCHANGED <<fdtab, epollVars>>
           Known == \A c \in Clients : usrdata'[c] = "none" <=> usrdata[c] = "none"
<1> USE DEF At, Uses, ClientPc, Continue
<1>0. wpc[w] \in ClientPc => job[w] \in Clients
    BY JobIsClient DEF TypeInv
<1>1. CASE UseFreed(w) \/ ContextFreed(w) \/ DoubleFree(w) \/ RaceKills(w)
    <2>1. wpc[w] \in ClientPc /\ Idles /\ Keeps /\ Known
        BY <1>1 DEF UseFreed, ContextFreed, DoubleFree, RaceKills, Feeding, Popping, sockVars,
                    clientVars
    <2>2. Proceeds(w)
        BY <1>1 DEF UseFreed, ContextFreed, DoubleFree, RaceKills, Undefined, Proceeds, workerVars
    <2> QED BY <1>0, <2>1, <2>2
<1>2. CASE Read(w)
    <2>1. wpc[w] \in ClientPc /\ Idles /\ Keeps /\ Known
        BY <1>2 DEF Read, clientVars
    <2>2. Proceeds(w)
        BY <1>2 DEF Read, ReadAgain, Proceeds
    <2> QED BY <1>0, <2>1, <2>2
<1>3. CASE ReadEnd(w) \/ ReadEmpty(w) \/ Feed(w) \/ Parse(w) \/ FeedNoMemory(w)
    <2>1. wpc[w] \in ClientPc /\ Idles /\ Keeps /\ Known
        BY <1>3 DEF ReadEnd, ReadEmpty, Feed, Parse, FeedNoMemory, sockVars, clientVars
    <2>2. Proceeds(w)
        BY <1>3 DEF ReadEnd, ReadEmpty, OnEagain, Feed, Parse, FeedNoMemory, Proceeds
    <2> QED BY <1>0, <2>1, <2>2
<1>4. CASE \/ Pop(w) \/ Take(w) \/ Unlink(w) \/ Release(w)
           \/ Answer(w) \/ AnswerError(w) \/ AnswerShort(w)
    <2>1. wpc[w] \in ClientPc /\ Idles /\ Keeps /\ Known
        BY <1>4 DEF Pop, Take, Unlink, Release, Answer, AnswerError, AnswerShort, sockVars, clientVars
    <2>2. Proceeds(w)
        BY <1>4 DEF Pop, Take, Unlink, Release, Answer, AnswerError, AnswerShort, Proceeds
    <2> QED BY <1>0, <2>1, <2>2
<1>5. CASE AnswerKilled(w) \/ AnswerNull(w)
    <2>1. wpc[w] \in ClientPc /\ Idles /\ Keeps /\ Known /\ Proceeds(w)
        BY <1>5 DEF AnswerKilled, AnswerNull, sockVars, clientVars, workerVars, Proceeds
    <2> QED BY <1>0, <2>1
<1>6. CASE Del(w)
    <2>1. wpc[w] \in ClientPc /\ Idles /\ Known /\ Proceeds(w) /\ UNCHANGED fdtab
        BY <1>6 DEF Del, clientVars, Proceeds
    <2>2. interest' \subseteq interest /\ ToSet(ready') \subseteq ToSet(ready)
        <3>1. CASE fdtab[EpollFd] = Epoll
            BY <1>6, <3>1, ForgetKeeps, SockIsEpoll DEF Del, TypeInv
        <3>2. CASE fdtab[EpollFd] # Epoll
            BY <1>6, <3>2 DEF Del, epollVars
        <3> QED BY <3>1, <3>2
    <2> QED BY <1>0, <1>6, <2>1, <2>2
<1>7. CASE Close(w)
    <2>1. wpc[w] \in ClientPc /\ Idles /\ Known /\ Proceeds(w)
        BY <1>7 DEF Close, clientVars, Proceeds
    <2>2. EpollFd \in Fds /\ (mainpc = "blocked") \in BOOLEAN
        BY FdsAssumption
    <2>3. /\ fdtab' = [fdtab EXCEPT ![EpollFd] = NoFile] /\ interest' \subseteq interest
          /\ ToSet(ready') \subseteq ToSet(ready)
        BY <1>7, <2>2, CloseKeeps, SockIsEpoll DEF Close, TypeInv
    <2> QED BY <1>0, <2>1, <2>3
<1>8. CASE Free(w)
    <2>1. wpc[w] \in ClientPc /\ Idles /\ Keeps /\ Proceeds(w)
        BY <1>8 DEF Free, sockVars, Proceeds
    <2>2. Known
        BY <1>8, <1>0 DEF Free, TypeInv, ClientTypeOK
    <2> QED BY <1>0, <2>1, <2>2
<1> QED BY <1>1, <1>2, <1>3, <1>4, <1>5, <1>6, <1>7, <1>8 DEF ClientJob

LEMMA ClientJobConn == ASSUME ConnInv, NEW w \in Workers, ClientJob(w) PROVE ConnInv'
<1> USE DEF ConnInv
<1>1. TypeInv'
    BY ClientJobType
<1>2. /\ wpc[w] \in ClientPc /\ job[w] \in Clients /\ Proceeds(w)
      /\ UNCHANGED <<mainVars, queue, backlog, merged, peerVars, fd>>
      /\ \A c \in Clients : usrdata'[c] = "none" <=> usrdata[c] = "none"
      /\ interest' \subseteq interest /\ ToSet(ready') \subseteq ToSet(ready)
      /\ fdtab' = fdtab \/ fdtab' = [fdtab EXCEPT ![EpollFd] = NoFile]
    BY ClientStep DEF epollVars
<1>3. /\ \A c \in Clients : AtWork(c)' => AtWork(c)
      /\ \A v \in Workers : Registering(v)' => Registering(v) /\ job'[v] = job[v]
    BY <1>2, ProceedsQuiet DEF TypeInv
<1>4. \A c \in Clients : Served(c)' => Served(c)
    BY <1>2, <1>3 DEF Served, InFlight, mainVars
<1>5. \A n \in Fds : fdtab'[n] = fdtab[n] \/ (n \in {EpollFd, ServerFd} /\ fdtab'[n] = NoFile)
    BY <1>2 DEF TypeInv, SockOK, SockTypeOK
<1>6. SocketsOK'
    BY <1>2, <1>3, <1>4, <1>5, QuietSockets DEF peerVars, SocketsOK, BacklogOK
<1>7. ServerFile'
    BY <1>2, FdsAssumption, FilesDistinct
       DEF LoopOK, ServerFile, mainVars, TypeInv, SockOK, SockTypeOK
<1>8. ListenOK'
    <2>1. CASE UNCHANGED <<fdtab, epollVars>>
        BY <1>2, <2>1 DEF LoopOK, ListenOK, InLoop, mainVars, epollVars
    <2>2. CASE Del(w)
        <3>1. fdtab[EpollFd] = Epoll => Forget(Peer(w))
            BY <2>2 DEF Del
        <3>2. Peer(w) = job[w]
            BY <1>2 DEF SocketsOK, OwnSocket, Served, AtWork, Peer
        <3>3. fdtab' = fdtab /\ (fdtab[EpollFd] = Epoll => interest' = interest \ {job[w]})
            BY <2>2, <3>1, <3>2 DEF Del, Forget
        <3> QED BY <1>2, <3>3, SourcesDistinct DEF LoopOK, ListenOK, InLoop, mainVars
    <2>3. CASE fdtab' = [fdtab EXCEPT ![EpollFd] = NoFile]
        BY <2>3, FdsAssumption, FilesDistinct DEF ListenOK, TypeInv, SockOK, SockTypeOK
    <2> QED BY <2>1, <2>2, <2>3, ClientStep
<1>9. StartOK'
    BY <1>2 DEF LoopOK, StartOK, mainVars, ClientPc
<1> QED BY <1>1, <1>6, <1>7, <1>8, <1>9 DEF LoopOK

\* Steps of the main thread, which is no worker.
LEMMA MainConn == ASSUME ConnInv, Main \/ Signal PROVE ConnInv'
<1> USE SockIsEpoll DEF ConnInv, MainAt, MainGoto
<1> DEFINE NobodyNew == \A c \in Clients : Served(c)' => Served(c)
<1>1. TypeInv'
    BY MainType, SignalType
<1>2. UNCHANGED <<backlog, met, fd, usrdata, wpc, job>>
    BY DEF Main, Signal, Start, Check, Wait, Wake, Dispatch, DispatchFreed, DispatchNoMemory,
           DispatchRefused, CloseEpoll, CloseServer, Join, sockVars, peerVars, clientVars, workerVars
<1>3. ASSUME NobodyNew,
             \A n \in Fds : \/ fdtab'[n] = fdtab[n]
                            \/ n \in {EpollFd, ServerFd} /\ fdtab'[n] = NoFile
      PROVE  SocketsOK'
    BY <1>2, <1>3, QuietSockets DEF SocketsOK, BacklogOK, Registering
<1>4. ASSUME UNCHANGED fdtab, NobodyNew, mainpc' \notin {"start", "join"},
             mainpc \notin {"join", "done"} \/ mainpc' = "done",
             InLoop' /\ fdtab[EpollFd] = Epoll => Listen \in interest'
      PROVE  ConnInv'
    BY <1>1, <1>3, <1>4 DEF LoopOK, ServerFile, ListenOK, StartOK
<1>5. CASE Start
    <2>1. UNCHANGED <<fdtab, batch, queue, wpc, job>> /\ mainpc' = "check" /\ Add(Listen)
        BY <1>5 DEF Start, workerVars
    <2>2. /\ interest' = interest \union {Listen}
          /\ ToSet(ready') \subseteq ToSet(ready) \union {Listen}
        BY <2>1, AddKeeps DEF TypeInv, Sources
    <2>3. NobodyNew
        BY <2>1, <2>2, SourcesDistinct DEF Served, InFlight, AtWork
    <2> QED BY <1>4, <1>5, <2>1, <2>2, <2>3 DEF Start
<1>6. CASE Check \/ Wait
    <2>1. UNCHANGED <<fdtab, interest, ready, batch, queue, wpc, job>>
        BY <1>6 DEF Check, Wait, sockVars, epollVars, workerVars
    <2>2. NobodyNew
        BY <2>1 DEF Served, InFlight, AtWork
    <2>3. InLoop /\ mainpc' \in {"wait", "blocked", "close_epoll"}
        BY <1>6 DEF Check, Wait, InLoop
    <2> QED BY <1>4, <2>1, <2>2, <2>3 DEF LoopOK, ListenOK, InLoop
<1>7. CASE Wake
    <2>1. PICK rest \in Seq(interest) :
              /\ NoRepeat(rest) /\ Leave(rest)
              /\ ToSet(ready) = ToSet(batch') \union ToSet(rest)
        BY <1>7, WakeSplit DEF TypeInv
    <2>2. /\ interest' \subseteq interest /\ ToSet(ready') \subseteq ToSet(rest)
          /\ fdtab[EpollFd] = Epoll => interest' = interest
        BY <2>1, LeaveKeeps DEF TypeInv
    <2>3. UNCHANGED <<fdtab, queue, wpc, job>> /\ mainpc = "blocked" /\ mainpc' = "dispatch"
        BY <1>7 DEF Wake, workerVars
    <2>4. NobodyNew
        BY <2>1, <2>2, <2>3 DEF Served, InFlight, AtWork
    <2> QED BY <1>4, <2>2, <2>3, <2>4 DEF LoopOK, ListenOK, InLoop
<1>8. CASE Dispatch \/ DispatchFreed \/ DispatchNoMemory \/ DispatchRefused
    <2>1. mainpc = "dispatch" /\ UNCHANGED <<fdtab, interest, ready, wpc, job>>
        BY <1>8 DEF Dispatch, DispatchFreed, DispatchNoMemory, DispatchRefused, sockVars,
                    epollVars, workerVars
    <2>2. /\ mainpc' \in {"check", "dispatch", "close_epoll"}
          /\ ToSet(batch') \subseteq ToSet(batch)
          /\ ToSet(queue') \subseteq ToSet(queue) \union ToSet(batch)
        <3>1. /\ ToSet(batch) = {Head(batch)} \union ToSet(Rest)
              /\ ToSet(Append(queue, Head(batch))) = ToSet(queue) \union {Head(batch)}
            <4>1. queue \in Seq(Sources)
                BY DEF TypeInv, MainTypeOK, Sources
            <4> QED BY <2>1, <4>1, BatchOf, AppendOf DEF TypeInv
        <3> QED BY <1>8, <2>1, <3>1, EmptyOf
                DEF Dispatch, DispatchFreed, DispatchNoMemory, DispatchRefused, Advance
    <2>3. NobodyNew
        BY <2>1, <2>2 DEF Served, InFlight, AtWork
    <2> QED BY <1>4, <2>1, <2>2, <2>3 DEF LoopOK, ListenOK, InLoop
<1>9. CASE CloseEpoll \/ CloseServer
    <2>1. PICK n \in {EpollFd, ServerFd} :
              /\ CloseNumber(n, FALSE)
              /\ mainpc' = IF n = EpollFd THEN "close_server" ELSE "join"
        BY <1>9, FdsAssumption DEF CloseEpoll, CloseServer
    <2>2. /\ fdtab' = [fdtab EXCEPT ![n] = NoFile]
          /\ interest' \subseteq interest /\ ToSet(ready') \subseteq ToSet(ready)
        BY <2>1, CloseKeeps, FdsAssumption DEF TypeInv
    <2>3. NobodyNew
        BY <1>9, <2>2 DEF CloseEpoll, CloseServer, Served, InFlight, AtWork, workerVars
    <2>4. SocketsOK'
        BY <1>3, <2>2, <2>3 DEF TypeInv, SockOK, SockTypeOK
    <2>5. mainpc \in {"close_epoll", "close_server"} /\ fdtab \in [Fds -> Sources \union {Epoll, NoFile}]
        BY <1>9 DEF CloseEpoll, CloseServer, TypeInv, SockOK, SockTypeOK, Sources
    <2>6. ServerFile'
        BY <2>1, <2>2, <2>5, FdsAssumption, FilesDistinct DEF LoopOK, ServerFile
    <2>7. ListenOK' /\ StartOK'
        BY <2>1 DEF ListenOK, StartOK, InLoop
    <2> QED BY <1>1, <2>4, <2>6, <2>7 DEF LoopOK
<1>10. CASE Join
    <2>1. /\ UNCHANGED <<fdtab, interest, ready, batch, wpc, job>>
          /\ queue' = <<>> /\ mainpc' = "done"
        BY <1>10 DEF Join, sockVars, epollVars, workerVars
    <2>2. NobodyNew
        BY <2>1, EmptyOf DEF Served, InFlight, AtWork
    <2> QED BY <1>4, <2>1, <2>2 DEF InLoop
<1>11. CASE Signal
    <2>1. /\ UNCHANGED <<fdtab, batch, queue, wpc, job>>
          /\ interest' \subseteq interest /\ ToSet(ready') \subseteq ToSet(ready)
          /\ fdtab[EpollFd] = Epoll => interest' = interest
        <3>1. CASE mainpc = "blocked"
            BY <1>11, <3>1, LeaveKeeps DEF Signal, TypeInv, EpollOK, workerVars
        <3>2. CASE mainpc # "blocked"
            BY <1>11, <3>2 DEF Signal, epollVars, workerVars
        <3> QED BY <3>1, <3>2
    <2>2. NobodyNew
        BY <2>1 DEF Served, InFlight, AtWork
    <2>3. CASE mainpc = "blocked"
        BY <1>4, <1>11, <2>1, <2>2, <2>3 DEF Signal, LoopOK, ListenOK, InLoop
    <2>4. CASE mainpc # "blocked"
        <3>1. UNCHANGED <<mainpc, interest, ready>>
            BY <1>11, <2>4 DEF Signal, epollVars
        <3>2. SocketsOK'
            BY <1>3, <2>1, <2>2
        <3> QED BY <1>1, <2>1, <3>1, <3>2 DEF LoopOK, ServerFile, ListenOK, StartOK, InLoop
    <2> QED BY <2>3, <2>4
<1> QED BY <1>5, <1>6, <1>7, <1>8, <1>9, <1>10, <1>11 DEF Main

LEMMA ArriveConn == ASSUME ConnInv, NEW c \in Clients, Arrive(c) PROVE ConnInv'
<1> USE SockIsEpoll DEF ConnInv
<1>1. TypeInv'
    BY ArriveType
<1>2. UNCHANGED <<fdtab, interest, mainpc, batch, queue, wpc, job, usrdata, fd>>
    BY DEF Arrive, PeerStep, Connect, Send, Hang, mainVars, workerVars, clientVars
<1>3. PICK i \in {c, Listen} : Notify(i)
    BY DEF Arrive, PeerStep, Connect, Send, Hang
<1>4. /\ ToSet(ready') \subseteq ToSet(ready) \union (interest \intersect {i})
      /\ interest = {} => ready' = ready
    BY <1>2, <1>3, NotifyKeeps DEF Notify, TypeInv
<1>5. \A d \in Clients : Served(d)' => Served(d)
    BY <1>2, <1>4 DEF Served, InFlight, AtWork
<1>6. LoopOK'
    BY <1>2, <1>4 DEF LoopOK, ServerFile, ListenOK, StartOK, InLoop
<1>7. CASE Connect(c)
    <2>1. /\ c \notin met /\ met' = met \union {c} /\ backlog' = Append(backlog, c)
          /\ backlog \in Seq(Clients)
        BY <1>7 DEF Connect, TypeInv, SockOK, SockTypeOK
    <2>2. c \notin ToSet(backlog)
        BY <2>1 DEF SocketsOK, BacklogOK
    <2>3. NoRepeat(backlog') /\ ToSet(backlog') = ToSet(backlog) \union {c}
        BY <2>1, <2>2, AppendOf DEF SocketsOK, BacklogOK
    <2>4. BacklogOK'
        BY <1>2, <2>1, <2>3 DEF SocketsOK, BacklogOK
    <2>5. AcceptedOK' /\ OwnSocket'
        BY <1>2, <1>5 DEF SocketsOK, AcceptedOK, OwnSocket
    <2>6. RegisterOK'
        BY <1>2, <1>5, JobIsClient DEF SocketsOK, RegisterOK, Registering, TypeInv
    <2> QED BY <1>1, <1>6, <2>4, <2>5, <2>6 DEF SocketsOK
<1>8. CASE Send(c) \/ Hang(c)
    <2>1. backlog' = backlog /\ met' = met
        BY <1>8 DEF Send, Hang
    <2>2. SocketsOK'
        BY <1>2, <1>5, <2>1, QuietSockets DEF SocketsOK, BacklogOK, Registering
    <2> QED BY <1>1, <1>6, <2>2
<1> QED BY <1>7, <1>8 DEF Arrive, PeerStep

LEMMA TakeJobConn == ASSUME ConnInv, NEW w \in Workers, TakeJob(w) PROVE ConnInv'
<1> USE DEF ConnInv
<1>1. TypeInv'
    BY TakeJobType
<1>2. UNCHANGED <<fdtab, interest, ready, backlog, met, mainpc, batch, usrdata, fd>>
    BY DEF TakeJob, sockVars, epollVars, peerVars, mainVars, clientVars
<1>3. queue \in Seq(Sources) /\ queue # <<>>
    BY DEF TakeJob, TypeInv, MainTypeOK, Sources
<1>4. /\ ToSet(queue) = {Head(queue)} \union ToSet(queue')
      /\ job' = [job EXCEPT ![w] = Head(queue)]
      /\ wpc' = [wpc EXCEPT ![w] = IF Head(queue) = Listen THEN "accept" ELSE "read"]
    BY <1>3, TailOf DEF TakeJob, Goto
<1>5. \A v \in Workers : Registering(v)' => Registering(v) /\ job'[v] = job[v]
    BY <1>4 DEF Registering, TypeInv, WorkOK, WorkerTypeOK
<1>6. ASSUME NEW c \in Clients, Served(c)' PROVE Served(c)
    <2>1. CASE c \in interest' \/ InFlight(c)'
        BY <1>2, <1>4, <2>1 DEF Served, InFlight
    <2>2. CASE AtWork(c)'
        <3>1. PICK v \in Workers : wpc'[v] \in ClientPc /\ job'[v] = c
            BY <2>2 DEF AtWork
        <3>2. CASE v = w
            BY <1>4, <3>1, <3>2 DEF Served, InFlight, TypeInv, WorkOK, WorkerTypeOK
        <3>3. CASE v # w
            BY <1>4, <3>1, <3>3 DEF Served, AtWork, TypeInv, WorkOK, WorkerTypeOK
        <3> QED BY <3>2, <3>3
    <2> QED BY <1>6, <2>1, <2>2 DEF Served
<1>7. SocketsOK'
    BY <1>2, <1>5, <1>6, QuietSockets DEF SocketsOK, BacklogOK
<1>8. LoopOK'
    BY <1>2, <1>3 DEF LoopOK, ServerFile, ListenOK, StartOK, InLoop
<1> QED BY <1>1, <1>7, <1>8

LEMMA AcceptConn == ASSUME ConnInv, NEW w \in Workers, Accept(w) PROVE ConnInv'
<1> USE DEF ConnInv
<1>0. PICK c : c = Head(backlog)
    OBVIOUS
<1>1. TypeInv'
    BY ServerJobType DEF ServerJob
<1>2. /\ UNCHANGED <<interest, ready, met, mainpc, batch, queue>>
      /\ wpc[w] = "accept" /\ wpc' = [wpc EXCEPT ![w] = "register"]
      /\ fdtab[ServerFd] = Listen /\ backlog # <<>> /\ backlog \in Seq(Clients)
      /\ backlog' = Tail(backlog)
    BY DEF Accept, Accepting, At, Goto, epollVars, peerVars, mainVars, TypeInv, SockOK, SockTypeOK
<1>3. PICK n \in Fds : /\ fdtab[n] = NoFile
                       /\ fdtab' = [fdtab EXCEPT ![n] = c]
                       /\ fd' = [fd EXCEPT ![c] = n]
                       /\ usrdata' = [usrdata EXCEPT ![c] = "live"]
                       /\ job' = [job EXCEPT ![w] = c]
    BY <1>0 DEF Accept, LowestFree, Unused
<1>4. /\ c \in Clients /\ ToSet(backlog) = {c} \union ToSet(backlog')
      /\ NoRepeat(backlog') /\ c \notin ToSet(backlog')
    BY <1>0, <1>2, TailOf DEF SocketsOK, BacklogOK
<1>5. /\ fdtab \in [Fds -> Sources \union {Epoll, NoFile}] /\ fd \in [Clients -> Fds]
      /\ usrdata \in [Clients -> {"none", "live", "freed"}] /\ job \in [Workers -> Sources \union {NoJob}]
      /\ wpc \in [Workers -> ClientPc \union {"idle", "accept", "register"}]
    BY DEF TypeInv, SockOK, SockTypeOK, ClientTypeOK, WorkOK, WorkerTypeOK, ClientPc, Sources
<1>6. usrdata[c] = "none" /\ c \in met /\ ~Served(c)
    BY <1>4 DEF SocketsOK, BacklogOK, OwnSocket
<1>7. n # ServerFd
    BY <1>2, <1>3, FilesDistinct
<1>8. \A d \in Clients : Served(d)' => Served(d)
    BY <1>2, <1>3, <1>5 DEF Served, InFlight, AtWork, ClientPc
<1>9. BacklogOK'
    BY <1>2, <1>3, <1>4, <1>5, <1>6, ToSetOf DEF SocketsOK, BacklogOK
<1>10. AcceptedOK'
    BY <1>3, <1>4, <1>5, <1>7, FdsAssumption, FilesDistinct DEF SocketsOK, AcceptedOK
<1>11. OwnSocket'
    <2> SUFFICES ASSUME NEW d \in Clients, Served(d)'
                 PROVE  usrdata'[d] # "none" /\ fd'[d] # EpollFd /\ fdtab'[fd'[d]] = d
        BY DEF OwnSocket
    <2>1. d # c /\ usrdata[d] # "none" /\ fd[d] # EpollFd /\ fdtab[fd[d]] = d
        BY <1>6, <1>8 DEF SocketsOK, OwnSocket
    <2>2. fd[d] # n
        BY <1>3, <2>1, FilesDistinct
    <2> QED BY <1>3, <1>5, <2>1, <2>2
<1>12. RegisterOK'
    <2>1. ASSUME NEW u \in Workers, u # w, wpc'[u] = "register"
          PROVE  /\ job'[u] = job[u] /\ wpc[u] = "register" /\ job[u] \in Clients /\ job[u] # c
                 /\ usrdata[job[u]] # "none" /\ ~Served(job[u])
                 /\ fd[job[u]] = EpollFd \/ fdtab[fd[job[u]]] = job[u]
        <3>1. job'[u] = job[u] /\ wpc[u] = "register"
            BY <1>2, <1>3, <1>5, <2>1
        <3>2. job[u] \in Clients
            BY <3>1, JobIsClient DEF TypeInv
        <3> QED BY <1>6, <3>1, <3>2 DEF SocketsOK, RegisterOK, Registering
    <2>2. ASSUME NEW v \in Workers, wpc'[v] = "register", NEW d, d = job'[v]
          PROVE  /\ usrdata'[d] # "none" /\ ~Served(d)'
                 /\ fd'[d] = EpollFd \/ fdtab'[fd'[d]] = d
                 /\ \A u \in Workers : wpc'[u] = "register" /\ job'[u] = d => u = v
        <3>1. CASE v = w
            <4>1. d = c /\ usrdata'[c] = "live" /\ fd'[c] = n /\ fdtab'[n] = c
                BY <1>3, <1>4, <1>5, <2>2, <3>1
            <4>2. ~Served(c)'
                BY <1>4, <1>6, <1>8
            <4>3. \A u \in Workers : wpc'[u] = "register" /\ job'[u] = c => u = v
                BY <2>1, <3>1
            <4> QED BY <4>1, <4>2, <4>3
        <3>2. CASE v # w
            <4>1. /\ d = job[v] /\ d \in Clients /\ d # c /\ wpc[v] = "register"
                  /\ usrdata[d] # "none" /\ ~Served(d)
                  /\ fd[d] = EpollFd \/ fdtab[fd[d]] = d
                BY <2>1, <2>2, <3>2
            <4>2. fd'[d] = fd[d] /\ usrdata'[d] = usrdata[d] /\ ~Served(d)'
                BY <1>3, <1>5, <1>8, <4>1
            <4>3. fdtab[fd[d]] = d => fdtab'[fd[d]] = d
                BY <1>3, <1>5, <4>1, FilesDistinct
            <4>4. \A u \in Workers : wpc'[u] = "register" /\ job'[u] = d => u = v
                BY <1>3, <1>5, <2>1, <4>1 DEF SocketsOK, RegisterOK, Registering
            <4> QED BY <4>1, <4>2, <4>3, <4>4
        <3> QED BY <3>1, <3>2
    <2> QED BY <2>2 DEF RegisterOK, Registering
<1>13. ServerFile'
    BY <1>2, <1>3, <1>4, <1>5, <1>7, FdsAssumption, SourcesDistinct DEF LoopOK, ServerFile
<1>14. ListenOK' /\ StartOK'
    BY <1>2, <1>3, <1>4, <1>5, FdsAssumption, FilesDistinct DEF LoopOK, ListenOK, StartOK, InLoop
<1> QED BY <1>1, <1>9, <1>10, <1>11, <1>12, <1>13, <1>14 DEF SocketsOK, LoopOK

LEMMA RegisterConn == ASSUME ConnInv, NEW w \in Workers, Register(w) PROVE ConnInv'
<1> USE DEF ConnInv
<1> DEFINE c == job[w]
           n == fd[c]
<1>1. TypeInv'
    BY ServerJobType DEF ServerJob
<1>2. /\ UNCHANGED <<backlog, met, mainpc, batch, queue, usrdata, fd>>
      /\ wpc[w] = "register" /\ Finish(w)
    BY DEF Register, At, peerVars, mainVars, clientVars
<1>3. /\ c \in Clients /\ usrdata[c] # "none" /\ ~Served(c) /\ n \in Fds /\ n # ServerFd
      /\ n = EpollFd => fdtab[EpollFd] # Epoll
      /\ n # EpollFd => fdtab[n] = c
    BY <1>2, JobIsClient DEF SocketsOK, RegisterOK, AcceptedOK, Registering, TypeInv, ClientTypeOK
<1>4. \A v \in Workers : Registering(v)' =>
          v # w /\ Registering(v) /\ job'[v] = job[v] /\ job[v] # c /\ job[v] \in Clients
    <2>1. \A v \in Workers : Registering(v)' => v # w /\ Registering(v) /\ job'[v] = job[v]
        BY <1>2 DEF Finish, Goto, Registering, TypeInv, WorkOK, WorkerTypeOK
    <2>2. \A v \in Workers : Registering(v) => job[v] \in Clients
        BY JobIsClient DEF TypeInv, Registering
    <2> QED BY <1>2, <2>1, <2>2 DEF SocketsOK, RegisterOK, Registering
<1>5. \A d \in Clients : AtWork(d)' => AtWork(d)
    BY <1>2, ProceedsQuiet DEF Proceeds, TypeInv
<1>6. \A v \in Workers : Registering(v)' => fd[job[v]] \in Fds
    BY <1>4 DEF TypeInv, ClientTypeOK
<1>7. CASE fdtab[EpollFd] = Epoll
    <2>1. Add(c) /\ UNCHANGED fdtab
        BY <1>7 DEF Register, Watch
    <2>2. interest' = interest \union {c} /\ ToSet(ready') \subseteq ToSet(ready) \union {c}
        BY <1>3, <2>1, SockIsEpoll, AddKeeps DEF Sources, TypeInv
    <2>3. \A d \in Clients : Served(d)' => Served(d) \/ d = c
        BY <1>2, <1>5, <2>2 DEF Served, InFlight
    <2>4. BacklogOK' /\ AcceptedOK'
        BY <1>2, <2>1 DEF SocketsOK, BacklogOK, AcceptedOK
    <2>5. OwnSocket'
        BY <1>2, <1>3, <1>7, <2>1, <2>3 DEF SocketsOK, OwnSocket
    <2>6. RegisterOK'
        BY <1>2, <1>4, <2>1, <2>3 DEF SocketsOK, RegisterOK
    <2>7. LoopOK'
        BY <1>2, <2>1, <2>2 DEF LoopOK, ServerFile, ListenOK, StartOK, InLoop
    <2> QED BY <1>1, <2>4, <2>5, <2>6, <2>7 DEF SocketsOK
<1>8. CASE fdtab[EpollFd] # Epoll
    <2>1. CloseNumber(n, FALSE)
        BY <1>8 DEF Register
    <2>2. /\ fdtab' = [fdtab EXCEPT ![n] = NoFile] /\ fdtab \in [Fds -> Sources \union {Epoll, NoFile}]
          /\ interest' \subseteq interest /\ ToSet(ready') \subseteq ToSet(ready)
        BY <1>3, <2>1, SockIsEpoll, CloseKeeps DEF TypeInv, SockOK, SockTypeOK, Sources
    <2>3. \A d \in Clients : Served(d)' => Served(d)
        BY <1>2, <1>5, <2>2 DEF Served, InFlight
    <2>4. fdtab'[EpollFd] # Epoll
        BY <1>8, <2>2, FdsAssumption, FilesDistinct
    <2>5. BacklogOK' /\ AcceptedOK'
        BY <1>2, <2>4 DEF SocketsOK, BacklogOK, AcceptedOK
    <2>6. OwnSocket'
        <3> SUFFICES ASSUME NEW d \in Clients, Served(d)
                     PROVE  usrdata[d] # "none" /\ fd[d] # EpollFd /\ fdtab'[fd[d]] = d
            BY <1>2, <2>3 DEF OwnSocket
        <3>1. /\ usrdata[d] # "none" /\ fd[d] # EpollFd /\ fdtab[fd[d]] = d /\ d # c
              /\ fd[d] \in Fds
            BY <1>3 DEF SocketsOK, OwnSocket, TypeInv, ClientTypeOK
        <3>2. fd[d] # n
            BY <1>3, <3>1
        <3> QED BY <2>2, <3>1, <3>2
    <2>7. RegisterOK'
        <3> SUFFICES ASSUME NEW v \in Workers, Registering(v)'
                     PROVE  /\ usrdata[job[v]] # "none" /\ ~Served(job[v])'
                            /\ fd[job[v]] = EpollFd \/ fdtab'[fd[job[v]]] = job[v]
                            /\ \A u \in Workers : Registering(u)' /\ job'[u] = job[v] => u = v
            BY <1>2, <1>4 DEF RegisterOK
        <3>1. /\ usrdata[job[v]] # "none" /\ ~Served(job[v])
              /\ fd[job[v]] = EpollFd \/ fdtab[fd[job[v]]] = job[v]
              /\ \A u \in Workers : Registering(u) /\ job[u] = job[v] => u = v
            BY <1>4 DEF SocketsOK, RegisterOK
        <3>2. fd[job[v]] # EpollFd => fd[job[v]] # n
            BY <1>3, <1>4, <3>1
        <3>3. fd[job[v]] = EpollFd \/ fdtab'[fd[job[v]]] = job[v]
            BY <1>6, <2>2, <3>1, <3>2
        <3> QED BY <1>4, <2>3, <3>1, <3>3
    <2>8. ServerFile'
        <3>1. \A k \in Fds : fdtab'[k] = fdtab[k] \/ fdtab'[k] = NoFile
            BY <2>2
        <3>2. fdtab'[ServerFd] = fdtab[ServerFd]
            BY <1>3, <2>2, FdsAssumption
        <3> QED BY <1>2, <3>1, <3>2, SourcesDistinct, FilesDistinct DEF LoopOK, ServerFile
    <2>9. ListenOK' /\ StartOK'
        BY <1>2, <2>4 DEF LoopOK, ListenOK, StartOK
    <2> QED BY <1>1, <2>5, <2>6, <2>7, <2>8, <2>9 DEF SocketsOK, LoopOK
<1> QED BY <1>7, <1>8

\* A server job that takes no connection.
LEMMA ServerQuietConn ==
    ASSUME ConnInv, NEW w \in Workers, AcceptNoMemory(w) \/ AcceptFull(w) \/ AcceptNothing(w)
    PROVE  ConnInv'
<1> USE DEF ConnInv
<1>1. TypeInv'
    BY ServerJobType DEF ServerJob
<1>2. /\ UNCHANGED <<fdtab, interest, ready, met, mainpc, batch, queue, usrdata, fd>>
      /\ wpc[w] = "accept" /\ Finish(w)
    BY DEF AcceptNoMemory, AcceptFull, AcceptNothing, Accepting, At, sockVars, epollVars, peerVars,
           mainVars, clientVars
<1>3. /\ \A c \in Clients : AtWork(c)' => AtWork(c)
      /\ \A v \in Workers : Registering(v)' => Registering(v) /\ job'[v] = job[v]
    BY <1>2, ProceedsQuiet DEF Proceeds, TypeInv
<1>4. \A c \in Clients : Served(c)' => Served(c)
    BY <1>2, <1>3 DEF Served, InFlight
<1>5. NoRepeat(backlog') /\ ToSet(backlog') \subseteq ToSet(backlog)
    <2>1. backlog \in Seq(Clients) /\ NoRepeat(backlog)
        BY DEF TypeInv, SockOK, SockTypeOK, SocketsOK, BacklogOK
    <2>2. backlog' = backlog \/ (backlog # <<>> /\ backlog' = Tail(backlog))
        BY DEF AcceptNoMemory, AcceptFull, AcceptNothing, Accepting, sockVars
    <2> QED BY <2>1, <2>2, TailOf
<1>6. SocketsOK'
    BY <1>2, <1>3, <1>4, <1>5, QuietSockets
<1>7. LoopOK'
    BY <1>2 DEF LoopOK, ServerFile, ListenOK, StartOK, InLoop
<1> QED BY <1>1, <1>6, <1>7

LEMMA NextConn == ConnInv /\ [Next]_vars => ConnInv'
<1> SUFFICES ASSUME ConnInv, [Next]_vars PROVE ConnInv'
    OBVIOUS
<1>1. CASE UNCHANGED vars
    <2>1. TypeInv'
        BY <1>1, Frames DEF ConnInv, TypeInv, vars
    <2>2. SocketsOK' /\ LoopOK'
        BY <1>1 DEF ConnInv, vars, sockVars, epollVars, peerVars, mainVars, workerVars, clientVars,
                    SocketsOK, BacklogOK, AcceptedOK, OwnSocket, RegisterOK, Served, InFlight,
                    AtWork, Registering, NoRepeat, LoopOK, ServerFile, ListenOK, StartOK, InLoop
    <2> QED BY <2>1, <2>2 DEF ConnInv
<1> QED BY <1>1, MainConn, ArriveConn, TakeJobConn, AcceptConn, RegisterConn, ServerQuietConn,
           ClientJobConn DEF Next, Worker, ServerJob

LEMMA ConnAlways == Spec => []ConnInv
BY InitConn, NextConn, PTL DEF Spec

\* A file number that a worker uses, and every socket that an event or a job is
\* about, belongs to the client of that event or job: no response and no read
\* goes to a socket whose number was closed and given out again.
THEOREM SocketsAreOwn == Spec => []OwnSocket
<1>1. ConnInv => OwnSocket
    BY DEF ConnInv, SocketsOK
<1> QED BY <1>1, ConnAlways, PTL

-----------------------------------------------------------------------------
(* Edge triggered readiness.                                               *)

Busy(c) == \E w \in Workers : job[w] = c /\ wpc[w] \in {"read", "del"}

Pending(c) == InFlight(c) \/ Busy(c)

\* For each step it is enough to look at a client that is still unread after it.
LEMMA UnreadKept ==
    ASSUME UnreadIsScheduled, uaf => uaf', dropped \subseteq dropped', Working' => Working,
           ASSUME NEW c \in Clients, Working', ~uaf', c \in interest' \ dropped', Readable(c)'
           PROVE  (c \in interest /\ Readable(c) /\ (Pending(c) => Pending(c)')) \/ Pending(c)'
    PROVE  UnreadIsScheduled'
<1> SUFFICES ASSUME Working', ~uaf', NEW c \in Clients, c \in interest' \ dropped', Readable(c)'
             PROVE  Pending(c)'
    BY DEF UnreadIsScheduled, Pending, Busy
<1>1. CASE c \in interest /\ Readable(c) /\ (Pending(c) => Pending(c)')
    <2>1. Pending(c)
        BY <1>1 DEF UnreadIsScheduled, Pending, Busy
    <2> QED BY <1>1, <2>1
<1> QED BY <1>1

LEMMA MainUnread ==
    ASSUME ConnInv, UnreadIsScheduled, Main \/ Signal PROVE UnreadIsScheduled'
<1> USE SockIsEpoll DEF ConnInv, MainAt, MainGoto
<1>0. UNCHANGED <<wpc, job, sent, received, gone>> /\ (uaf => uaf') /\ dropped \subseteq dropped'
    <2>1. UNCHANGED <<wpc, job, sent, received, gone>>
        BY DEF Main, Signal, Start, Check, Wait, Wake, Dispatch, DispatchFreed, DispatchNoMemory,
               DispatchRefused, CloseEpoll, CloseServer, Join, sockVars, peerVars, workerVars
    <2>2. uaf' = uaf \/ uaf' = TRUE
        BY DEF Main, Signal, Start, Check, Wait, Wake, Dispatch, DispatchFreed, DispatchNoMemory,
               DispatchRefused, CloseEpoll, CloseServer, Join, histVars
    <2>3. dropped \subseteq dropped'
        BY DEF Main, Signal, Start, Check, Wait, Wake, Dispatch, DispatchFreed, DispatchNoMemory,
               DispatchRefused, CloseEpoll, CloseServer, Join, histVars
    <2> QED BY <2>1, <2>2, <2>3
<1>1. \A c \in Clients : /\ Readable(c)' = Readable(c)
                         /\ Busy(c)' = Busy(c)
    BY <1>0, SourcesDistinct DEF Readable, Busy
<1>2. CASE Start
    <2>1. interest' = {Listen} /\ dropped' = dropped /\ uaf' = uaf
        BY <1>2, AddKeeps DEF Start, LoopOK, StartOK, Add, histVars
    <2> QED BY <2>1, SourcesDistinct DEF UnreadIsScheduled
<1>3. CASE Check \/ Wait
    <2>1. UNCHANGED <<fdtab, interest, ready, batch, queue, alive>> /\ mainpc \in {"check", "wait"}
        BY <1>3 DEF Check, Wait, sockVars, epollVars, histVars
    <2>2. Working' => Working
        BY <2>1 DEF Working, InLoop
    <2>3. \A c \in Clients : Pending(c)' = Pending(c)
        BY <1>1, <2>1 DEF Pending, InFlight
    <2> QED BY <1>0, <1>1, <2>1, <2>2, <2>3, UnreadKept
<1>4. CASE Wake
    <2>1. PICK rest \in Seq(interest) :
              /\ NoRepeat(rest) /\ Leave(rest)
              /\ ToSet(ready) = ToSet(batch') \union ToSet(rest)
        BY <1>4, WakeSplit DEF TypeInv
    <2>2. UNCHANGED <<fdtab, queue, alive>> /\ mainpc = "blocked" /\ batch = <<>>
        BY <1>4 DEF Wake, TypeInv, MainTypeOK, histVars
    <2>3. Working' => Working /\ interest' = interest /\ ready' = rest
        BY <2>1, <2>2, LeaveKeeps DEF Working, InLoop, TypeInv
    <2>4. ASSUME NEW c \in Clients, Working', Pending(c) PROVE Pending(c)'
        BY <1>1, <2>1, <2>2, <2>3, <2>4, EmptyOf DEF Pending, InFlight
    <2> QED BY <1>0, <1>1, <2>3, <2>4, UnreadKept
<1>5. CASE Dispatch \/ DispatchRefused
    <2>0. /\ UNCHANGED <<fdtab, interest, ready, alive>> /\ mainpc = "dispatch"
          /\ queue \in Seq(Sources) /\ batch' = Rest
        BY <1>5 DEF Dispatch, DispatchRefused, Advance, TypeInv, MainTypeOK, Sources,
                    sockVars, epollVars, histVars
    <2>1. Head(batch) \in Sources /\ ToSet(batch) = {Head(batch)} \union ToSet(batch')
        BY <2>0, BatchOf DEF TypeInv
    <2>2. /\ ToSet(queue) \subseteq ToSet(queue')
          /\ Head(batch) \in ToSet(queue') \/ Head(batch) \in dropped' \union {Listen}
        <3>1. CASE Dispatch
            <4>1. queue' = Append(queue, Head(batch))
                BY <3>1 DEF Dispatch
            <4> QED BY <4>1, <2>0, <2>1, AppendOf
        <3>2. CASE DispatchRefused
            BY <3>2 DEF DispatchRefused
        <3> QED BY <1>5, <3>1, <3>2
    <2>3. ASSUME NEW c \in Clients, c \notin dropped', Pending(c) PROVE Pending(c)'
        BY <1>1, <2>0, <2>1, <2>2, <2>3, SourcesDistinct DEF Pending, InFlight
    <2>4. Working' => Working
        BY <2>0 DEF Working, InLoop
    <2> QED BY <1>0, <1>1, <2>0, <2>3, <2>4, UnreadKept
<1>6. CASE DispatchFreed
    BY <1>6 DEF DispatchFreed, UnreadIsScheduled
<1>7. CASE DispatchNoMemory \/ CloseEpoll \/ CloseServer \/ Join
    <2>1. ~Working'
        BY <1>7 DEF DispatchNoMemory, CloseEpoll, CloseServer, Join, Working, InLoop
    <2> QED BY <2>1 DEF UnreadIsScheduled
<1>8. CASE Signal
    <2>1. UNCHANGED <<fdtab, batch, queue, alive, uaf, dropped>> /\ (Working' => Working)
        BY <1>8 DEF Signal, Working, InLoop, histVars
    <2>2. Working => UNCHANGED <<interest, ready>>
        <3>1. CASE mainpc = "blocked"
            BY <1>8, <3>1 DEF Signal, Leave, Working
        <3>2. CASE mainpc # "blocked"
            BY <1>8, <3>2 DEF Signal, epollVars
        <3> QED BY <3>1, <3>2
    <2>3. \A c \in Clients : Working' => Pending(c)' = Pending(c)
        BY <1>1, <2>1, <2>2 DEF Pending, InFlight
    <2> QED BY <1>0, <1>1, <2>1, <2>2, <2>3, UnreadKept
<1> QED BY <1>2, <1>3, <1>4, <1>5, <1>6, <1>7, <1>8 DEF Main

LEMMA ArriveUnread ==
    ASSUME ConnInv, UnreadIsScheduled, NEW d \in Clients, Arrive(d) PROVE UnreadIsScheduled'
<1>1. /\ UNCHANGED <<fdtab, interest, mainpc, batch, queue, wpc, job, received, histVars>>
      /\ Notify(d) \/ (Notify(Listen) /\ UNCHANGED <<sent, gone>>)
      /\ \A c \in Clients \ {d} : sent'[c] = sent[c] /\ (c \in gone' <=> c \in gone)
    BY DEF Arrive, PeerStep, Connect, Send, Hang, mainVars, workerVars, ConnInv, TypeInv, SockOK,
           SockTypeOK
<1>2. EpollOK
    BY SockIsEpoll DEF ConnInv, TypeInv
<1>3. /\ ToSet(ready) \subseteq ToSet(ready')
      /\ Notify(d) /\ d \in interest => d \in ToSet(ready')
    BY <1>1, <1>2, NotifyKeeps
<1>4. \A c \in Clients : Pending(c) => Pending(c)'
    BY <1>1, <1>3 DEF Pending, InFlight, Busy
<1>5. ASSUME NEW c \in Clients, c \in interest', Readable(c)'
      PROVE  (c \in interest /\ Readable(c)) \/ Pending(c)'
    <2>1. CASE c = d /\ Notify(d)
        BY <1>1, <1>3, <1>5, <2>1 DEF Pending, InFlight
    <2>2. CASE c # d \/ ~Notify(d)
        BY <1>1, <1>5, <2>2, SourcesDistinct DEF Readable
    <2> QED BY <2>1, <2>2
<1>6. (Working' => Working) /\ dropped' = dropped /\ uaf' = uaf
    BY <1>1 DEF Working, InLoop, histVars
<1> QED BY <1>4, <1>5, <1>6, UnreadKept

LEMMA TakeJobUnread ==
    ASSUME ConnInv, UnreadIsScheduled, NEW w \in Workers, TakeJob(w) PROVE UnreadIsScheduled'
<1> USE DEF ConnInv
<1>1. UNCHANGED <<fdtab, interest, ready, mainpc, batch, sent, received, gone,
                dropped, alive, uaf>>
    BY DEF TakeJob, sockVars, epollVars, peerVars, mainVars
<1>2. queue \in Seq(Sources) /\ queue # <<>> /\ wpc[w] = "idle"
    BY DEF TakeJob, At, TypeInv, MainTypeOK, Sources
<1>3. /\ ToSet(queue) = {Head(queue)} \union ToSet(queue')
      /\ job' = [job EXCEPT ![w] = Head(queue)]
      /\ wpc' = [wpc EXCEPT ![w] = IF Head(queue) = Listen THEN "accept" ELSE "read"]
    BY <1>2, TailOf DEF TakeJob, Goto
<1>4. job \in [Workers -> Sources \union {NoJob}] /\ DOMAIN wpc = Workers
    BY DEF TypeInv, WorkOK, WorkerTypeOK, Sources
<1>5. ASSUME NEW c \in Clients, Pending(c) PROVE Pending(c)'
    <2>1. CASE c \in ToSet(ready) \union ToSet(batch) \union ToSet(queue')
        BY <1>1, <2>1 DEF Pending, InFlight
    <2>2. CASE c = Head(queue)
        <3>1. job'[w] = c /\ wpc'[w] = "read"
            BY <1>3, <1>4, <2>2, SourcesDistinct
        <3> QED BY <3>1 DEF Pending, Busy
    <2>3. CASE Busy(c)
        <3>1. PICK v \in Workers : job[v] = c /\ wpc[v] \in {"read", "del"}
            BY <2>3 DEF Busy
        <3>2. job'[v] = c /\ wpc'[v] = wpc[v]
            BY <1>2, <1>3, <1>4, <3>1
        <3> QED BY <3>1, <3>2 DEF Pending, Busy
    <2> QED BY <1>3, <1>5, <2>1, <2>2, <2>3 DEF Pending, InFlight
<1>6. \A c \in Clients : Readable(c)' = Readable(c)
    BY <1>1, SourcesDistinct DEF Readable
<1>7. /\ Working' => Working
      /\ interest' = interest /\ dropped \subseteq dropped' /\ (uaf => uaf')
    BY <1>1 DEF Working, InLoop
<1> QED BY <1>5, <1>6, <1>7, UnreadKept

LEMMA ServerUnread ==
    ASSUME ConnInv, UnreadIsScheduled, NEW w \in Workers, ServerJob(w) PROVE UnreadIsScheduled'
<1> USE DEF ConnInv
<1>1. /\ UNCHANGED <<mainpc, batch, queue, sent, received, gone, alive, uaf, dropped>>
      /\ wpc[w] \in {"accept", "register"}
    BY DEF ServerJob, Accept, AcceptNoMemory, AcceptFull, AcceptNothing, Register, Accepting, At,
           sockVars, peerVars, mainVars, histVars
<1>2. \A v \in Workers \ {w} : wpc'[v] = wpc[v] /\ job'[v] = job[v]
    BY DEF ServerJob, Accept, AcceptNoMemory, AcceptFull, AcceptNothing, Register, Finish, Goto,
           TypeInv, WorkOK, WorkerTypeOK
<1>3. \A c \in Clients : (Busy(c) => Busy(c)') /\ Readable(c)' = Readable(c)
    BY <1>1, <1>2, SourcesDistinct DEF Busy, Readable
<1>4. CASE ~Register(w)
    <2>1. interest' = interest /\ ready' = ready
        BY <1>4 DEF ServerJob, Accept, AcceptNoMemory, AcceptFull, AcceptNothing, sockVars, epollVars
    <2>2. \A c \in Clients : Pending(c) => Pending(c)'
        BY <1>1, <1>3, <2>1 DEF Pending, InFlight
    <2>3. fdtab' = fdtab \/ \E n \in Fds, c \in Clients : fdtab' = [fdtab EXCEPT ![n] = c]
        BY <1>4, TailOf DEF ServerJob, Accept, AcceptNoMemory, AcceptFull, AcceptNothing, Accepting,
                            sockVars, TypeInv, SockOK, SockTypeOK
    <2>4. fdtab'[EpollFd] = Epoll => fdtab[EpollFd] = Epoll
        BY <2>3, SourcesDistinct, FdsAssumption, FilesDistinct DEF TypeInv, SockOK, SockTypeOK
    <2>5. Working' => Working
        BY <1>1, <2>4 DEF Working, InLoop
    <2> QED BY <1>1, <1>3, <2>1, <2>2, <2>5, UnreadKept
<1>5. CASE Register(w) /\ fdtab[EpollFd] = Epoll
    <2>1. Add(job[w]) /\ fdtab' = fdtab /\ job[w] \in Sources
        BY <1>5, JobIsClient DEF Register, Watch, At, TypeInv, Sources
    <2>2. /\ interest' = interest \union {job[w]} /\ ToSet(ready) \subseteq ToSet(ready')
          /\ Readable(job[w]) => job[w] \in ToSet(ready')
        BY <2>1, SockIsEpoll, AddKeeps DEF TypeInv
    <2>3. \A c \in Clients : Pending(c) => Pending(c)'
        BY <1>1, <1>3, <2>2 DEF Pending, InFlight
    <2>4. ASSUME NEW c \in Clients, c \in interest', Readable(c)'
          PROVE  (c \in interest /\ Readable(c)) \/ Pending(c)'
        <3>1. Readable(c)
            BY <1>3, <2>4
        <3>2. CASE c = job[w]
            <4>1. c \in ToSet(ready')
                BY <2>2, <3>1, <3>2
            <4> QED BY <4>1 DEF Pending, InFlight
        <3>3. CASE c # job[w]
            BY <2>2, <2>4, <3>1, <3>3
        <3> QED BY <3>2, <3>3
    <2>5. Working' => Working
        BY <1>1, <2>1 DEF Working, InLoop
    <2> QED BY <1>1, <2>3, <2>4, <2>5, UnreadKept
<1>6. CASE Register(w) /\ fdtab[EpollFd] # Epoll
    <2>1. fdtab' = [fdtab EXCEPT ![fd[job[w]]] = NoFile]
        BY <1>6 DEF Register, CloseNumber
    <2>2. ~Working'
        BY <1>6, <2>1, FilesDistinct, FdsAssumption DEF Working, TypeInv, SockOK, SockTypeOK
    <2> QED BY <2>2 DEF UnreadIsScheduled
<1> QED BY <1>4, <1>5, <1>6

LEMMA ClientUnread ==
    ASSUME ConnInv, UnreadIsScheduled, NEW w \in Workers, ClientJob(w) PROVE UnreadIsScheduled'
<1> USE DEF ConnInv
<1>0. PICK d : d = job[w]
    OBVIOUS
<1>1. /\ wpc[w] \in ClientPc /\ job[w] \in Clients /\ Proceeds(w)
      /\ UNCHANGED <<mainpc, batch, queue, sent, gone>> /\ interest' \subseteq interest
      /\ fdtab'[EpollFd] = Epoll => fdtab' = fdtab
    <2>1. fdtab' = fdtab \/ fdtab' = [fdtab EXCEPT ![EpollFd] = NoFile]
        BY ClientStep
    <2>2. fdtab'[EpollFd] = Epoll => fdtab' = fdtab
        BY <2>1, FilesDistinct, FdsAssumption DEF TypeInv, SockOK, SockTypeOK
    <2> QED BY <2>2, ClientStep DEF mainVars, peerVars, epollVars
<1>2. Peer(w) = job[w]
    BY <1>1 DEF SocketsOK, OwnSocket, Served, AtWork, Peer
<1>3. (uaf => uaf') /\ dropped' = dropped /\ (alive' => alive)
    <2>1. dropped' = dropped /\ alive
        BY DEF ClientJob, UseFreed, Read, ReadEnd, ReadEmpty, Feed, Parse, FeedNoMemory, Pop, Take,
               Unlink, Release, ContextFreed, DoubleFree, RaceKills, Answer, AnswerError,
               AnswerShort, AnswerKilled, AnswerNull, Del, Close, Free, At, Uses, histVars
    <2>2. uaf' = uaf \/ uaf' = TRUE
        BY DEF ClientJob, UseFreed, Read, ReadEnd, ReadEmpty, Feed, Parse, FeedNoMemory, Pop, Take,
               Unlink, Release, ContextFreed, DoubleFree, RaceKills, Answer, AnswerError,
               AnswerShort, AnswerKilled, AnswerNull, Del, Close, Free, Undefined, histVars
    <2> QED BY <2>1, <2>2
<1>4. Working' => Working
    BY <1>1, <1>3 DEF Working, InLoop
<1>5. \A v \in Workers \ {w} : wpc'[v] = wpc[v] /\ job'[v] = job[v]
    BY <1>1 DEF Proceeds, Finish, Goto, TypeInv, WorkOK, WorkerTypeOK
<1>6. \A c \in Clients \ {d} : Busy(c) => Busy(c)'
    BY <1>0, <1>5 DEF Busy
<1>7. ASSUME UNCHANGED <<interest, ready, received>>, wpc[w] \notin {"read", "del"} \/ Busy(d)'
      PROVE  UnreadIsScheduled'
    <2>1. \A c \in Clients : Readable(c)' = Readable(c)
        BY <1>1, <1>7, SourcesDistinct DEF Readable
    <2>2. \A c \in Clients : Busy(c) => Busy(c)'
        BY <1>0, <1>5, <1>6, <1>7 DEF Busy
    <2>3. \A c \in Clients : Pending(c) => Pending(c)'
        BY <1>1, <1>7, <2>2 DEF Pending, InFlight
    <2> QED BY <1>3, <1>4, <1>7, <2>1, <2>3, UnreadKept
<1>8. \A l \in {"read", "del"} : Goto(w, l) /\ job' = job => Busy(d)'
    <2> SUFFICES ASSUME NEW l \in {"read", "del"}, Goto(w, l), job' = job PROVE Busy(d)'
        OBVIOUS
    <2>1. wpc'[w] = l
        BY DEF Goto, TypeInv, WorkOK, WorkerTypeOK
    <2> QED BY <1>0, <2>1 DEF Busy
<1>9. CASE UseFreed(w) \/ ContextFreed(w) \/ DoubleFree(w) \/ RaceKills(w)
    BY <1>9 DEF UseFreed, ContextFreed, DoubleFree, RaceKills, Undefined, UnreadIsScheduled, Working
<1>10. CASE Read(w)
    <2>1. /\ UNCHANGED <<interest, ready, job>> /\ Goto(w, "read")
          /\ \A c \in Clients \ {d} : received'[c] = received[c]
        BY <1>0, <1>2, <1>10 DEF Read, ReadAgain, epollVars, TypeInv, SockOK, SockTypeOK
    <2>2. Pending(d)'
        BY <1>0, <1>8, <2>1 DEF Pending
    <2>3. ASSUME NEW c \in Clients, c # d
          PROVE  Readable(c)' = Readable(c) /\ (Pending(c) => Pending(c)')
        <3>1. Readable(c)' = Readable(c)
            BY <1>1, <2>1, <2>3, SourcesDistinct DEF Readable
        <3>2. Pending(c) => Pending(c)'
            BY <1>1, <1>6, <2>1, <2>3 DEF Pending, InFlight
        <3> QED BY <3>1, <3>2
    <2>4. ASSUME NEW c \in Clients, Working', ~uaf', c \in interest' \ dropped', Readable(c)'
          PROVE  (c \in interest /\ Readable(c) /\ (Pending(c) => Pending(c)')) \/ Pending(c)'
        <3>1. CASE c = d
            BY <2>2, <3>1
        <3>2. CASE c # d
            BY <2>1, <2>3, <2>4, <3>2
        <3> QED BY <3>1, <3>2
    <2> QED BY <1>3, <1>4, <2>4, UnreadKept
<1>11. CASE ReadEnd(w)
    <2>1. UNCHANGED <<interest, ready, received>> /\ Busy(d)'
        BY <1>8, <1>11 DEF ReadEnd, Continue, sockVars, epollVars
    <2> QED BY <1>7, <2>1
<1>12. CASE ReadEmpty(w)
    <2>1. UNCHANGED <<interest, ready, received>> /\ ~Readable(job[w])
        BY <1>2, <1>12 DEF ReadEmpty, sockVars, epollVars
    <2>2. ASSUME NEW c \in Clients, Readable(c)' PROVE Readable(c) /\ (Pending(c) => Pending(c)')
        <3>1. Readable(c)
            BY <1>1, <2>1, <2>2, SourcesDistinct DEF Readable
        <3>2. c # d
            BY <1>0, <2>1, <3>1
        <3> QED BY <1>1, <1>6, <2>1, <3>1, <3>2 DEF Pending, InFlight
    <2> QED BY <1>3, <1>4, <2>1, <2>2, UnreadKept
<1>13. CASE \/ Feed(w) \/ Parse(w) \/ FeedNoMemory(w) \/ Pop(w) \/ Take(w) \/ Unlink(w)
            \/ Release(w) \/ Answer(w) \/ AnswerError(w) \/ AnswerShort(w) \/ AnswerKilled(w)
            \/ AnswerNull(w) \/ Free(w)
    <2>1. UNCHANGED <<interest, ready, received>> /\ wpc[w] \notin {"read", "del"}
        BY <1>13 DEF Feed, Parse, FeedNoMemory, Pop, Take, Unlink, Release, Answer, AnswerError,
                     AnswerShort, AnswerKilled, AnswerNull, Free, Uses, At, sockVars, epollVars
    <2> QED BY <1>7, <2>1
<1>14. CASE Del(w)
    <2>1. fdtab[EpollFd] = Epoll => Forget(job[w])
        BY <1>2, <1>14 DEF Del
    <2>2. fdtab' = fdtab /\ received' = received
        BY <1>14 DEF Del
    <2>3. Working' => interest' = interest \ {job[w]} /\ ToSet(ready') = ToSet(ready) \ {job[w]}
        BY <2>1, <2>2, ForgetKeeps, SockIsEpoll DEF Working, TypeInv
    <2>4. ASSUME NEW c \in Clients, Working', c \in interest', Readable(c)'
          PROVE  c \in interest /\ Readable(c) /\ (Pending(c) => Pending(c)')
        <3>1. c \in interest /\ c # d
            BY <1>0, <2>3, <2>4
        <3>2. Readable(c)
            BY <1>1, <2>2, <2>4, SourcesDistinct DEF Readable
        <3> QED BY <1>0, <1>1, <1>6, <2>3, <2>4, <3>1, <3>2 DEF Pending, InFlight
    <2> QED BY <1>3, <1>4, <2>4, UnreadKept
<1>15. CASE Close(w)
    <2>1. fdtab' = [fdtab EXCEPT ![EpollFd] = NoFile]
        BY <1>15 DEF Close, CloseNumber
    <2>2. ~Working'
        BY <2>1, FilesDistinct, FdsAssumption DEF Working, TypeInv, SockOK, SockTypeOK
    <2> QED BY <2>2 DEF UnreadIsScheduled
<1> QED BY <1>9, <1>10, <1>11, <1>12, <1>13, <1>14, <1>15 DEF ClientJob

\* Edge triggered readiness loses nothing: as long as the loop runs, whatever a
\* registered client has sent and the server has not read is announced by an
\* event or a job, or is about to be read.
THEOREM UnreadAlwaysScheduled == Spec => []UnreadIsScheduled
<1>1. Init => UnreadIsScheduled
    BY DEF Init, SockInit, UnreadIsScheduled
<1>2. ConnInv /\ UnreadIsScheduled /\ [Next]_vars => UnreadIsScheduled'
    <2> SUFFICES ASSUME ConnInv, UnreadIsScheduled, [Next]_vars PROVE UnreadIsScheduled'
        OBVIOUS
    <2>1. CASE UNCHANGED vars
        <3>1. \A c \in Clients : Readable(c)' = Readable(c) /\ Pending(c)' = Pending(c)
            BY <2>1 DEF vars, sockVars, epollVars, peerVars, mainVars, workerVars, Readable, Pending,
                        InFlight, Busy
        <3>2. Working' = Working /\ uaf' = uaf /\ dropped' = dropped /\ interest' = interest
            BY <2>1 DEF vars, sockVars, epollVars, mainVars, histVars, Working, InLoop
        <3> QED BY <3>1, <3>2, UnreadKept
    <2> QED BY <2>1, MainUnread, ArriveUnread, TakeJobUnread, ServerUnread, ClientUnread
               DEF Next, Worker
<1> QED BY <1>1, <1>2, ConnAlways, PTL DEF Spec

-----------------------------------------------------------------------------
(* Why the event loop ends.                                                *)

\* Nothing has happened that may end the loop.
Calm == ~loop_terminal /\ faults = 0 /\ gone = {}

\* In a calm system no worker is on the way to the label closefd.
CalmInv ==
    Calm => /\ mainpc = "start" \/ InLoop
            /\ fdtab[EpollFd] = Epoll
            /\ \A w \in Workers : wpc[w] \notin {"del", "close", "free"}

LEMMA MainCalm == ASSUME ConnInv, CalmInv, Main \/ Signal PROVE CalmInv'
<1> USE DEF ConnInv, MainAt, MainGoto
<1> SUFFICES ASSUME Calm' PROVE CalmInv'
    BY DEF CalmInv
<1>1. UNCHANGED <<fdtab, wpc>> /\ Calm
    <2>0. ~Signal /\ Main
        BY DEF Calm, Signal
    <2>1. gone' = gone /\ wpc' = wpc /\ loop_terminal' = loop_terminal
        BY <2>0 DEF Main, Start, Check, Wait, Wake, Dispatch, DispatchFreed,
               DispatchNoMemory, DispatchRefused, CloseEpoll, CloseServer, Join, sockVars, peerVars,
               workerVars
    <2>2. faults' = faults \/ Fault
        BY <2>0 DEF Main, Start, Check, Wait, Wake, Dispatch, DispatchFreed,
               DispatchNoMemory, DispatchRefused, CloseEpoll, CloseServer, Join, histVars
    <2>3. Calm
        BY <2>1, <2>2 DEF Calm, Fault, TypeInv, HistTypeOK
    <2>4. mainpc = "start" \/ InLoop
        BY <2>3 DEF CalmInv
    <2>5. fdtab' = fdtab
        BY <2>0, <2>4 DEF Main, Start, Check, Wait, Wake, Dispatch, DispatchFreed,
               DispatchNoMemory, DispatchRefused, CloseEpoll, CloseServer, Join, sockVars, InLoop
    <2> QED BY <2>1, <2>3, <2>5
<1>2. mainpc = "start" \/ InLoop
    BY <1>1 DEF CalmInv
<1>3. InLoop'
    <2>1. ~DispatchNoMemory /\ ~Signal
        BY <1>1 DEF DispatchNoMemory, Signal, Fault, Calm, TypeInv, HistTypeOK
    <2>2. CASE Start \/ Wake
        BY <2>2 DEF Start, Wake, InLoop
    <2>3. CASE Check \/ Wait
        BY <1>1, <2>3 DEF Check, Wait, Continuing, Calm, CalmInv, InLoop
    <2>4. CASE Dispatch \/ DispatchFreed \/ DispatchRefused
        BY <2>4 DEF Dispatch, DispatchFreed, DispatchRefused, Advance, InLoop
    <2>5. ~CloseEpoll /\ ~CloseServer /\ ~Join
        BY <1>2 DEF CloseEpoll, CloseServer, Join, InLoop
    <2> QED BY <2>1, <2>2, <2>3, <2>4, <2>5 DEF Main
<1> QED BY <1>1, <1>3 DEF CalmInv

LEMMA ServerCalm ==
    ASSUME ConnInv, CalmInv, NEW w \in Workers, ServerJob(w) \/ TakeJob(w) PROVE CalmInv'
<1> USE DEF ConnInv
<1> SUFFICES ASSUME Calm' PROVE CalmInv'
    BY DEF CalmInv
<1>1. UNCHANGED <<mainpc, loop_terminal, gone>>
    BY DEF ServerJob, Accept, AcceptNoMemory, AcceptFull, AcceptNothing, Register, TakeJob,
           sockVars, peerVars, mainVars
<1>2. faults' = faults \/ Fault
    BY DEF ServerJob, Accept, AcceptNoMemory, AcceptFull, AcceptNothing, Register, TakeJob, histVars
<1>3. Calm
    BY <1>1, <1>2 DEF Calm, Fault, TypeInv, HistTypeOK
<1>4. fdtab[EpollFd] = Epoll
    BY <1>3 DEF CalmInv
<1>5. fdtab' = fdtab \/ \E n \in Fds : fdtab[n] = NoFile /\ fdtab' = [fdtab EXCEPT ![n] = Head(backlog)]
    BY <1>4 DEF ServerJob, Accept, AcceptNoMemory, AcceptFull, AcceptNothing, Register, TakeJob,
                LowestFree, Unused, sockVars
<1>6. fdtab'[EpollFd] = Epoll
    BY <1>4, <1>5, FilesDistinct, FdsAssumption DEF TypeInv, SockOK, SockTypeOK
<1>7. \A v \in Workers : wpc'[v] = wpc[v] \/ wpc'[v] \in {"idle", "accept", "register", "read"}
    BY DEF ServerJob, Accept, AcceptNoMemory, AcceptFull, AcceptNothing, Register, TakeJob,
           Finish, Goto, TypeInv, WorkOK, WorkerTypeOK
<1>8. InLoop' <=> InLoop
    BY <1>1 DEF InLoop
<1> QED BY <1>1, <1>3, <1>6, <1>7, <1>8 DEF CalmInv

LEMMA ClientCalm ==
    ASSUME ConnInv, CalmInv, NEW w \in Workers, ClientJob(w) PROVE CalmInv'
<1> USE DEF ConnInv
<1> SUFFICES ASSUME Calm' PROVE CalmInv'
    BY DEF CalmInv
<1>1. /\ UNCHANGED <<mainpc, loop_terminal, gone>>
      /\ wpc[w] \in ClientPc /\ job[w] \in Clients
    BY ClientStep DEF mainVars, peerVars
<1>2. faults' = faults \/ Fault
    BY DEF ClientJob, UseFreed, Read, ReadEnd, ReadEmpty, Feed, Parse, FeedNoMemory, Pop, Take,
           Unlink, Release, ContextFreed, DoubleFree, RaceKills, Answer, AnswerError,
           AnswerShort, AnswerKilled, AnswerNull, Del, Close, Free, histVars
<1>3. Calm
    BY <1>1, <1>2 DEF Calm, Fault, TypeInv, HistTypeOK
<1>4. wpc[w] \notin {"del", "close", "free"}
    BY <1>3 DEF CalmInv
<1>5. ~Del(w) /\ ~Close(w) /\ ~Free(w)
    BY <1>4 DEF Del, Close, Free, Uses, At
<1>6. ~ReadEnd(w)
    <2>1. Peer(w) = job[w]
        BY <1>1 DEF SocketsOK, OwnSocket, Served, AtWork, Peer
    <2> QED BY <1>1, <1>3, <2>1 DEF ReadEnd, Calm
<1>7. fdtab' = fdtab
    BY <1>5 DEF ClientJob, UseFreed, Read, ReadEnd, ReadEmpty, Feed, Parse, FeedNoMemory, Pop, Take,
           Unlink, Release, ContextFreed, DoubleFree, RaceKills, Answer, AnswerError,
           AnswerShort, AnswerKilled, AnswerNull, sockVars
<1>8. wpc' = wpc \/ \E l \in (ClientPc \union {"idle"}) \ {"del", "close", "free"} :
                        wpc' = [wpc EXCEPT ![w] = l]
    BY <1>5, <1>6 DEF ClientJob, UseFreed, Read, ReadEnd, ReadEmpty, Feed, Parse, FeedNoMemory, Pop, Take,
           Unlink, Release, ContextFreed, DoubleFree, RaceKills, Answer, AnswerError,
           AnswerShort, AnswerKilled, AnswerNull, Undefined, Finish,
           Continue, Goto, ReadAgain, OnEagain, workerVars, ClientPc
<1>9. \A v \in Workers : wpc'[v] = wpc[v] \/ wpc'[v] \notin {"del", "close", "free"}
    BY <1>8 DEF TypeInv, WorkOK, WorkerTypeOK
<1>10. InLoop' <=> InLoop
    BY <1>1 DEF InLoop
<1> QED BY <1>1, <1>3, <1>7, <1>9, <1>10 DEF CalmInv

\* The event loop ends for a reason: SIGINT, a failing allocation, or a peer that
\* has closed its connection.
THEOREM EndAlwaysHasReason == Spec => []EndHasReason
<1>1. Init => CalmInv
    BY FdsAssumption DEF Init, SockInit, CalmInv, InLoop
<1>2. ConnInv /\ CalmInv /\ [Next]_vars => CalmInv'
    <2> SUFFICES ASSUME ConnInv, CalmInv, [Next]_vars PROVE CalmInv'
        OBVIOUS
    <2>1. CASE UNCHANGED vars
        BY <2>1 DEF vars, sockVars, peerVars, mainVars, workerVars, histVars, CalmInv, Calm, InLoop
    <2>2. ASSUME NEW c \in Clients, Arrive(c) PROVE CalmInv'
        <3>1. UNCHANGED <<fdtab, mainpc, loop_terminal, wpc, faults>> /\ gone \subseteq gone'
            BY <2>2 DEF Arrive, PeerStep, Connect, Send, Hang, mainVars, workerVars, histVars
        <3> QED BY <3>1 DEF CalmInv, Calm, InLoop
    <2> QED BY <2>1, <2>2, MainCalm, ServerCalm, ClientCalm DEF Next, Worker
<1>3. ConnInv /\ CalmInv => EndHasReason
    BY DEF ConnInv, TypeInv, HistTypeOK, MainTypeOK, CalmInv, Calm, InLoop, EndHasReason
<1> QED BY <1>1, <1>2, <1>3, ConnAlways, PTL DEF Spec

-----------------------------------------------------------------------------
(* Two jobs of one client.  Nothing keeps the pool from running them at    *)
(* once, so what follows is about the others: of a client that is not in   *)
(* Spoilt one job runs at a time.                                          *)

JobOnce ==
    \A v, w \in Workers :
        v # w /\ job[v] = job[w] /\ job[w] \in Clients => job[w] \in overlaps

\* No client gets his promise back.
LEMMA SpoiltGrows ==
    ASSUME [Next]_vars
    PROVE  /\ overlaps' = overlaps \/ \E w \in Workers : TakeJob(w)
           /\ overlaps \subseteq overlaps' /\ (uaf => uaf')
<1>1. CASE UNCHANGED vars
    BY <1>1 DEF vars, histVars
<1>2. ASSUME Main \/ Signal \/ \E c \in Clients : Arrive(c)
      PROVE  overlaps' = overlaps /\ (uaf => uaf')
    <2>1. overlaps' = overlaps
        BY <1>2 DEF Main, Signal, Start, Check, Wait, Wake, Dispatch, DispatchFreed, DispatchNoMemory,
                    DispatchRefused, CloseEpoll, CloseServer, Join, Arrive, histVars
    <2>2. uaf' = uaf \/ uaf' = TRUE
        BY <1>2 DEF Main, Signal, Start, Check, Wait, Wake, Dispatch, DispatchFreed, DispatchNoMemory,
                    DispatchRefused, CloseEpoll, CloseServer, Join, Arrive, histVars
    <2> QED BY <2>1, <2>2
<1>3. ASSUME NEW w \in Workers, TakeJob(w) PROVE overlaps \subseteq overlaps' /\ uaf' = uaf
    BY <1>3 DEF TakeJob
<1>4. ASSUME NEW w \in Workers, ServerJob(w) PROVE overlaps' = overlaps /\ uaf' = uaf
    BY <1>4 DEF ServerJob, Accept, AcceptNoMemory, AcceptFull, AcceptNothing, Register, histVars
<1>5. ASSUME NEW w \in Workers, ClientJob(w) PROVE overlaps' = overlaps /\ (uaf => uaf')
    <2>1. overlaps' = overlaps
        BY <1>5 DEF ClientJob, UseFreed, Read, ReadEnd, ReadEmpty, Feed, Parse, FeedNoMemory, Pop, Take,
                    Unlink, Release, ContextFreed, DoubleFree, RaceKills, Answer, AnswerError,
                    AnswerShort, AnswerKilled, AnswerNull, Del, Close, Free, histVars
    <2>2. uaf' = uaf \/ uaf' = TRUE
        BY <1>5 DEF ClientJob, UseFreed, Read, ReadEnd, ReadEmpty, Feed, Parse, FeedNoMemory, Pop, Take,
                    Unlink, Release, ContextFreed, DoubleFree, RaceKills, Answer, AnswerError,
                    AnswerShort, AnswerKilled, AnswerNull, Del, Close, Free, Undefined, histVars
    <2> QED BY <2>1, <2>2
<1> QED BY <1>1, <1>2, <1>3, <1>4, <1>5 DEF Next, Worker

LEMMA SpoiltStays == ASSUME TypeInv, TypeInv', [Next]_vars PROVE Spoilt \subseteq Spoilt'
BY SpoiltGrows DEF Spoilt, TypeInv, HistTypeOK

LEMMA JobOnceStep == ASSUME ConnInv, JobOnce, [Next]_vars PROVE JobOnce'
<1> USE DEF ConnInv
<1>0. overlaps \subseteq overlaps'
    BY SpoiltGrows
<1>1. ASSUME \A v \in Workers : job'[v] = job[v] \/ job'[v] \notin Clients PROVE JobOnce'
    BY <1>0, <1>1 DEF JobOnce
<1>2. CASE UNCHANGED vars
    BY <1>1, <1>2 DEF vars, workerVars
<1>3. CASE Main \/ Signal \/ \E c \in Clients : Arrive(c)
    <2>1. job' = job
        BY <1>3 DEF Main, Signal, Start, Check, Wait, Wake, Dispatch, DispatchFreed, DispatchNoMemory,
                    DispatchRefused, CloseEpoll, CloseServer, Join, Arrive, workerVars
    <2> QED BY <1>1, <2>1
<1>4. ASSUME NEW w \in Workers, ClientJob(w) PROVE JobOnce'
    <2>1. Proceeds(w)
        BY <1>4, ClientStep
    <2>2. job' = job \/ job' = [job EXCEPT ![w] = NoJob]
        BY <2>1 DEF Proceeds, Finish
    <2> QED BY <1>1, <2>2, SourcesDistinct DEF TypeInv, WorkOK, WorkerTypeOK
<1>5. ASSUME NEW w \in Workers, ServerJob(w) PROVE JobOnce'
    <2>1. CASE Accept(w)
        <3>1. PICK c : c = Head(backlog)
            OBVIOUS
        <3>2. job' = [job EXCEPT ![w] = c]
            BY <2>1, <3>1 DEF Accept
        <3>3. c \in Clients /\ usrdata[c] = "none"
            <4>1. backlog \in Seq(Clients) /\ backlog # <<>>
                BY <2>1 DEF Accept, Accepting, TypeInv, SockOK, SockTypeOK
            <4> QED BY <3>1, <4>1, TailOf DEF SocketsOK, BacklogOK
        <3>4. ASSUME NEW v \in Workers PROVE job[v] # c
            <4>1. wpc[v] \in ClientPc => job[v] # c
                BY <3>3 DEF SocketsOK, OwnSocket, Served, AtWork
            <4>2. wpc[v] = "register" => job[v] # c
                BY <3>3 DEF SocketsOK, RegisterOK, Registering
            <4>3. wpc[v] \in {"idle", "accept"} => job[v] # c
                BY <3>3, SourcesDistinct DEF TypeInv, WorkOK, JobOK
            <4>4. wpc[v] \in ClientPc \union {"register", "idle", "accept"}
                BY DEF TypeInv, WorkOK, WorkerTypeOK, ClientPc
            <4> QED BY <4>1, <4>2, <4>3, <4>4
        <3> QED BY <1>0, <3>2, <3>4 DEF JobOnce, TypeInv, WorkOK, WorkerTypeOK
    <2>2. CASE ~Accept(w)
        <3>1. job' = [job EXCEPT ![w] = NoJob]
            BY <1>5, <2>2
               DEF ServerJob, AcceptNoMemory, AcceptFull, AcceptNothing, Register, Finish
        <3> QED BY <1>1, <3>1, SourcesDistinct DEF TypeInv, WorkOK, WorkerTypeOK
    <2> QED BY <2>1, <2>2
<1>6. ASSUME NEW w \in Workers, TakeJob(w) PROVE JobOnce'
    <2>1. PICK h : h = Head(queue)
        OBVIOUS
    <2>2. /\ job' = [job EXCEPT ![w] = h]
          /\ overlaps' = overlaps \union ({h} \intersect Clients \intersect {job[v] : v \in Workers})
        BY <1>6, <2>1 DEF TakeJob
    <2>3. job'[w] = h /\ \A v \in Workers \ {w} : job'[v] = job[v]
        BY <2>2 DEF TypeInv, WorkOK, WorkerTypeOK
    <2>4. ASSUME NEW v \in Workers \ {w}, job[v] = h, h \in Clients PROVE h \in overlaps'
        BY <2>2, <2>4
    <2> QED BY <1>0, <2>3, <2>4 DEF JobOnce
<1> QED BY <1>2, <1>3, <1>4, <1>5, <1>6 DEF Next, Worker

LEMMA JobOnceAlways == Spec => []JobOnce
<1>1. Init => JobOnce
    BY SourcesDistinct DEF Init, JobOnce
<1> QED BY <1>1, JobOnceStep, ConnAlways, PTL DEF Spec

-----------------------------------------------------------------------------
(* The refinement of ClientService: a response is to a request that was    *)
(* sent whole, and there is one at most.                                   *)

\* The segments of s have been sent.
AllSent(s) == \A i \in DOMAIN s : s[i][2] <= sent[s[i][1]]

\* What is read, and what is parsed, has been sent.
TextInv ==
    /\ \A w \in Workers : AllSent(text[w])
    /\ \A c \in Clients : AllSent(fed[c])

\* The context holds a whole request, or is not answered before it is popped.
ContextOK(c) ==
    /\ ctx[c] = "ended" => sent[c] >= Parts
    /\ ctx[c] \in {"none", "parsing", "ended"} => answered[c] = 0

ContextInv ==
    \A c \in Clients :
        /\ usrdata[c] = "none" => ctx[c] = "none"
        /\ c \notin Spoilt => ContextOK(c)

\* The worker that takes a request out of its context, and answers it.
AnswerOK(w) ==
    /\ wpc[w] \in {"take", "unlink"} => ctx[job[w]] = "ended"
    /\ wpc[w] = "release" => ctx[job[w]] = "popped"
    /\ wpc[w] = "answer" => ctx[job[w]] = "freed"
    /\ wpc[w] \in {"release", "answer"} => answered[job[w]] = 0 /\ sent[job[w]] >= Parts

AnswerInv == \A w \in Workers : job[w] \in Clients \ Spoilt => AnswerOK(w)

ServiceInv == TextInv /\ ContextInv /\ AnswerInv

LEMMA AllSentConcat ==
    ASSUME NEW S, NEW s \in Seq(S), NEW t \in Seq(S), AllSent(s), AllSent(t)
    PROVE  AllSent(s \o t)
<1>1. /\ Len(s) \in Nat /\ Len(t) \in Nat /\ Len(s \o t) = Len(s) + Len(t)
      /\ DOMAIN s = 1 .. Len(s) /\ DOMAIN t = 1 .. Len(t)
      /\ DOMAIN (s \o t) = 1 .. (Len(s) + Len(t))
    BY ConcatProperties, LenProperties
<1> SUFFICES ASSUME NEW i \in 1 .. (Len(s) + Len(t)) PROVE (s \o t)[i][2] <= sent[(s \o t)[i][1]]
    BY <1>1 DEF AllSent
<1>2. CASE i <= Len(s)
    <2>1. (s \o t)[i] = s[i] /\ i \in DOMAIN s
        BY <1>1, <1>2, ConcatProperties
    <2> QED BY <2>1 DEF AllSent
<1>3. CASE i > Len(s)
    <2>1. (s \o t)[i] = t[i - Len(s)] /\ i - Len(s) \in DOMAIN t
        BY <1>1, <1>3, ConcatProperties
    <2> QED BY <2>1 DEF AllSent
<1> QED BY <1>1, <1>2, <1>3

\* More is sent, never less.
LEMMA AllSentKept ==
    ASSUME SockTypeOK, SockTypeOK', \A c \in Clients : sent[c] <= sent'[c],
           NEW s \in Seq(Clients \X (1 .. MaxSegments)), AllSent(s)
    PROVE  AllSent(s)'
<1> SUFFICES ASSUME NEW i \in DOMAIN s PROVE s[i][2] <= sent'[s[i][1]]
    BY DEF AllSent
<1>1. s[i] \in Clients \X (1 .. MaxSegments)
    BY LenProperties, ElementOfSeq
<1>2. s[i][2] \in Nat /\ s[i][1] \in Clients /\ s[i][2] <= sent[s[i][1]]
    BY <1>1, PeersAssumption DEF AllSent
<1>3. sent[s[i][1]] \in Nat /\ sent'[s[i][1]] \in Nat /\ sent[s[i][1]] <= sent'[s[i][1]]
    BY <1>2, PeersAssumption DEF SockTypeOK
<1> QED BY <1>2, <1>3

LEMMA InitService == Init => ServiceInv
BY SourcesDistinct
   DEF Init, SockInit, ServiceInv, TextInv, ContextInv, ContextOK, AnswerInv, AllSent

\* The texts and the contexts that a step leaves alone, or fills with what was sent.
LEMMA TextKept ==
    ASSUME TypeInv, TypeInv', TextInv,
           \A c \in Clients : sent[c] <= sent'[c],
           \A c \in Clients : fed'[c] = fed[c] \/ AllSent(fed[c])',
           \A w \in Workers : text'[w] = text[w] \/ AllSent(text[w])' \/ text'[w] = <<>>
    PROVE  TextInv'
<1>1. ASSUME NEW s \in Seq(Clients \X (1 .. MaxSegments)), AllSent(s) PROVE AllSent(s)'
    BY <1>1, AllSentKept DEF TypeInv, SockOK
<1>2. /\ \A w \in Workers : text[w] \in Seq(Clients \X (1 .. MaxSegments))
      /\ \A c \in Clients : fed[c] \in Seq(Clients \X (1 .. MaxSegments))
    BY DEF TypeInv, WorkOK, WorkerTypeOK, ClientTypeOK
<1>3. ASSUME NEW c \in Clients, fed'[c] = fed[c] PROVE AllSent(fed[c])'
    <2>1. PICK s \in Seq(Clients \X (1 .. MaxSegments)) : s = fed[c]
        BY <1>2
    <2>2. AllSent(s)'
        BY <1>1, <2>1 DEF TextInv
    <2> QED BY <1>3, <2>1, <2>2 DEF AllSent
<1>4. ASSUME NEW w \in Workers, text'[w] = text[w] PROVE AllSent(text[w])'
    <2>1. PICK s \in Seq(Clients \X (1 .. MaxSegments)) : s = text[w]
        BY <1>2
    <2>2. AllSent(s)'
        BY <1>1, <2>1 DEF TextInv
    <2> QED BY <1>4, <2>1, <2>2 DEF AllSent
<1>5. ASSUME NEW w \in Workers, text'[w] = <<>> PROVE AllSent(text[w])'
    BY <1>5 DEF AllSent
<1> QED BY <1>3, <1>4, <1>5 DEF TextInv

\* Steps that change neither contexts nor responses.
LEMMA ServiceKept ==
    ASSUME TypeInv, TypeInv', ServiceInv, UNCHANGED <<ctx, answered>>, Spoilt \subseteq Spoilt',
           \A c \in Clients : sent[c] <= sent'[c],
           \A c \in Clients : usrdata'[c] = "none" <=> usrdata[c] = "none",
           \A c \in Clients : fed'[c] = fed[c] \/ AllSent(fed[c])',
           \A w \in Workers : text'[w] = text[w] \/ AllSent(text[w])' \/ text'[w] = <<>>,
           \A w \in Workers : wpc'[w] \in Popping \union {"answer"} =>
                                  wpc'[w] = wpc[w] /\ job'[w] = job[w]
    PROVE  ServiceInv'
<1> USE DEF ServiceInv
<1>1. \A c \in Clients : sent[c] \in Nat /\ sent'[c] \in Nat
    BY PeersAssumption DEF TypeInv, SockOK, SockTypeOK
<1>2. TextInv'
    BY TextKept
<1>3. ContextInv'
    BY <1>1, ReactorAssumption DEF ContextInv, ContextOK
<1>4. AnswerInv'
    BY <1>1, ReactorAssumption DEF AnswerInv, AnswerOK, Popping
<1> QED BY <1>2, <1>3, <1>4

\* Steps of one worker on the context of one client.
LEMMA ServiceLocal ==
    ASSUME TypeInv, ServiceInv, TextInv', sent' = sent, Spoilt \subseteq Spoilt',
           NEW w \in Workers, NEW c \in Clients, job'[w] \notin Clients \ {c},
           \A v \in Workers \ {w} :
              wpc'[v] = wpc[v] /\ job'[v] = job[v] /\ (job[v] = c => c \in Spoilt'),
           \A d \in Clients \ {c} :
              ctx'[d] = ctx[d] /\ answered'[d] = answered[d] /\ usrdata'[d] = usrdata[d],
           usrdata'[c] = "none" => ctx'[c] = "none",
           c \notin Spoilt' => ContextOK(c)',
           job'[w] = c /\ c \notin Spoilt' => AnswerOK(w)'
    PROVE  ServiceInv'
<1> USE DEF ServiceInv
<1>1. ContextInv'
    BY DEF ContextInv, ContextOK
<1>2. ASSUME NEW v \in Workers, job'[v] \in Clients \ Spoilt' PROVE AnswerOK(v)'
    <2>1. CASE v = w
        BY <1>2, <2>1
    <2>2. CASE v # w
        <3>1. job[v] \in Clients \ {c} /\ job[v] \notin Spoilt /\ wpc'[v] = wpc[v] /\ job'[v] = job[v]
            BY <1>2, <2>2
        <3> QED BY <3>1 DEF AnswerInv, AnswerOK
    <2> QED BY <2>1, <2>2
<1> QED BY <1>1, <1>2 DEF AnswerInv

LEMMA MainService ==
    ASSUME ConnInv, ServiceInv, Main \/ Signal
    PROVE  ServiceInv' /\ sent' = sent /\ answered' = answered
<1> USE DEF ConnInv
<1>1. TypeInv'
    BY MainType, SignalType
<1>2. UNCHANGED <<ctx, fed, answered, usrdata, sent, text, wpc, job>>
    BY DEF Main, Signal, Start, Check, Wait, Wake, Dispatch, DispatchFreed, DispatchNoMemory,
           DispatchRefused, CloseEpoll, CloseServer, Join, sockVars, peerVars, workerVars, clientVars
<1>3. \A c \in Clients : sent[c] <= sent'[c]
    BY <1>2, PeersAssumption DEF TypeInv, SockOK, SockTypeOK
<1>4. Spoilt \subseteq Spoilt'
    BY <1>1, SpoiltStays DEF Next
<1> QED BY <1>1, <1>2, <1>3, <1>4, ServiceKept

LEMMA QuietService ==
    ASSUME ConnInv, ServiceInv, NEW w \in Workers,
           \/ TakeJob(w) \/ Register(w) \/ AcceptNoMemory(w) \/ AcceptFull(w) \/ AcceptNothing(w)
    PROVE  ServiceInv' /\ sent' = sent /\ answered' = answered
<1> USE DEF ConnInv
<1>1. TypeInv'
    BY TakeJobType, ServerJobType DEF ServerJob
<1>2. UNCHANGED <<ctx, fed, answered, usrdata, sent>>
    BY DEF TakeJob, Register, AcceptNoMemory, AcceptFull, AcceptNothing, sockVars, peerVars,
           clientVars
<1>3. \A v \in Workers : text'[v] = text[v] \/ text'[v] = <<>>
    BY DEF TakeJob, Register, AcceptNoMemory, AcceptFull, AcceptNothing, Finish, TypeInv, WorkOK,
           WorkerTypeOK
<1>4. \A v \in Workers : wpc'[v] \in Popping \union {"answer"} => wpc'[v] = wpc[v] /\ job'[v] = job[v]
    BY DEF TakeJob, Register, AcceptNoMemory, AcceptFull, AcceptNothing, Finish, Goto, TypeInv,
           WorkOK, WorkerTypeOK, Popping
<1>5. \A c \in Clients : sent[c] <= sent'[c]
    BY <1>2, PeersAssumption DEF TypeInv, SockOK, SockTypeOK
<1>6. Spoilt \subseteq Spoilt'
    BY <1>1, SpoiltStays DEF Next, Worker, ServerJob
<1> QED BY <1>1, <1>2, <1>3, <1>4, <1>5, <1>6, ServiceKept

LEMMA ArriveService ==
    ASSUME ConnInv, ServiceInv, NEW d \in Clients, Arrive(d)
    PROVE  /\ ServiceInv' /\ answered' = answered /\ Spoilt' = Spoilt
           /\ sent' = sent \/ sent' = [sent EXCEPT ![d] = @ + 1]
<1> USE DEF ConnInv
<1>1. TypeInv'
    BY ArriveType
<1>2. UNCHANGED <<ctx, fed, answered, usrdata, text, wpc, job>>
    BY DEF Arrive, workerVars, clientVars
<1>3. sent' = sent \/ sent' = [sent EXCEPT ![d] = @ + 1]
    BY DEF Arrive, PeerStep, Connect, Send, Hang
<1>4. ASSUME NEW c \in Clients PROVE sent[c] <= sent'[c]
    <2>1. sent[c] \in Nat /\ DOMAIN sent = Clients
        BY PeersAssumption DEF TypeInv, SockOK, SockTypeOK
    <2>2. sent'[c] = sent[c] \/ sent'[c] = sent[c] + 1
        BY <1>3, <2>1
    <2> QED BY <2>1, <2>2
<1>5. Spoilt' = Spoilt
    BY DEF Arrive, histVars, Spoilt
<1> QED BY <1>1, <1>2, <1>3, <1>4, <1>5, ServiceKept

LEMMA AcceptService ==
    ASSUME ConnInv, ServiceInv, JobOnce, NEW w \in Workers, Accept(w)
    PROVE  ServiceInv' /\ sent' = sent /\ answered' = answered
<1> USE DEF ConnInv
<1>0. PICK c : c = Head(backlog)
    OBVIOUS
<1>1. /\ UNCHANGED <<sent, answered, fed, text, overlaps, uaf>>
      /\ ctx' = [ctx EXCEPT ![c] = "parsing"] /\ usrdata' = [usrdata EXCEPT ![c] = "live"]
      /\ wpc' = [wpc EXCEPT ![w] = "register"] /\ job' = [job EXCEPT ![w] = c]
    BY <1>0 DEF Accept, Goto, peerVars, histVars
<1>2. c \in Clients /\ usrdata[c] = "none"
    <2>1. backlog \in Seq(Clients) /\ backlog # <<>>
        BY DEF Accept, Accepting, TypeInv, SockOK, SockTypeOK
    <2> QED BY <1>0, <2>1, TailOf DEF SocketsOK, BacklogOK
<1>3. TextInv'
    BY <1>1 DEF ServiceInv, TextInv, AllSent
<1>4. ctx[c] = "none" /\ (c \notin Spoilt => answered[c] = 0)
    BY <1>2 DEF ServiceInv, ContextInv, ContextOK
<1>5. Spoilt' = Spoilt
    BY <1>1 DEF Spoilt
<1>6. JobOnce' /\ overlaps' = overlaps /\ (c \in overlaps => c \in Spoilt)
    BY <1>1, <1>2, JobOnceStep DEF Next, Worker, ServerJob, Spoilt
<1>7. /\ job'[w] = c /\ wpc'[w] = "register"
      /\ \A v \in Workers \ {w} : wpc'[v] = wpc[v] /\ job'[v] = job[v]
    BY <1>1 DEF TypeInv, WorkOK, WorkerTypeOK
<1>8. \A v \in Workers \ {w} : job[v] = c => c \in Spoilt'
    BY <1>2, <1>5, <1>6, <1>7 DEF JobOnce
<1>9. /\ ctx'[c] = "parsing" /\ usrdata'[c] = "live"
      /\ \A d \in Clients \ {c} : ctx'[d] = ctx[d] /\ usrdata'[d] = usrdata[d]
    BY <1>1, <1>2 DEF TypeInv, ClientTypeOK
<1>10. c \notin Spoilt' => ContextOK(c)'
    BY <1>1, <1>4, <1>5, <1>9 DEF ContextOK
<1>11. AnswerOK(w)'
    BY <1>7 DEF AnswerOK
<1> QED BY <1>1, <1>2, <1>3, <1>5, <1>7, <1>8, <1>9, <1>10, <1>11, ServiceLocal

\* The segments that one read returns have been sent.
LEMMA SegmentsSent ==
    ASSUME SockTypeOK, NEW c \in Clients, NEW k \in received[c] + 1 .. sent[c]
    PROVE  AllSent(Segments(c, received[c], k))
<1>1. received[c] \in Nat /\ sent[c] \in Nat /\ k \in Nat
    BY PeersAssumption DEF SockTypeOK
<1>2. ASSUME NEW i \in 1 .. (k - received[c])
      PROVE  Segments(c, received[c], k)[i] = <<c, received[c] + i>> /\ received[c] + i <= sent[c]
    BY <1>1 DEF Segments
<1>3. DOMAIN Segments(c, received[c], k) = 1 .. (k - received[c])
    BY DEF Segments
<1> QED BY <1>2, <1>3 DEF AllSent

LEMMA ReadService ==
    ASSUME ConnInv, ServiceInv, NEW w \in Workers, Read(w)
    PROVE  ServiceInv' /\ sent' = sent /\ answered' = answered
<1> USE DEF ConnInv
<1> DEFINE d == Peer(w)
<1>0. d \in Clients
    BY DEF Read
<1>1. TypeInv'
    BY ClientJobType DEF ClientJob
<1>2. /\ UNCHANGED <<ctx, fed, answered, usrdata, sent, job, overlaps, uaf>>
      /\ wpc' = [wpc EXCEPT ![w] = "read"]
    BY DEF Read, ReadAgain, Goto, peerVars, clientVars, histVars
<1>3. PICK k \in received[d] + 1 .. sent[d] :
          text' = [text EXCEPT ![w] = @ \o Segments(d, received[d], k)]
    BY DEF Read
<1> HIDE DEF d
<1>4. AllSent(text[w] \o Segments(d, received[d], k))
    <2>1. text[w] \in Seq(Clients \X (1 .. MaxSegments)) /\ AllSent(text[w])
        BY DEF TypeInv, WorkOK, WorkerTypeOK, ServiceInv, TextInv
    <2>2. received[d] \in Nat /\ k \in received[d] .. MaxSegments
        BY <1>3, <1>0, PeersAssumption DEF TypeInv, SockOK, SockTypeOK
    <2>3. Segments(d, received[d], k) \in Seq(Clients \X (1 .. MaxSegments))
        BY <1>0, <2>2, SegmentsOf
    <2> QED BY <2>1, <2>3, <1>3, <1>0, SegmentsSent, AllSentConcat DEF TypeInv, SockOK
<1>5. AllSent(text[w])'
    <2>1. text'[w] = text[w] \o Segments(d, received[d], k)
        BY <1>3 DEF TypeInv, WorkOK, WorkerTypeOK
    <2> QED BY <1>2, <1>4, <2>1 DEF AllSent
<1>6. \A v \in Workers : text'[v] = text[v] \/ AllSent(text[v])' \/ text'[v] = <<>>
    BY <1>3, <1>5 DEF TypeInv, WorkOK, WorkerTypeOK
<1>7. \A v \in Workers : wpc'[v] \in Popping \union {"answer"} => wpc'[v] = wpc[v] /\ job'[v] = job[v]
    BY <1>2 DEF TypeInv, WorkOK, WorkerTypeOK, Popping
<1>8. \A c \in Clients : sent[c] <= sent'[c]
    BY <1>2, PeersAssumption DEF TypeInv, SockOK, SockTypeOK
<1>9. Spoilt' = Spoilt
    BY <1>2 DEF Spoilt
<1> QED BY <1>1, <1>2, <1>6, <1>7, <1>8, <1>9, ServiceKept

\* A context that has ended holds a whole request, so that request was sent.
LEMMA WholeIsSent ==
    ASSUME SockTypeOK, NEW c \in Clients, NEW s \in Seq(Clients \X (1 .. MaxSegments)),
           Whole(c, s), AllSent(s)
    PROVE  sent[c] >= Parts
<1>1. Parts \in Nat /\ Parts >= 1 /\ Parts <= Len(s) /\ Len(s) \in Nat /\ DOMAIN s = 1 .. Len(s)
    BY ReactorAssumption, LenProperties DEF Whole
<1>2. SubSeq(s, 1, Parts)[Parts] = s[Parts]
    <2>1. 1 \in 1 .. Len(s) + 1 /\ Parts \in 1 - 1 .. Len(s) /\ Parts \in 1 .. Parts - 1 + 1
        BY <1>1
    <2>2. SubSeq(s, 1, Parts)[Parts] = s[1 + Parts - 1]
        BY <2>1, PartOf
    <2> QED BY <1>1, <2>2
<1>3. Segments(c, 0, Parts)[Parts] = <<c, Parts>>
    BY <1>1 DEF Segments
<1>4. s[Parts] = <<c, Parts>> /\ Parts \in DOMAIN s
    BY <1>1, <1>2, <1>3 DEF Whole
<1> QED BY <1>1, <1>4, PeersAssumption DEF AllSent, SockTypeOK

LEMMA FeedService ==
    ASSUME ConnInv, ServiceInv, NEW w \in Workers, Feed(w)
    PROVE  ServiceInv' /\ sent' = sent /\ answered' = answered
<1> USE DEF ConnInv
<1>0. PICK c : c = job[w]
    OBVIOUS
<1>1. /\ UNCHANGED <<answered, usrdata, sent, job, text, ctx, overlaps, uaf>> /\ c \in Clients
      /\ wpc' = [wpc EXCEPT ![w] = "parse"]
      /\ fed' = fed \/ fed' = [fed EXCEPT ![c] = @ \o text[w]]
    BY <1>0, JobIsClient
       DEF Feed, Uses, At, Continue, Goto, sockVars, peerVars, histVars, ClientPc, TypeInv
<1>2. /\ text[w] \in Seq(Clients \X (1 .. MaxSegments)) /\ AllSent(text[w])
      /\ fed[c] \in Seq(Clients \X (1 .. MaxSegments)) /\ AllSent(fed[c])
    BY <1>1 DEF TypeInv, WorkOK, WorkerTypeOK, ClientTypeOK, ServiceInv, TextInv
<1>3. PICK s : s = fed[c] \o text[w] /\ AllSent(s)
    BY <1>2, AllSentConcat
<1>4. (fed'[c] = fed[c] \/ fed'[c] = s) /\ \A d \in Clients \ {c} : fed'[d] = fed[d]
    BY <1>1, <1>3 DEF TypeInv, ClientTypeOK
<1>5. AllSent(s)'
    BY <1>1, <1>3 DEF AllSent
<1>6. \A d \in Clients : fed'[d] = fed[d] \/ AllSent(fed[d])'
    BY <1>4, <1>5 DEF AllSent
<1>7. TypeInv'
    BY ClientJobType DEF ClientJob
<1>8. \A v \in Workers : wpc'[v] \in Popping \union {"answer"} => wpc'[v] = wpc[v] /\ job'[v] = job[v]
    BY <1>1 DEF TypeInv, WorkOK, WorkerTypeOK, Popping
<1>9. \A d \in Clients : sent[d] <= sent'[d]
    BY <1>1, PeersAssumption DEF TypeInv, SockOK, SockTypeOK
<1>10. Spoilt' = Spoilt
    BY <1>1 DEF Spoilt
<1> QED BY <1>1, <1>6, <1>7, <1>8, <1>9, <1>10, ServiceKept

\* A step of a client's job that leaves the texts alone and keeps to its own
\* client: what it must do to keep the promise to him.
LEMMA JobService ==
    ASSUME ConnInv, ServiceInv, JobOnce, NEW w \in Workers, ClientJob(w),
           NEW c \in Clients, c = job[w], sent' = sent, fed' = fed,
           \A v \in Workers : text'[v] = text[v] \/ text'[v] = <<>>,
           \A d \in Clients \ {c} :
              ctx'[d] = ctx[d] /\ answered'[d] = answered[d] /\ usrdata'[d] = usrdata[d],
           usrdata'[c] = "none" => ctx'[c] = "none",
           c \notin Spoilt' => ContextOK(c)',
           job'[w] = c /\ c \notin Spoilt' => AnswerOK(w)'
    PROVE  ServiceInv'
<1> USE DEF ConnInv
<1>0. c = job[w]
    OBVIOUS
<1>1. Proceeds(w)
    BY <1>0, ClientStep
<1>2. TypeInv' /\ Spoilt \subseteq Spoilt' /\ overlaps \subseteq overlaps'
    BY ClientJobType, SpoiltStays, SpoiltGrows DEF Next, Worker
<1>3. TextInv'
    <2>1. \A d \in Clients : sent[d] <= sent'[d]
        BY PeersAssumption DEF TypeInv, SockOK, SockTypeOK
    <2> QED BY <1>2, <2>1, TextKept DEF ServiceInv
<1>4. \A v \in Workers \ {w} : wpc'[v] = wpc[v] /\ job'[v] = job[v]
    BY <1>1 DEF Proceeds, Finish, Goto, TypeInv, WorkOK, WorkerTypeOK
<1>5. job'[w] = c \/ job'[w] = NoJob
    BY <1>0, <1>1 DEF Proceeds, Finish, TypeInv, WorkOK, WorkerTypeOK
<1>6. job'[w] \notin Clients \ {c}
    BY <1>5, SourcesDistinct
<1>7. c \in overlaps => c \in Spoilt'
    BY <1>1, <1>2 DEF Spoilt
<1>8. \A v \in Workers \ {w} : job[v] = c => c \in Spoilt'
    BY <1>0, <1>1, <1>7 DEF JobOnce
<1> QED BY <1>0, <1>1, <1>2, <1>3, <1>4, <1>5, <1>6, <1>8, ServiceLocal

LEMMA ParseService ==
    ASSUME ConnInv, ServiceInv, JobOnce, NEW w \in Workers, Parse(w)
    PROVE  ServiceInv' /\ sent' = sent /\ answered' = answered
<1> USE DEF ConnInv
<1>0. PICK c : c = job[w]
    OBVIOUS
<1>1. /\ UNCHANGED <<answered, usrdata, sent, job, text, fed, overlaps, uaf>> /\ c \in Clients
      /\ usrdata[c] = "live" /\ wpc' = [wpc EXCEPT ![w] = "pop"]
    BY <1>0, JobIsClient
       DEF Parse, Uses, At, Continue, Goto, sockVars, peerVars, histVars, ClientPc, TypeInv
<1>2. Spoilt' = Spoilt /\ (c \in overlaps => c \in Spoilt)
    BY <1>1 DEF Spoilt
<1>3. \A d \in Clients \ {c} : ctx'[d] = ctx[d]
    BY <1>0 DEF Parse, TypeInv, ClientTypeOK
<1>4. ASSUME c \notin Spoilt PROVE ContextOK(c)'
    <2>1. ~Meets(w, Feeding)
        BY <1>0, <1>1, <1>2, <1>4 DEF Meets, JobOnce
    <2>2. ctx'[c] = ctx[c] \/ (ctx'[c] = "ended" /\ ctx[c] = "parsing" /\ Whole(c, fed[c]))
        BY <1>0, <1>1, <2>1 DEF Parse, TypeInv, ClientTypeOK
    <2>3. Whole(c, fed[c]) => sent[c] >= Parts
        <3>1. PICK s \in Seq(Clients \X (1 .. MaxSegments)) : s = fed[c]
            BY <1>1 DEF TypeInv, ClientTypeOK
        <3>2. AllSent(s)
            BY <1>1, <3>1 DEF ServiceInv, TextInv
        <3>3. SockTypeOK
            BY DEF TypeInv, SockOK
        <3>4. Whole(c, s) => sent[c] >= Parts
            BY <1>1, <3>2, <3>3, WholeIsSent
        <3> QED BY <3>1, <3>4
    <2> QED BY <1>1, <1>4, <2>2, <2>3 DEF ServiceInv, ContextInv, ContextOK
<1>5. AnswerOK(w)'
    BY <1>1 DEF AnswerOK, TypeInv, WorkOK, WorkerTypeOK
<1> QED BY <1>0, <1>1, <1>2, <1>3, <1>4, <1>5, JobService DEF ClientJob

\* The steps of http_parse_pop_request_and_release.
LEMMA PopService ==
    ASSUME ConnInv, ServiceInv, JobOnce, NEW w \in Workers,
           Pop(w) \/ Take(w) \/ Unlink(w) \/ Release(w) \/ DoubleFree(w)
    PROVE  ServiceInv' /\ sent' = sent /\ answered' = answered
<1> USE DEF ConnInv
<1>0. PICK c : c = job[w]
    OBVIOUS
<1>1. UNCHANGED <<answered, usrdata, sent, fed>> /\ c \in Clients
    BY <1>0, JobIsClient
       DEF Pop, Take, Unlink, Release, DoubleFree, Uses, At, sockVars, peerVars, clientVars,
           ClientPc, TypeInv
<1>2. \A v \in Workers : text'[v] = text[v] \/ text'[v] = <<>>
    BY DEF Pop, Take, Unlink, Release, DoubleFree, Continue, Finish, workerVars, TypeInv, WorkOK,
           WorkerTypeOK
<1>3. \A d \in Clients \ {c} : ctx'[d] = ctx[d]
    BY <1>0 DEF Pop, Take, Unlink, Release, DoubleFree, clientVars, TypeInv, ClientTypeOK
<1>4. /\ ClientJob(w) /\ TypeInv' /\ Spoilt \subseteq Spoilt'
      /\ (usrdata[c] = "none" => ctx[c] = "none")
      /\ (c \notin Spoilt => ContextOK(c)) /\ (c \notin Spoilt => AnswerOK(w))
    <2>1. ClientJob(w)
        BY DEF ClientJob
    <2>2. TypeInv' /\ Spoilt \subseteq Spoilt'
        BY <2>1, ClientJobType, SpoiltStays DEF Next, Worker
    <2> QED BY <1>0, <1>1, <2>1, <2>2 DEF ServiceInv, ContextInv, AnswerInv
<1>5. ASSUME usrdata'[c] = "none" => ctx'[c] = "none",
             c \notin Spoilt' => ContextOK(c)',
             job'[w] = c /\ c \notin Spoilt' => AnswerOK(w)'
      PROVE  ServiceInv'
    BY <1>0, <1>1, <1>2, <1>3, <1>4, <1>5, JobService
<1>6. CASE Pop(w) \/ Take(w)
    <2>1. ctx' = ctx
        BY <1>6 DEF Pop, Take, clientVars
    <2>2. c \notin Spoilt' => ContextOK(c)'
        BY <1>1, <1>4, <2>1 DEF ContextOK
    <2>3. job'[w] = c => \/ wpc'[w] = "take" /\ ctx[c] = "ended"
                         \/ wpc'[w] = "unlink" /\ wpc[w] = "take"
        BY <1>0, <1>1, <1>6, SourcesDistinct
           DEF Pop, Take, Uses, At, Continue, Finish, Goto, TypeInv, WorkOK, WorkerTypeOK
    <2>4. job'[w] = c /\ c \notin Spoilt' => AnswerOK(w)'
        BY <1>0, <1>4, <2>1, <2>3 DEF AnswerOK
    <2> QED BY <1>1, <1>4, <1>5, <2>1, <2>2, <2>4
<1>7. CASE Unlink(w)
    <2>1. /\ wpc[w] = "unlink" /\ usrdata[c] = "live" /\ ctx'[c] = "popped"
          /\ wpc'[w] = "release" /\ job'[w] = c
        BY <1>0, <1>1, <1>7
           DEF Unlink, Uses, At, Continue, Goto, TypeInv, WorkOK, WorkerTypeOK, ClientTypeOK
    <2>2. ContextOK(c)'
        BY <2>1 DEF ContextOK
    <2>3. c \notin Spoilt' => AnswerOK(w)'
        BY <1>0, <1>1, <1>4, <2>1 DEF AnswerOK, ContextOK
    <2> QED BY <1>1, <1>5, <2>1, <2>2, <2>3
<1>8. CASE Release(w)
    <2>1. /\ wpc[w] = "release" /\ ctx[c] = "popped" /\ ctx'[c] = "freed"
          /\ wpc'[w] = "answer" /\ job'[w] = c
        BY <1>0, <1>1, <1>8
           DEF Release, At, Continue, Goto, TypeInv, WorkOK, WorkerTypeOK, ClientTypeOK
    <2>2. ContextOK(c)'
        BY <2>1 DEF ContextOK
    <2>3. c \notin Spoilt' => AnswerOK(w)'
        BY <1>0, <1>1, <1>4, <2>1 DEF AnswerOK
    <2>4. usrdata[c] # "none"
        BY <1>4, <2>1
    <2> QED BY <1>1, <1>5, <2>1, <2>2, <2>3, <2>4
<1>9. CASE DoubleFree(w)
    <2>1. Spoilt' = Clients
        BY <1>9 DEF DoubleFree, Spoilt
    <2>2. ctx' = ctx
        BY <1>9 DEF DoubleFree, clientVars
    <2> QED BY <1>1, <1>4, <1>5, <2>1, <2>2
<1> QED BY <1>1, <1>6, <1>7, <1>8, <1>9

LEMMA AnswerService ==
    ASSUME ConnInv, ServiceInv, JobOnce, NEW w \in Workers, Answer(w)
    PROVE  /\ ServiceInv' /\ sent' = sent /\ Spoilt' = Spoilt /\ job[w] \in Clients
           /\ job[w] \notin Spoilt => sent[job[w]] >= Parts /\ answered[job[w]] = 0
           /\ answered' = [answered EXCEPT ![job[w]] = @ + 1]
<1> USE DEF ConnInv
<1>0. PICK c : c = job[w]
    OBVIOUS
<1>1. c \in Clients /\ wpc[w] = "answer" /\ Peer(w) = c
    BY <1>0, JobIsClient
       DEF Answer, Uses, At, TypeInv, ClientPc, SocketsOK, OwnSocket, Served, AtWork, Peer
<1>2. c \notin Spoilt => ctx[c] = "freed" /\ sent[c] >= Parts /\ answered[c] = 0
    BY <1>0, <1>1 DEF ServiceInv, AnswerInv, AnswerOK
<1>3. /\ UNCHANGED <<usrdata, sent, fed, ctx, text, job, overlaps, uaf>> /\ usrdata[c] = "live"
      /\ answered' = [answered EXCEPT ![c] = @ + 1]
      /\ wpc' = [wpc EXCEPT ![w] = "pop"]
    BY <1>0, <1>1 DEF Answer, Uses, Continue, Goto, sockVars, peerVars, histVars, TypeInv, ClientTypeOK
<1>4. Spoilt' = Spoilt
    BY <1>3 DEF Spoilt
<1>5. c \notin Spoilt => ContextOK(c)'
    BY <1>2, <1>3 DEF ContextOK
<1>6. AnswerOK(w)'
    BY <1>3 DEF AnswerOK, TypeInv, WorkOK, WorkerTypeOK
<1>7. \A d \in Clients \ {c} : answered'[d] = answered[d]
    BY <1>3 DEF TypeInv, ClientTypeOK
<1>8. /\ \A d \in Clients \ {c} :
              ctx'[d] = ctx[d] /\ answered'[d] = answered[d] /\ usrdata'[d] = usrdata[d]
      /\ \A v \in Workers : text'[v] = text[v] \/ text'[v] = <<>>
      /\ ClientJob(w) /\ (usrdata'[c] = "none" => ctx'[c] = "none")
    BY <1>3, <1>7 DEF ClientJob
<1>9. ServiceInv'
    BY <1>0, <1>1, <1>3, <1>4, <1>5, <1>6, <1>8, JobService
<1> QED BY <1>0, <1>1, <1>2, <1>3, <1>4, <1>9

LEMMA FreeService ==
    ASSUME ConnInv, ServiceInv, JobOnce, NEW w \in Workers, Free(w)
    PROVE  ServiceInv' /\ sent' = sent /\ answered' = answered
<1> USE DEF ConnInv
<1>0. PICK c : c = job[w]
    OBVIOUS
<1>1. /\ UNCHANGED <<answered, sent, fed, overlaps, uaf>> /\ c \in Clients /\ Finish(w)
      /\ usrdata' = [usrdata EXCEPT ![c] = "freed"]
      /\ ctx' = [ctx EXCEPT ![c] = IF InChain(c) THEN "freed" ELSE @]
    BY <1>0, JobIsClient DEF Free, Uses, At, sockVars, peerVars, histVars, ClientPc, TypeInv
<1>2. \A v \in Workers : text'[v] = text[v] \/ text'[v] = <<>>
    BY <1>1 DEF Finish, TypeInv, WorkOK, WorkerTypeOK
<1>3. /\ \A d \in Clients \ {c} : ctx'[d] = ctx[d] /\ usrdata'[d] = usrdata[d]
      /\ usrdata'[c] = "freed" /\ (ctx'[c] = ctx[c] \/ ctx'[c] = "freed")
    BY <1>1 DEF TypeInv, ClientTypeOK
<1>4. Spoilt' = Spoilt
    BY <1>1 DEF Spoilt
<1>5. c \notin Spoilt' => ContextOK(c)'
    BY <1>1, <1>3, <1>4 DEF ServiceInv, ContextInv, ContextOK
<1>6. job'[w] # c
    BY <1>1, SourcesDistinct DEF Finish, TypeInv, WorkOK, WorkerTypeOK
<1> QED BY <1>0, <1>1, <1>2, <1>3, <1>5, <1>6, JobService DEF ClientJob

\* The other steps of a client's job.
LEMMA OtherService ==
    ASSUME ConnInv, ServiceInv, NEW w \in Workers, ClientJob(w),
           ~Read(w), ~Feed(w), ~Parse(w), ~Pop(w), ~Take(w), ~Unlink(w), ~Release(w), ~DoubleFree(w),
           ~Answer(w), ~Free(w)
    PROVE  ServiceInv' /\ sent' = sent /\ answered' = answered
<1> USE DEF ConnInv
<1>1. TypeInv' /\ Spoilt \subseteq Spoilt'
    BY ClientJobType, SpoiltStays DEF Next, Worker
<1>2. /\ UNCHANGED <<ctx, fed, answered, usrdata, sent>>
      /\ \/ UNCHANGED <<wpc, job, text>>
         \/ Finish(w)
         \/ UNCHANGED <<job, text>> /\ \E l \in {"feed", "pop", "del", "close", "free"} : Goto(w, l)
    BY DEF ClientJob, UseFreed, ReadEnd, ReadEmpty, OnEagain, FeedNoMemory, ContextFreed, RaceKills,
           AnswerError, AnswerShort, AnswerKilled, AnswerNull, Del, Close, Undefined, Continue,
           sockVars, peerVars, clientVars, workerVars
<1>3. \A v \in Workers : text'[v] = text[v] \/ text'[v] = <<>>
    BY <1>2 DEF Finish, TypeInv, WorkOK, WorkerTypeOK
<1>4. \A v \in Workers : wpc'[v] \in Popping \union {"answer"} => wpc'[v] = wpc[v] /\ job'[v] = job[v]
    BY <1>2 DEF Finish, Goto, TypeInv, WorkOK, WorkerTypeOK, Popping
<1>5. \A c \in Clients : sent[c] <= sent'[c]
    BY <1>2, PeersAssumption DEF TypeInv, SockOK, SockTypeOK
<1> QED BY <1>1, <1>2, <1>3, <1>4, <1>5, ServiceKept

LEMMA ServiceStep ==
    ASSUME ConnInv, ServiceInv, JobOnce, [Next]_vars
    PROVE  /\ ServiceInv'
           /\ [Service!Next]_<<{c \in Clients : sent[c] >= Parts}, answered, Spoilt>>
<1> DEFINE asked == {c \in Clients : sent[c] >= Parts}
<1>1. CASE UNCHANGED vars
    <2>1. ServiceInv'
        BY <1>1 DEF vars, sockVars, peerVars, workerVars, clientVars, histVars, ServiceInv, TextInv,
                    ContextInv, ContextOK, AnswerInv, AnswerOK, AllSent, Spoilt
    <2> QED BY <1>1, <2>1 DEF vars, sockVars, peerVars, clientVars, histVars, Spoilt
<1>2. ASSUME NEW d \in Clients, Arrive(d)
      PROVE  ServiceInv' /\ (Service!Ask(d) \/ UNCHANGED <<asked, answered, Spoilt>>)
    <2>1. /\ ServiceInv' /\ answered' = answered /\ Spoilt' = Spoilt
          /\ sent' = sent \/ sent' = [sent EXCEPT ![d] = @ + 1]
        BY <1>2, ArriveService
    <2>2. CASE sent' = sent
        BY <2>1, <2>2
    <2>3. CASE sent' = [sent EXCEPT ![d] = @ + 1]
        <3>1. sent'[d] = sent[d] + 1 /\ \A c \in Clients \ {d} : sent'[c] = sent[c]
            BY <2>3 DEF ConnInv, TypeInv, SockOK, SockTypeOK
        <3>2. sent[d] \in Nat /\ Parts \in Nat
            BY PeersAssumption, ReactorAssumption DEF ConnInv, TypeInv, SockOK, SockTypeOK
        <3>3. asked' = asked \/ (d \notin asked /\ asked' = asked \union {d})
            BY <3>1, <3>2
        <3> QED BY <2>1, <3>3 DEF Service!Ask
    <2> QED BY <2>1, <2>2, <2>3
<1>3. ASSUME NEW w \in Workers, Answer(w)
      PROVE  ServiceInv' /\ \E c \in Clients : Service!Reply(c)
    <2>1. /\ ServiceInv' /\ sent' = sent /\ Spoilt' = Spoilt /\ job[w] \in Clients
          /\ job[w] \notin Spoilt => sent[job[w]] >= Parts /\ answered[job[w]] = 0
          /\ answered' = [answered EXCEPT ![job[w]] = @ + 1]
        BY <1>3, AnswerService
    <2>2. Service!Reply(job[w])
        BY <2>1 DEF Service!Reply
    <2> QED BY <2>1, <2>2
<1>4. ASSUME NEW w \in Workers, TakeJob(w) \/ ServerJob(w) \/ (ClientJob(w) /\ ~Answer(w))
      PROVE  ServiceInv' /\ sent' = sent /\ answered' = answered
    BY <1>4, QuietService, AcceptService, ReadService, FeedService, ParseService, PopService,
       FreeService, OtherService DEF ServerJob
<1>5. ASSUME Main \/ Signal PROVE ServiceInv' /\ sent' = sent /\ answered' = answered
    BY <1>5, MainService
<1>6. ASSUME sent' = sent, answered' = answered PROVE Service!Void
    <2>1. Spoilt \subseteq Spoilt'
        BY NextConn, SpoiltStays DEF ConnInv
    <2> QED BY <1>6, <2>1 DEF Service!Void
<1> QED BY <1>1, <1>2, <1>3, <1>4, <1>5, <1>6 DEF Next, Worker, Service!Next

LEMMA ServiceInvAlways == Spec => []ServiceInv
<1>1. ConnInv /\ ServiceInv /\ JobOnce /\ [Next]_vars => ServiceInv'
    BY ServiceStep
<1> QED BY <1>1, InitService, ConnAlways, JobOnceAlways, PTL DEF Spec

\* The whole server, with its epoll instance, its pool and its file numbers that
\* are closed too early, is a service that answers a request once at most, and
\* only when the client has sent it whole.  The promise is made to every client
\* until two of his jobs run at once or freed memory is used; what happens to one
\* client's jobs does not void the promise to another.
THEOREM ImplementsService == Spec => ServiceSafe
<1>1. Init => Service!Init
    <2> SUFFICES ASSUME Init PROVE Service!Init
        OBVIOUS
    <2>1. {c \in Clients : sent[c] >= Parts} = {} /\ Spoilt = {}
        BY ReactorAssumption DEF Init, SockInit, Spoilt
    <2> QED BY <2>1 DEF Init, Service!Init
<1>2. ConnInv /\ ServiceInv /\ JobOnce /\ [Next]_vars =>
          [Service!Next]_<<{c \in Clients : sent[c] >= Parts}, answered, Spoilt>>
    BY ServiceStep
<1> QED BY <1>1, <1>2, ConnAlways, ServiceInvAlways, JobOnceAlways, PTL
        DEF Spec, ServiceSafe, Service!Spec

-----------------------------------------------------------------------------
(* Connections that wait.  First, the events of the listening socket in a  *)
(* sequence of events are counted.                                         *)

LEMMA CountType ==
    ASSUME NEW S, NEW s \in Seq(S)
    PROVE  IsFiniteSet({i \in DOMAIN s : s[i] = Listen}) /\ CountIn(s) \in Nat
<1>1. DOMAIN s = 1 .. Len(s) /\ Len(s) \in Nat
    BY LenProperties
<1>2. IsFiniteSet(DOMAIN s)
    BY <1>1, FS_Interval
<1>3. {i \in DOMAIN s : s[i] = Listen} \in SUBSET (DOMAIN s)
    OBVIOUS
<1> QED BY <1>2, <1>3, FS_Subset, FS_CardinalityType DEF CountIn

LEMMA CountConcat ==
    ASSUME NEW S, NEW s \in Seq(S), NEW t \in Seq(S)
    PROVE  CountIn(s \o t) = CountIn(s) + CountIn(t)
<1> DEFINE A == {i \in DOMAIN s : s[i] = Listen}
           B == {i \in DOMAIN t : t[i] = Listen}
           C == {i \in Nat : i - Len(s) \in B}
           f == [i \in B |-> i + Len(s)]
           g == [i \in C |-> i - Len(s)]
<1>1. /\ Len(s) \in Nat /\ Len(t) \in Nat /\ s \o t \in Seq(S) /\ Len(s \o t) = Len(s) + Len(t)
      /\ DOMAIN s = 1 .. Len(s) /\ DOMAIN t = 1 .. Len(t)
      /\ DOMAIN (s \o t) = 1 .. (Len(s) + Len(t))
    BY ConcatProperties, LenProperties
<1>2. IsFiniteSet(A) /\ IsFiniteSet(B) /\ CountIn(s) = Cardinality(A) /\ CountIn(t) = Cardinality(B)
    BY CountType DEF CountIn
<1>3. CountIn(s) \in Nat /\ CountIn(t) \in Nat
    BY CountType
<1>4. {i \in DOMAIN (s \o t) : (s \o t)[i] = Listen} = A \union C
    <2>1. ASSUME NEW i \in 1 .. Len(s) PROVE (s \o t)[i] = s[i] /\ i - Len(s) \notin B
        BY <1>1, ConcatProperties
    <2>2. ASSUME NEW i \in Len(s) + 1 .. Len(s) + Len(t)
          PROVE  (s \o t)[i] = t[i - Len(s)] /\ i - Len(s) \in DOMAIN t
        BY <1>1, ConcatProperties
    <2>3. ASSUME NEW i \in 1 .. Len(s) + Len(t) PROVE (s \o t)[i] = Listen <=> i \in A \union C
        <3>1. CASE i <= Len(s)
            BY <1>1, <2>1, <3>1
        <3>2. CASE i > Len(s)
            BY <1>1, <2>2, <3>2
        <3> QED BY <1>1, <3>1, <3>2
    <2>4. A \union C \subseteq 1 .. Len(s) + Len(t)
        BY <1>1
    <2> QED BY <1>1, <2>3, <2>4
<1>5. IsFiniteSet(C) /\ Cardinality(C) = Cardinality(B)
    <2>1. f \in [B -> C] /\ \A i, j \in B : f[i] = f[j] => i = j
        BY <1>1
    <2>2. g \in [C -> B] /\ \A i, j \in C : g[i] = g[j] => i = j
        BY <1>1
    <2>3. C \in SUBSET (1 .. Len(s) + Len(t)) /\ IsFiniteSet(1 .. Len(s) + Len(t))
        <3>1. C \in SUBSET (1 .. Len(s) + Len(t))
            BY <1>1
        <3>2. 1 \in Int /\ Len(s) + Len(t) \in Int
            BY <1>1
        <3> QED BY <3>1, <3>2, FS_Interval
    <2> HIDE DEF f, g, B, C
    <2>4. IsFiniteSet(C)
        BY <2>3, FS_Subset
    <2>5. ~(Cardinality(C) < Cardinality(B))
        BY <1>2, <2>1, <2>4, FS_PigeonHole
    <2>6. ~(Cardinality(B) < Cardinality(C))
        BY <1>2, <2>2, <2>4, FS_PigeonHole
    <2>7. Cardinality(B) \in Nat /\ Cardinality(C) \in Nat
        BY <1>2, <2>4, FS_CardinalityType
    <2> QED BY <2>4, <2>5, <2>6, <2>7
<1>6. A \intersect C = {}
    BY <1>1
<1> HIDE DEF A, B, C, f, g
<1>7. Cardinality(A \union C) = Cardinality(A) + Cardinality(C) - Cardinality({})
    BY <1>2, <1>5, <1>6, FS_Union
<1>8. CountIn(s \o t) = Cardinality(A \union C)
    BY <1>4 DEF CountIn
<1> QED BY <1>2, <1>3, <1>5, <1>7, <1>8, FS_EmptySet

LEMMA CountSingle ==
    ASSUME NEW x
    PROVE  /\ x = Listen => CountIn(<<x>>) = 1
           /\ x # Listen => CountIn(<<x>>) = 0
<1>1. CASE x = Listen
    <2>1. {i \in DOMAIN <<x>> : <<x>>[i] = Listen} = {1}
        BY <1>1
    <2> QED BY <1>1, <2>1, FS_Singleton DEF CountIn
<1>2. CASE x # Listen
    <2>1. {i \in DOMAIN <<x>> : <<x>>[i] = Listen} = {}
        BY <1>2
    <2> QED BY <1>2, <2>1, FS_EmptySet DEF CountIn
<1> QED BY <1>1, <1>2

LEMMA CountEmpty == CountIn(<<>>) = 0
<1>1. {i \in DOMAIN <<>> : <<>>[i] = Listen} = {}
    OBVIOUS
<1> QED BY <1>1, FS_EmptySet DEF CountIn

LEMMA CountAppend ==
    ASSUME NEW S, NEW s \in Seq(S), NEW x \in S
    PROVE  /\ x = Listen => CountIn(Append(s, x)) = CountIn(s) + 1
           /\ x # Listen => CountIn(Append(s, x)) = CountIn(s)
<1>1. Append(s, x) = s \o <<x>> /\ <<x>> \in Seq(S)
    BY AppendIsConcat
<1>2. CountIn(Append(s, x)) = CountIn(s) + CountIn(<<x>>) /\ CountIn(s) \in Nat
    BY <1>1, CountConcat, CountType
<1> QED BY <1>2, CountSingle

LEMMA CountTail ==
    ASSUME NEW S, NEW s \in Seq(S), s # <<>>
    PROVE  /\ Head(s) = Listen => CountIn(s) = CountIn(Tail(s)) + 1
           /\ Head(s) # Listen => CountIn(s) = CountIn(Tail(s))
<1>1. Head(s) \in S /\ Tail(s) \in Seq(S) /\ <<Head(s)>> \in Seq(S)
    BY HeadTailProperties
<1>2. s = <<Head(s)>> \o Tail(s)
    <2>1. /\ Len(Tail(s)) = Len(s) - 1 /\ Len(s) \in Nat /\ Len(s) # 0 /\ Head(s) = s[1]
          /\ \A i \in 1 .. Len(Tail(s)) : Tail(s)[i] = s[i + 1]
        BY HeadTailProperties, LenProperties, EmptySeq
    <2>2. /\ <<Head(s)>> \o Tail(s) \in Seq(S) /\ Len(<<Head(s)>> \o Tail(s)) = Len(s)
          /\ \A i \in 1 .. Len(s) : (<<Head(s)>> \o Tail(s))[i] =
                 IF i <= 1 THEN <<Head(s)>>[i] ELSE Tail(s)[i - 1]
        <3>1. Len(<<Head(s)>>) = 1 /\ 1 + Len(Tail(s)) = Len(s)
            BY <2>1
        <3> QED BY <1>1, <3>1, ConcatProperties
    <2>3. ASSUME NEW i \in 1 .. Len(s) PROVE (<<Head(s)>> \o Tail(s))[i] = s[i]
        <3>1. CASE i = 1
            BY <2>1, <2>2, <3>1
        <3>2. CASE i > 1
            <4>1. i - 1 \in 1 .. Len(Tail(s)) /\ i - 1 + 1 = i /\ ~(i <= 1)
                BY <2>1, <3>2
            <4> QED BY <2>1, <2>2, <4>1
        <3> QED BY <3>1, <3>2
    <2> QED BY <1>1, <2>2, <2>3, SeqEqual
<1>3. CountIn(s) = CountIn(<<Head(s)>>) + CountIn(Tail(s)) /\ CountIn(Tail(s)) \in Nat
    BY <1>1, <1>2, CountConcat, CountType
<1> QED BY <1>3, CountSingle

LEMMA CountSplit ==
    ASSUME NEW S, NEW s \in Seq(S), NEW n \in 0 .. Len(s)
    PROVE  CountIn(s) = CountIn(SubSeq(s, 1, n)) + CountIn(SubSeq(s, n + 1, Len(s)))
<1>1. Len(s) \in Nat /\ 1 \in 1 .. Len(s) + 1 /\ n \in 1 - 1 .. Len(s) /\ Len(s) \in n .. Len(s)
    BY LenProperties
<1>2. SubSeq(s, 1, n) \o SubSeq(s, n + 1, Len(s)) = SubSeq(s, 1, Len(s))
    BY <1>1, ConcatAdjacentSubSeq
<1>3. SubSeq(s, 1, Len(s)) = s
    BY SubSeqFull
<1>4. SubSeq(s, 1, n) \in Seq(S) /\ SubSeq(s, n + 1, Len(s)) \in Seq(S)
    BY SplitOf
<1> QED BY <1>2, <1>3, <1>4, CountConcat

\* Taking out the event of a client.
LEMMA CountWithout ==
    ASSUME NEW S, NEW s \in Seq(S), NEW x \in S, x # Listen
    PROVE  CountIn(Without(s, x)) = CountIn(s)
<1>1. CASE x \notin ToSet(s)
    BY <1>1 DEF Without
<1>2. CASE x \in ToSet(s)
    <2> DEFINE k == CHOOSE i \in DOMAIN s : s[i] = x
               a == SubSeq(s, 1, k - 1)
               m == SubSeq(s, k, Len(s))
               b == SubSeq(s, k + 1, Len(s))
    <2>1. k \in DOMAIN s /\ s[k] = x /\ Without(s, x) = a \o b
        BY <1>2 DEF ToSet, Without, RemoveAt
    <2> HIDE DEF k
    <2>2. Len(s) \in Nat /\ k \in 1 .. Len(s)
        BY <2>1, LenProperties
    <2>3. /\ a \in Seq(S) /\ m \in Seq(S) /\ CountIn(s) = CountIn(a) + CountIn(m)
        <3>1. k - 1 \in 0 .. Len(s) /\ k - 1 + 1 = k
            BY <2>2
        <3>2. /\ CountIn(s) = CountIn(SubSeq(s, 1, k - 1)) + CountIn(SubSeq(s, k - 1 + 1, Len(s)))
              /\ SubSeq(s, 1, k - 1) \in Seq(S) /\ SubSeq(s, k - 1 + 1, Len(s)) \in Seq(S)
            BY <3>1, CountSplit, SplitOf
        <3> QED BY <3>1, <3>2
    <2>4. m # <<>> /\ Head(m) = x /\ Tail(m) = b
        <3>1. Len(m) = Len(s) - k + 1
            <4>1. k \in 1 .. Len(s) + 1 /\ Len(s) \in k - 1 .. Len(s)
                BY <2>2
            <4> QED BY <4>1, PartOf
        <3>2. m # <<>>
            <4>1. Len(m) # 0
                BY <2>2, <3>1
            <4>2. Len(<<>>) = 0
                BY EmptySeq
            <4> QED BY <4>1, <4>2, Zenon
        <3>3. Head(m) = s[k] /\ Tail(m) = b
            <4>1. Len(s) \in k .. Len(s)
                BY <2>2
            <4> QED BY <2>2, <4>1, HeadTailOfSubSeq
        <3> QED BY <2>1, <3>2, <3>3
    <2>5. CountIn(m) = CountIn(b) /\ b \in Seq(S)
        BY <2>3, <2>4, CountTail, HeadTailProperties
    <2> QED BY <2>1, <2>3, <2>5, CountConcat
<1> QED BY <1>1, <1>2

Accepters == {w \in Workers : wpc[w] = "accept"}

\* The arrivals that are still announced, and those that were not.
Announced == merged + CountIn(ready) + CountIn(batch) + CountIn(queue) + Cardinality(Accepters)

LEMMA AnnouncedType ==
    ASSUME TypeInv
    PROVE  /\ merged \in Nat /\ CountIn(ready) \in Nat /\ CountIn(batch) \in Nat
           /\ CountIn(queue) \in Nat /\ IsFiniteSet(Accepters) /\ Cardinality(Accepters) \in Nat
           /\ Len(backlog) \in Nat
<1>1. ready \in Seq(interest) /\ batch \in Seq(Sources) /\ queue \in Seq(Sources)
    BY DEF TypeInv, SockOK, SockTypeOK, MainTypeOK, Sources
<1>2. Accepters \in SUBSET Workers /\ IsFiniteSet(Workers)
    BY ReactorAssumption DEF Accepters
<1>3. merged \in Nat /\ backlog \in Seq(Clients)
    BY DEF TypeInv, SockOK, SockTypeOK
<1> QED BY <1>1, <1>2, <1>3, CountType, FS_Subset, FS_CardinalityType, LenProperties

\* A step of one worker, which was at accept() or comes to it.
LEMMA AcceptersStep ==
    ASSUME TypeInv, NEW w \in Workers, \A v \in Workers \ {w} : wpc'[v] = wpc[v]
    PROVE  /\ (wpc[w] = "accept" <=> wpc'[w] = "accept") => Accepters' = Accepters
           /\ wpc[w] = "accept" /\ wpc'[w] # "accept" =>
                  Cardinality(Accepters') = Cardinality(Accepters) - 1
           /\ wpc[w] # "accept" /\ wpc'[w] = "accept" =>
                  Cardinality(Accepters') = Cardinality(Accepters) + 1
<1>1. IsFiniteSet(Accepters)
    BY AnnouncedType
<1>2. CASE wpc[w] = "accept" <=> wpc'[w] = "accept"
    BY <1>2 DEF Accepters
<1>3. CASE wpc[w] = "accept" /\ wpc'[w] # "accept"
    <2>1. Accepters' = Accepters \ {w} /\ w \in Accepters
        BY <1>3 DEF Accepters
    <2> QED BY <1>1, <1>3, <2>1, FS_RemoveElement
<1>4. CASE wpc[w] # "accept" /\ wpc'[w] = "accept"
    <2>1. Accepters' = Accepters \union {w} /\ w \notin Accepters
        BY <1>4 DEF Accepters
    <2> QED BY <1>1, <1>4, <2>1, FS_AddElement
<1> QED BY <1>2, <1>3, <1>4

WaitingInv == Working => Len(backlog) <= Announced

LEMMA ArriveWaiting ==
    ASSUME ConnInv, WaitingInv, NEW d \in Clients, Arrive(d) PROVE WaitingInv'
<1> USE DEF ConnInv
<1> SUFFICES ASSUME Working' PROVE Len(backlog') <= Announced'
    BY DEF WaitingInv
<1>1. UNCHANGED <<fdtab, interest, mainpc, batch, queue, wpc, alive>>
    BY DEF Arrive, PeerStep, Connect, Send, Hang, mainVars, workerVars, histVars
<1>2. Working /\ Len(backlog) <= Announced
    BY <1>1 DEF Working, InLoop, WaitingInv
<1>3. /\ Accepters' = Accepters /\ CountIn(batch') = CountIn(batch)
      /\ CountIn(queue') = CountIn(queue)
    BY <1>1 DEF Accepters
<1>4. ready \in Seq(interest)
    BY DEF TypeInv, SockOK, SockTypeOK
<1>5. CASE Connect(d)
    <2>1. Listen \in interest /\ Notify(Listen)
        BY <1>2, <1>5 DEF Working, LoopOK, ListenOK, Connect
    <2>2. Len(backlog') = Len(backlog) + 1
        BY <1>5 DEF Connect, TypeInv, SockOK, SockTypeOK
    <2>3. CASE Listen \notin ToSet(ready)
        <3>1. ready' = Append(ready, Listen)
            BY <2>1, <2>3 DEF Notify
        <3>2. CountIn(ready') = CountIn(ready) + 1
            BY <1>4, <2>1, <3>1, CountAppend
        <3>3. merged' = merged
            <4>1. Listen \in ToSet(ready')
                BY <1>4, <2>1, <3>1, AppendOf
            <4> QED BY <1>5, <2>3, <4>1 DEF Connect
        <3>4. /\ merged \in Nat /\ CountIn(ready) \in Nat /\ CountIn(batch) \in Nat
              /\ CountIn(queue) \in Nat /\ Cardinality(Accepters) \in Nat /\ Len(backlog) \in Nat
            BY AnnouncedType
        <3>5. Announced' = Announced + 1 /\ Announced \in Nat
            <4>1. Cardinality(Accepters') = Cardinality(Accepters)
                BY <1>3
            <4>2. Announced' = merged + (CountIn(ready) + 1) + CountIn(batch) + CountIn(queue)
                                   + Cardinality(Accepters)
                BY <1>3, <3>2, <3>3, <4>1 DEF Announced
            <4> QED BY <3>4, <4>2 DEF Announced
        <3> QED BY <1>2, <2>2, <3>4, <3>5
    <2>4. CASE Listen \in ToSet(ready)
        <3>1. ready' = ready /\ merged' = merged + 1
            BY <1>5, <2>1, <2>4 DEF Notify, Connect
        <3>2. CountIn(ready') = CountIn(ready) /\ Cardinality(Accepters') = Cardinality(Accepters)
            BY <1>3, <3>1
        <3>3. /\ merged \in Nat /\ CountIn(ready) \in Nat /\ CountIn(batch) \in Nat
              /\ CountIn(queue) \in Nat /\ Cardinality(Accepters) \in Nat /\ Len(backlog) \in Nat
            BY AnnouncedType
        <3> QED BY <1>2, <1>3, <2>2, <3>1, <3>2, <3>3 DEF Announced
    <2> QED BY <2>3, <2>4
<1>6. CASE Send(d) \/ Hang(d)
    <2>1. backlog' = backlog /\ merged' = merged /\ Notify(d)
        BY <1>6 DEF Send, Hang
    <2>2. CountIn(ready') = CountIn(ready)
        BY <1>4, <2>1, CountAppend, SourcesDistinct DEF Notify
    <2> QED BY <1>2, <1>3, <2>1, <2>2 DEF Announced
<1> QED BY <1>5, <1>6 DEF Arrive, PeerStep

LEMMA MainWaiting == ASSUME ConnInv, WaitingInv, Main \/ Signal PROVE WaitingInv'
<1> USE DEF ConnInv, MainAt, MainGoto
<1> SUFFICES ASSUME Working' PROVE Len(backlog') <= Announced'
    BY DEF WaitingInv
<1>1. UNCHANGED <<backlog, wpc>> /\ Accepters' = Accepters
    BY DEF Main, Signal, Start, Check, Wait, Wake, Dispatch, DispatchFreed, DispatchNoMemory,
           DispatchRefused, CloseEpoll, CloseServer, Join, sockVars, workerVars, Accepters
<1>2. /\ ready \in Seq(interest) /\ batch \in Seq(Sources) /\ queue \in Seq(Sources)
      /\ backlog \in Seq(Clients)
    BY DEF TypeInv, SockOK, SockTypeOK, MainTypeOK, Sources
<1>3. ~Start => Working
    <2>1. (mainpc' \in {"check", "wait", "blocked", "dispatch"}) /\ alive' /\ fdtab'[EpollFd] = Epoll
        BY DEF Working, InLoop
    <2>2. ~CloseEpoll /\ ~CloseServer /\ ~Join /\ ~DispatchNoMemory
        BY <2>1 DEF CloseEpoll, CloseServer, Join, DispatchNoMemory
    <2>3. fdtab' = fdtab /\ alive
        BY <2>2 DEF Main, Signal, Start, Check, Wait, Wake, Dispatch, DispatchFreed,
               DispatchRefused, sockVars
    <2>4. ~Start => InLoop
        BY <2>1, <2>2 DEF Main, Signal, Check, Wait, Wake, Dispatch, DispatchFreed,
               DispatchRefused, InLoop
    <2> QED BY <2>1, <2>3, <2>4 DEF Working
<1>4. CASE Start
    <2>1. /\ Add(Listen) /\ ready = <<>> /\ queue' = queue /\ batch' = batch
          /\ merged' = IF Len(backlog) > 1 THEN Len(backlog) - 1 ELSE 0
        BY <1>4 DEF Start, LoopOK, StartOK
    <2>2. Len(backlog) \in Nat /\ CountIn(queue') \in Nat /\ CountIn(batch') \in Nat
          /\ Cardinality(Accepters') \in Nat
        BY <1>1, <2>1, AnnouncedType
    <2>3. CASE backlog # <<>>
        <3>1. ready' = Append(<<>>, Listen)
            BY <2>1, <2>3, EmptyOf DEF Add, Readable
        <3>2. CountIn(ready') = 1
            <4>1. CountIn(<<>>) = 0
                BY CountEmpty, Zenon
            <4>2. <<>> \in Seq({Listen}) /\ Listen \in {Listen}
                BY EmptyOf
            <4>3. CountIn(Append(<<>>, Listen)) = CountIn(<<>>) + 1
                BY <4>2, CountAppend
            <4> QED BY <3>1, <4>1, <4>3
        <3> QED BY <1>1, <2>1, <2>2, <3>2 DEF Announced
    <2>4. CASE backlog = <<>>
        <3>1. Len(backlog) = 0 /\ ready' = <<>>
            BY <2>1, <2>4, EmptySeq DEF Add, Readable
        <3>2. CountIn(ready') = 0 /\ merged' = 0
            BY <2>1, <3>1, CountEmpty
        <3> QED BY <1>1, <2>2, <3>1, <3>2 DEF Announced
    <2> QED BY <2>3, <2>4
<1>5. CASE Check \/ Wait
    <2>1. UNCHANGED <<ready, batch, queue, merged>>
        BY <1>5 DEF Check, Wait, sockVars, epollVars
    <2> QED BY <1>1, <1>3, <1>5, <2>1 DEF WaitingInv, Announced, Start, Check, Wait
<1>6. CASE Wake
    <2>1. Working /\ UNCHANGED <<fdtab, queue, merged>> /\ batch = <<>>
        BY <1>3, <1>6 DEF Start, Wake, TypeInv, MainTypeOK
    <2>2. PICK n \in 0 .. Len(ready) :
              batch' = SubSeq(ready, 1, n) /\ ready' = SubSeq(ready, n + 1, Len(ready))
        <3>1. Least(MaxEvents, Len(ready)) \in 0 .. Len(ready)
            BY <1>2, ReactorAssumption, LenProperties DEF Least
        <3> QED BY <1>6, <2>1, <3>1 DEF Wake, Leave, Working
    <2>3. CountIn(ready) = CountIn(batch') + CountIn(ready')
        BY <1>2, <2>2, CountSplit
    <2>4. CountIn(batch) = 0
        BY <2>1, CountEmpty
    <2>5. CountIn(batch') \in Nat /\ CountIn(ready') \in Nat
        <3>1. batch' \in Seq(interest) /\ ready' \in Seq(interest)
            BY <1>2, <2>2, SplitOf
        <3> QED BY <3>1, CountType
    <2> QED BY <1>1, <2>1, <2>3, <2>4, <2>5, AnnouncedType DEF WaitingInv, Announced
<1>7. CASE Dispatch \/ DispatchFreed \/ DispatchRefused
    <2>1. Working /\ ready' = ready /\ batch # <<>> /\ batch' = Tail(batch) /\ alive'
        BY <1>3, <1>7 DEF Start, Dispatch, DispatchFreed, DispatchRefused, Advance, Rest, TypeInv,
                          MainTypeOK, sockVars, epollVars, Working
    <2>2. Head(batch) \in Sources /\ batch' \in Seq(Sources)
        BY <1>2, <2>1, TailOf
    <2>3. /\ Head(batch) = Listen => CountIn(batch) = CountIn(batch') + 1
          /\ Head(batch) # Listen => CountIn(batch) = CountIn(batch')
          /\ CountIn(batch') \in Nat
        BY <1>2, <2>1, <2>2, CountTail, CountType
    <2>4. CASE queue' = Append(queue, Head(batch)) /\ merged' = merged
        <3>1. /\ Head(batch) = Listen => CountIn(queue') = CountIn(queue) + 1
              /\ Head(batch) # Listen => CountIn(queue') = CountIn(queue)
            BY <1>2, <2>2, <2>4, CountAppend
        <3>2. Announced' = Announced
            <4>1. /\ merged \in Nat /\ CountIn(ready) \in Nat /\ CountIn(queue) \in Nat
                  /\ Cardinality(Accepters) \in Nat
                BY AnnouncedType
            <4> QED BY <1>1, <2>1, <2>3, <2>4, <3>1, <4>1 DEF Announced
        <3> QED BY <1>1, <2>1, <3>2 DEF WaitingInv
    <2>5. CASE /\ queue' = queue
               /\ Head(batch) = Listen => merged' = merged + 1
               /\ Head(batch) # Listen => merged' = merged
        BY <1>1, <2>1, <2>3, <2>5, AnnouncedType DEF WaitingInv, Announced
    <2> QED BY <1>7, <2>1, <2>4, <2>5 DEF Dispatch, DispatchFreed, DispatchRefused, sockVars
<1>8. CASE DispatchNoMemory \/ CloseEpoll \/ CloseServer \/ Join
    BY <1>8 DEF DispatchNoMemory, CloseEpoll, CloseServer, Join, Working, InLoop
<1>9. CASE Signal
    <2>1. Working /\ UNCHANGED <<merged, batch, queue>>
        BY <1>3, <1>9 DEF Signal, Start
    <2>2. ready' = ready
        BY <1>9, <2>1 DEF Signal, Leave, Working, epollVars
    <2> QED BY <1>1, <2>1, <2>2 DEF WaitingInv, Announced
<1> QED BY <1>4, <1>5, <1>6, <1>7, <1>8, <1>9 DEF Main

LEMMA TakeJobWaiting ==
    ASSUME ConnInv, WaitingInv, NEW w \in Workers, TakeJob(w) PROVE WaitingInv'
<1> USE DEF ConnInv
<1>1. UNCHANGED <<fdtab, ready, batch, backlog, merged, mainpc, alive>>
    BY DEF TakeJob, sockVars, epollVars, mainVars, histVars
<1>2. Working' = Working
    BY <1>1 DEF Working, InLoop
<1>3. queue \in Seq(Sources) /\ queue # <<>> /\ queue' = Tail(queue) /\ wpc[w] = "idle"
    BY DEF TakeJob, At, TypeInv, MainTypeOK, Sources
<1>4. /\ Head(queue) = Listen => CountIn(queue) = CountIn(queue') + 1
      /\ Head(queue) # Listen => CountIn(queue) = CountIn(queue')
      /\ CountIn(queue') \in Nat
    BY <1>3, CountTail, CountType, TailOf
<1>5. /\ \A v \in Workers \ {w} : wpc'[v] = wpc[v]
      /\ wpc'[w] = "accept" <=> Head(queue) = Listen
    BY DEF TakeJob, Goto, TypeInv, WorkOK, WorkerTypeOK
<1>6. CASE Head(queue) = Listen
    <2>1. Cardinality(Accepters') = Cardinality(Accepters) + 1
        BY <1>3, <1>5, <1>6, AcceptersStep
    <2>2. /\ merged \in Nat /\ CountIn(ready) \in Nat /\ CountIn(batch) \in Nat
          /\ Cardinality(Accepters) \in Nat
        BY AnnouncedType
    <2>3. Announced' = Announced
        BY <1>1, <1>4, <1>6, <2>1, <2>2 DEF Announced
    <2> QED BY <1>1, <1>2, <2>3 DEF WaitingInv
<1>7. CASE Head(queue) # Listen
    <2>1. Accepters' = Accepters
        BY <1>3, <1>5, <1>7, AcceptersStep
    <2> QED BY <1>1, <1>2, <1>4, <1>7, <2>1 DEF WaitingInv, Announced
<1> QED BY <1>6, <1>7

LEMMA ServerWaiting ==
    ASSUME ConnInv, WaitingInv, NEW w \in Workers, ServerJob(w) PROVE WaitingInv'
<1> USE DEF ConnInv
<1> SUFFICES ASSUME Working' PROVE Len(backlog') <= Announced'
    BY DEF WaitingInv
<1>1. /\ UNCHANGED <<mainpc, batch, queue>> /\ alive
      /\ \A v \in Workers \ {w} : wpc'[v] = wpc[v]
      /\ wpc[w] \in {"accept", "register"} /\ wpc'[w] \in {"idle", "register"}
    BY DEF ServerJob, Accept, AcceptNoMemory, AcceptFull, AcceptNothing, Register, Accepting, At,
           Finish, Goto, mainVars, TypeInv, WorkOK, WorkerTypeOK
<1>2. ready \in Seq(interest) /\ backlog \in Seq(Clients)
    BY DEF TypeInv, SockOK, SockTypeOK
<1>3. fdtab[EpollFd] = Epoll
    <2>1. \/ fdtab' = fdtab
          \/ \E n \in Fds : \/ fdtab[n] = NoFile /\ fdtab' = [fdtab EXCEPT ![n] = Head(backlog)]
                            \/ fdtab[EpollFd] # Epoll /\ fdtab' = [fdtab EXCEPT ![n] = NoFile]
        <3>1. Register(w) => fd[job[w]] \in Fds
            BY JobIsClient DEF Register, At, TypeInv, ClientTypeOK
        <3> QED BY <3>1 DEF ServerJob, Accept, AcceptNoMemory, AcceptFull, AcceptNothing, Register,
                            CloseNumber, LowestFree, Unused, sockVars
    <2>2. fdtab'[EpollFd] = Epoll /\ fdtab \in [Fds -> Sources \union {Epoll, NoFile}]
        BY DEF Working, TypeInv, SockOK, SockTypeOK, Sources
    <2>3. CASE fdtab' = fdtab
        BY <2>2, <2>3
    <2>4. ASSUME NEW n \in Fds, fdtab[n] = NoFile, fdtab' = [fdtab EXCEPT ![n] = Head(backlog)]
          PROVE  fdtab[EpollFd] = Epoll
        <3>1. Accept(w) \/ fdtab' = fdtab
            BY <2>2, <2>4, FilesDistinct, FdsAssumption
               DEF ServerJob, Accept, AcceptNoMemory, AcceptFull, AcceptNothing, Register,
                   CloseNumber, Accepting, sockVars
        <3>2. Accept(w) => Head(backlog) # Epoll
            BY <1>2, TailOf, SourcesDistinct DEF Accept, Accepting, Sources
        <3> QED BY <2>2, <2>4, <3>1, <3>2, FdsAssumption
    <2> QED BY <2>1, <2>2, <2>3, <2>4, FilesDistinct, FdsAssumption
<1>4. Working /\ Len(backlog) <= Announced
    BY <1>1, <1>3 DEF Working, InLoop, WaitingInv
<1>5. /\ CountIn(batch') = CountIn(batch) /\ CountIn(queue') = CountIn(queue)
    BY <1>1
<1>6. CASE Accept(w) \/ AcceptNoMemory(w)
    <2>1. backlog # <<>> /\ backlog' = Tail(backlog) /\ ready' = ready /\ merged' = merged
          /\ wpc[w] = "accept"
        BY <1>6 DEF Accept, AcceptNoMemory, Accepting, At, epollVars
    <2>2. Len(backlog') = Len(backlog) - 1
        BY <1>2, <2>1, HeadTailProperties
    <2>3. Cardinality(Accepters') = Cardinality(Accepters) - 1
        BY <1>1, <2>1, AcceptersStep
    <2>4. CountIn(ready') = CountIn(ready)
        BY <2>1
    <2> QED BY <1>4, <1>5, <2>1, <2>2, <2>3, <2>4, AnnouncedType DEF Announced
<1>7. CASE AcceptFull(w)
    <2>1. backlog' = backlog /\ ready' = ready /\ merged' = merged + 1 /\ wpc[w] = "accept"
        BY <1>7 DEF AcceptFull, Accepting, At, epollVars
    <2>2. wpc'[w] = "idle"
        BY <1>7 DEF AcceptFull, Finish, Goto, TypeInv, WorkOK, WorkerTypeOK
    <2>3. Cardinality(Accepters') = Cardinality(Accepters) - 1
        BY <1>1, <2>1, <2>2, AcceptersStep
    <2>4. CountIn(ready') = CountIn(ready)
        BY <2>1
    <2>5. merged \in Int /\ Cardinality(Accepters) \in Int /\ CountIn(ready) \in Int
          /\ CountIn(batch) \in Int /\ CountIn(queue) \in Int
        BY AnnouncedType
    <2>6. Announced' = Announced
        BY <1>5, <2>1, <2>3, <2>4, <2>5 DEF Announced
    <2> QED BY <1>4, <2>1, <2>6
<1>8. CASE AcceptNothing(w)
    <2>1. backlog' = backlog /\ backlog = <<>>
        BY <1>1, <1>4, <1>8
           DEF AcceptNothing, Accepting, LoopOK, ServerFile, Working, InLoop, At, sockVars
    <2>2. Len(backlog') = 0
        BY <1>2, <2>1, EmptySeq
    <2>3. ready' = ready /\ merged' = merged
        BY <1>8 DEF AcceptNothing, sockVars, epollVars
    <2>4. wpc'[w] = "idle" /\ wpc[w] = "accept"
        BY <1>8 DEF AcceptNothing, At, Finish, Goto, TypeInv, WorkOK, WorkerTypeOK
    <2>5. w \in Accepters /\ Cardinality(Accepters') = Cardinality(Accepters) - 1
        BY <1>1, <2>4, AcceptersStep DEF Accepters
    <2>6. Cardinality(Accepters) # 0
        BY <2>5, AnnouncedType, FS_EmptySet
    <2>7. CountIn(ready') = CountIn(ready)
        BY <2>3
    <2> QED BY <1>5, <2>2, <2>3, <2>5, <2>6, <2>7, AnnouncedType DEF Announced
<1>9. CASE Register(w)
    <2>1. /\ Add(job[w]) /\ backlog' = backlog /\ merged' = merged /\ wpc[w] = "register"
          /\ job[w] \in Clients
        BY <1>3, <1>9, JobIsClient DEF Register, Watch, At, TypeInv
    <2>2. wpc'[w] = "idle"
        BY <1>9 DEF Register, Finish, Goto, TypeInv, WorkOK, WorkerTypeOK
    <2>3. Accepters' = Accepters
        BY <1>1, <2>1, <2>2, AcceptersStep
    <2>4. CountIn(ready') = CountIn(ready)
        <3>1. ready \in Seq(interest \union {job[w]})
            BY <1>2, SeqMonotonic
        <3> QED BY <2>1, <3>1, CountAppend, SourcesDistinct DEF Add
    <2> QED BY <1>4, <1>5, <2>1, <2>3, <2>4 DEF Announced
<1> QED BY <1>6, <1>7, <1>8, <1>9 DEF ServerJob

LEMMA ClientWaiting ==
    ASSUME ConnInv, WaitingInv, NEW w \in Workers, ClientJob(w) PROVE WaitingInv'
<1> USE DEF ConnInv
<1> SUFFICES ASSUME Working' PROVE Len(backlog') <= Announced'
    BY DEF WaitingInv
<1>1. /\ wpc[w] \in ClientPc /\ job[w] \in Clients /\ Proceeds(w)
      /\ UNCHANGED <<mainVars, queue, backlog, merged>>
      /\ UNCHANGED <<fdtab, epollVars>> \/ (Del(w) /\ UNCHANGED fdtab)
    <2>1. /\ \/ UNCHANGED <<fdtab, epollVars>>
             \/ Del(w) /\ UNCHANGED fdtab
             \/ fdtab' = [fdtab EXCEPT ![EpollFd] = NoFile]
        BY ClientStep
    <2>2. fdtab' # [fdtab EXCEPT ![EpollFd] = NoFile]
        BY FilesDistinct, FdsAssumption DEF Working, TypeInv, SockOK, SockTypeOK
    <2> QED BY <2>1, <2>2, ClientStep
<1>2. alive
    BY DEF ClientJob, UseFreed, Read, ReadEnd, ReadEmpty, Feed, Parse, FeedNoMemory, Pop, Take,
           Unlink, Release, ContextFreed, DoubleFree, RaceKills, Answer, AnswerError,
           AnswerShort, AnswerKilled, AnswerNull, Del, Close, Free, At, Uses
<1>3. Working /\ Len(backlog) <= Announced
    BY <1>1, <1>2 DEF Working, InLoop, WaitingInv, mainVars
<1>4. Accepters' = Accepters
    <2>1. /\ \A v \in Workers \ {w} : wpc'[v] = wpc[v]
          /\ wpc[w] # "accept" /\ wpc'[w] # "accept"
        BY <1>1 DEF Proceeds, Finish, Goto, ClientPc, TypeInv, WorkOK, WorkerTypeOK
    <2> QED BY <2>1, AcceptersStep
<1>5. CountIn(ready') = CountIn(ready)
    <2>1. CASE UNCHANGED epollVars
        BY <2>1 DEF epollVars
    <2>2. CASE Del(w)
        <3>1. Forget(Peer(w)) /\ Peer(w) = job[w]
            BY <1>1, <1>3, <2>2
               DEF Del, Working, SocketsOK, OwnSocket, Served, AtWork, Peer
        <3>2. ready' = Without(ready, job[w])
            BY <3>1 DEF Forget
        <3>3. ready \in Seq(Sources) /\ job[w] \in Sources /\ job[w] # Listen
            BY <1>1, SourcesDistinct, SeqMonotonic DEF TypeInv, SockOK, SockTypeOK, Sources
        <3> QED BY <3>2, <3>3, CountWithout
    <2> QED BY <1>1, <2>1, <2>2
<1> QED BY <1>1, <1>3, <1>4, <1>5 DEF Announced, mainVars

\* handle_server_fd takes one connection per event.  No more connections are left
\* in the backlog than arrivals were merged into one event or found no free file
\* number: whatever else the pool does, none is forgotten.
THEOREM WaitingAlwaysMerged == Spec => []WaitingIsMerged
<1>1. Init => WaitingInv
    BY DEF Init, WaitingInv, Working, InLoop
<1>2. ConnInv /\ WaitingInv /\ [Next]_vars => WaitingInv'
    <2> SUFFICES ASSUME ConnInv, WaitingInv, [Next]_vars PROVE WaitingInv'
        OBVIOUS
    <2>1. CASE UNCHANGED vars
        <3>1. UNCHANGED <<fdtab, ready, backlog, merged, mainpc, batch, queue, wpc, alive>>
            BY <2>1 DEF vars, sockVars, epollVars, mainVars, workerVars, histVars
        <3>2. Working' = Working /\ Announced' = Announced
            BY <3>1 DEF Working, InLoop, Announced, Accepters
        <3> QED BY <3>1, <3>2 DEF WaitingInv
    <2> QED BY <2>1, MainWaiting, ArriveWaiting, TakeJobWaiting, ServerWaiting, ClientWaiting
               DEF Next, Worker
<1>3. WaitingInv => WaitingIsMerged
    BY DEF WaitingInv, WaitingIsMerged, Announced, Accepters
<1> QED BY <1>1, <1>2, <1>3, ConnAlways, PTL DEF Spec
=============================================================================
