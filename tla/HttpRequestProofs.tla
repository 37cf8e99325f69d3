-------------------------- MODULE HttpRequestProofs --------------------------
(***************************************************************************)
(* HttpParse implements HttpRequestSpec: however a stream is cut, what a   *)
(* context delivers is the request that the bytes spell out.               *)
(*                                                                         *)
(* The invariant speaks of the whole stream, received or not, which no     *)
(* step changes: what the parser has read so far is what the stream says   *)
(* up to next_line.                                                        *)
(***************************************************************************)
EXTENDS HttpParseProofs, LeastNumbers, FiniteSetTheorems, SequenceTheorems

-----------------------------------------------------------------------------
(* The operators of HttpSyntax mean the same in the specification.         *)

LEMMA SameCrlf == \A p, k : Request!Crlf(p, k) <=> Crlf(p, k)
  BY DEF Crlf, Request!Crlf, CR, Request!CR, LF, Request!LF

LEMMA SameFirstCrlf == \A p, s, k : Request!FirstCrlf(p, s, k) <=> FirstCrlf(p, s, k)
  BY SameCrlf DEF FirstCrlf, Request!FirstCrlf

LEMMA SameToken == \A line, c, from : Request!NextToken(line, c, from) = NextToken(line, c, from)
  BY DEF NextToken, Request!NextToken, Min, Request!Min

LEMMA SameView == \A p, pos, len : Request!View(p, pos, len) = View(p, pos, len)
  BY DEF View, Request!View

LEMMA SameColon == \A line : Request!HasColon(line) <=> HasColon(line)
  BY SameToken DEF HasColon, Request!HasColon, COLON, Request!COLON

LEMMA SameValue == \A line : Request!Value(line) = Value(line)
  BY SameToken, SameView DEF Value, Request!Value, COLON, Request!COLON, SP, Request!SP,
                             Rest, Request!Rest

LEMMA SameNumber == \A value : Request!Number(value) = Number(value)
  BY DEF Number, Request!Number, SP, Request!SP, Min, Request!Min

LEMMA SameField == \A line : Request!FieldOf(line) = FieldOf(line)
  BY SameToken, SameView, SameValue, SameNumber
     DEF FieldOf, Request!FieldOf, ValueParses, Request!ValueParses, Key, Request!Key,
         Match, Request!Match, Unknown, Request!Unknown, FieldWords, Request!FieldWords,
         COLON, Request!COLON

LEMMA SameDeclaration ==
    \A line : /\ Request!DeclaresLength(line) <=> DeclaresLength(line)
              /\ Request!DeclaresChunked(line) <=> DeclaresChunked(line)
              /\ Request!DeclaredLength(line) = DeclaredLength(line)
  BY SameColon, SameField, SameValue, SameNumber
     DEF DeclaresLength, Request!DeclaresLength, DeclaresChunked, Request!DeclaresChunked,
         DeclaredLength, Request!DeclaredLength

LEMMA SameHeader == \A line : Request!HeaderOf(line) = HeaderOf(line)
  BY SameField, SameToken, SameView, SameValue, SameDeclaration
     DEF HeaderOf, Request!HeaderOf, Key, Request!Key, Unknown, Request!Unknown,
         COLON, Request!COLON

LEMMA SameLoss == \A r, k : Request!LoseFirst(r, k) = LoseFirst(r, k)
  BY DEF LoseFirst, Request!LoseFirst, LoseText, Request!LoseText, Lose, Request!Lose,
         Gone, Request!Gone

LEMMA SameRequestLine ==
    \A line : Request!ParseRequestLine(Request!NewRequest, line, TRUE)
                  = ParseRequestLine(NewRequest, line, TRUE)
  BY DEF ParseRequestLine, Request!ParseRequestLine, NewRequest, Request!NewRequest,
         NextToken, Request!NextToken, View, Request!View, Rest, Request!Rest, Min, Request!Min,
         Match, Request!Match, Methods, Request!Methods, Versions, Request!Versions,
         Unknown, Request!Unknown, SP, Request!SP

\* parse_request_line writes three fields and leaves the others alone.
LEMMA RequestLineFields ==
    ASSUME NEW line, NEW r, r = ParseRequestLine(NewRequest, line, TRUE)
    PROVE  r = [method |-> r.method, path |-> r.path, version |-> r.version,
                headers |-> <<>>, body |-> <<>>]
  BY DEF ParseRequestLine, NewRequest

-----------------------------------------------------------------------------
(* Sets of offsets in their order.                                         *)

\* q lists the elements of S in their order.
Lists(q, S) == /\ q \in [1..Cardinality(S) -> S]
               /\ \A i, j \in DOMAIN q : i < j => q[i] < q[j]

\* A list of a set names each of its elements.
LEMMA ListsOnto ==
    ASSUME NEW S \in SUBSET Nat, IsFiniteSet(S), NEW q, Lists(q, S)
    PROVE  \A x \in S : \E i \in DOMAIN q : q[i] = x
<1> SUFFICES ASSUME NEW x \in S, \A i \in DOMAIN q : q[i] # x PROVE FALSE
  OBVIOUS
<1> DEFINE n == Cardinality(S)
<1>1. n \in Nat /\ q \in [1..n -> S]
  BY FS_CardinalityType DEF Lists
<1>2. IsFiniteSet(S \ {x}) /\ Cardinality(S \ {x}) = n - 1
  BY FS_RemoveElement
<1>3. q \in [1..n -> S \ {x}]
  BY <1>1
<1>4. IsFiniteSet(1..n) /\ Cardinality(1..n) = n
  <2>1. 1 \in Int /\ n \in Int
    BY <1>1
  <2>2. IsFiniteSet(1..n) /\ Cardinality(1..n) = IF 1 > n THEN 0 ELSE n - 1 + 1
    BY <2>1, FS_Interval
  <2> QED
    BY <1>1, <2>2
<1>5. \A i, j \in 1..n : i < j => q[i] < q[j]
  BY <1>1 DEF Lists
<1> HIDE DEF n
<1>6. PICK i \in 1..n, j \in 1..n : i # j /\ q[i] = q[j]
  BY <1>1, <1>2, <1>3, <1>4, FS_PigeonHole
<1>7. q[i] \in Nat /\ q[j] \in Nat
  BY <1>1
<1> QED
  BY <1>1, <1>5, <1>6, <1>7

\* There is one such list.
LEMMA ListsUnique ==
    ASSUME NEW S \in SUBSET Nat, IsFiniteSet(S), NEW q, NEW r, Lists(q, S), Lists(r, S)
    PROVE  q = r
<1> DEFINE n == Cardinality(S)
           D == {i \in 1..n : q[i] # r[i]}
<1>1. n \in Nat /\ q \in [1..n -> S] /\ r \in [1..n -> S]
  BY FS_CardinalityType DEF Lists
<1>2. /\ \A i, j \in 1..n : i < j => q[i] < q[j]
      /\ \A i, j \in 1..n : i < j => r[i] < r[j]
  BY <1>1 DEF Lists
<1>3. \A i \in 1..n : q[i] \in Nat /\ r[i] \in Nat
  BY <1>1
<1> SUFFICES ASSUME D # {} PROVE FALSE
  BY <1>1
<1>4. PICK d \in D : \A i \in D : d <= i
  <2>1. D \subseteq Nat /\ D # {}
    BY <1>1
  <2> HIDE DEF D
  <2> QED
    BY <2>1, NatMin
<1>5. d \in 1..n /\ q[d] # r[d] /\ \A i \in 1..n : i < d => q[i] = r[i]
  BY <1>4
<1>. HIDE DEF n, D
<1>10. DOMAIN q = 1..n /\ DOMAIN r = 1..n /\ q[d] \in S /\ r[d] \in S
  BY <1>1, <1>5
<1>6. PICK i \in 1..n : r[i] = q[d]
  <2>1. \A x \in S : \E i \in DOMAIN r : r[i] = x
    BY ListsOnto, Zenon
  <2> QED
    BY <1>10, <2>1
<1>7. PICK j \in 1..n : q[j] = r[d]
  <2>1. \A x \in S : \E j \in DOMAIN q : q[j] = x
    BY ListsOnto, Zenon
  <2> QED
    BY <1>10, <2>1
<1>8. i > d /\ j > d
  <2>1. i # d /\ j # d
    BY <1>5, <1>6, <1>7
  <2>2. i < d => FALSE
    BY <1>2, <1>3, <1>5, <1>6
  <2>3. j < d => FALSE
    BY <1>2, <1>3, <1>5, <1>7
  <2> QED
    BY <2>1, <2>2, <2>3, <1>5
<1>9. r[d] < r[i] /\ q[d] < q[j]
  BY <1>2, <1>5, <1>8
<1> QED
  BY <1>3, <1>5, <1>6, <1>7, <1>9

LEMMA SameCardinality == \A S : Request!Cardinality(S) = Cardinality(S)
  BY DEF Cardinality, Request!Cardinality

\* InOrder of the specification is that list.
LEMMA InOrderIs ==
    ASSUME NEW S \in SUBSET Nat, IsFiniteSet(S), NEW q, Lists(q, S)
    PROVE  Request!InOrder(S) = q
<1>1. Lists(Request!InOrder(S), S)
  BY SameCardinality DEF Lists, Request!InOrder
<1> QED
  BY <1>1, ListsUnique

LEMMA ListsEmpty == Lists(<<>>, {})
  BY FS_EmptySet DEF Lists

\* A new greatest element comes last.
LEMMA ListsAppend ==
    ASSUME NEW S \in SUBSET Nat, IsFiniteSet(S), NEW q, Lists(q, S),
           NEW x \in Nat, \A y \in S : y < x
    PROVE  /\ q \in Seq(Nat)
           /\ Lists(Append(q, x), S \union {x})
<1> DEFINE n == Cardinality(S)
           r == Append(q, x)
<1>1. n \in Nat /\ q \in [1..n -> S] /\ q \in Seq(Nat) /\ Len(q) = n
  <2>1. n \in Nat /\ q \in [1..n -> S]
    BY FS_CardinalityType DEF Lists
  <2> HIDE DEF n
  <2>2. q \in [1..n -> Nat]
    BY <2>1
  <2> QED
    BY <2>1, <2>2
<1>2. \A i, j \in 1..n : i < j => q[i] < q[j]
  BY <1>1 DEF Lists
<1>3. Cardinality(S \union {x}) = n + 1
  BY FS_AddElement
<1>4. /\ r \in Seq(Nat) /\ Len(r) = n + 1 /\ DOMAIN r = 1..n + 1
      /\ \A i \in 1..n : r[i] = q[i]
      /\ r[n + 1] = x
  BY <1>1
<1>5. \A i \in 1..n : q[i] \in S /\ q[i] \in Nat /\ q[i] < x
  BY <1>1
<1> HIDE DEF n, r
<1>6. r \in [1..n + 1 -> S \union {x}]
  <2>1. \A i \in 1..n + 1 : r[i] \in S \union {x}
    BY <1>1, <1>4, <1>5
  <2>2. r = [i \in 1..n + 1 |-> r[i]]
    BY <1>4
  <2> QED
    BY <2>1, <2>2
<1>7. ASSUME NEW i \in 1..n + 1, NEW j \in 1..n + 1, i < j PROVE r[i] < r[j]
  <2>1. i \in 1..n /\ (j \in 1..n \/ j = n + 1)
    BY <1>1, <1>7
  <2> QED
    BY <1>2, <1>4, <1>5, <1>7, <2>1
<1>8. Lists(r, S \union {x})
  BY <1>3, <1>4, <1>6, <1>7 DEF Lists
<1> QED
  BY <1>1, <1>8 DEF r

-----------------------------------------------------------------------------
(* Lines of a text.                                                        *)

\* The line ends before offset n, and the lines that begin before it, save
\* the first.
Stops(p, n)  == {k \in 0..n - 2 : Crlf(p, k)}
Starts(p, n) == {s \in 2..n - 1 : Crlf(p, s - 2)}

LineOf(p, s) == Request!LineAt(p, s)

LEMMA LineEnds ==
    ASSUME NEW p \in Seq(STRING), NEW n \in Nat
    PROVE  /\ IsFiniteSet(Stops(p, n)) /\ Cardinality(Stops(p, n)) \in Nat
           /\ Starts(p, n) \in SUBSET Nat /\ IsFiniteSet(Starts(p, n))
<1>1. \A a \in Int : IsFiniteSet(a..n)
  BY FS_Interval
<1>2. Stops(p, n) \in SUBSET (0..n) /\ Starts(p, n) \in SUBSET (2..n)
  BY DEF Stops, Starts
<1>3. IsFiniteSet(Stops(p, n)) /\ IsFiniteSet(Starts(p, n))
  <2>1. IsFiniteSet(0..n) /\ IsFiniteSet(2..n)
    BY <1>1
  <2> QED
    BY <1>2, <2>1, FS_Subset
<1> QED
  BY <1>2, <1>3, FS_CardinalityType

\* The line at s is what lies before the first line end.
LEMMA LineIs ==
    ASSUME NEW p \in Seq(STRING), NEW s \in Nat, NEW k \in Nat, FirstCrlf(p, s, k)
    PROVE  LineOf(p, s) = SubSeq(p, s + 1, k)
<1>1. k \in s..Len(p)
  BY DEF FirstCrlf, Crlf
<1>2. ASSUME NEW j \in s..Len(p), FirstCrlf(p, s, j) PROVE j = k
  <2>1. ~(j < k) /\ ~(k < j)
    BY <1>1, <1>2 DEF FirstCrlf
  <2> QED
    BY <1>1, <1>2, <2>1
<1>3. (CHOOSE j \in s..Len(p) : FirstCrlf(p, s, j)) = k
  BY <1>1, <1>2
<1> QED
  BY <1>3, SameFirstCrlf DEF LineOf, Request!LineAt

\* A line that has been received whole is a line of the stream.
LEMMA LineOfStream ==
    ASSUME NEW a \in Seq(STRING), NEW b \in Seq(STRING), NEW s \in Nat, NEW k \in Nat,
           k + 2 <= Len(a)
    PROVE  /\ FirstCrlf(a, s, k) <=> FirstCrlf(a \o b, s, k)
           /\ s <= k => SubSeq(a \o b, s + 1, k) = SubSeq(a, s + 1, k)
<1>1. \A j \in Nat : j <= k => (Crlf(a \o b, j) <=> Crlf(a, j))
  BY CrlfGrows
<1>2. FirstCrlf(a, s, k) <=> FirstCrlf(a \o b, s, k)
  BY <1>1 DEF FirstCrlf
<1>3. ASSUME s <= k PROVE SubSeq(a \o b, s + 1, k) = SubSeq(a, s + 1, k)
  <2>1. \A i \in 1..k - s : (a \o b)[s + i] = a[s + i]
    <3>1. \A i \in s + 1..k : (a \o b)[i] = a[i]
      OBVIOUS
    <3>2. \A i \in 1..k - s : s + i \in s + 1..k
      OBVIOUS
    <3> QED
      BY <3>1, <3>2
  <2>2. SubSeq(a \o b, s + 1, k) = [i \in 1..k - s |-> (a \o b)[s + i]]
    OBVIOUS
  <2>3. SubSeq(a, s + 1, k) = [i \in 1..k - s |-> a[s + i]]
    OBVIOUS
  <2> QED
    BY <1>3, <2>1, <2>2, <2>3
<1> QED
  BY <1>2, <1>3

\* Two line ends do not overlap.
LEMMA NoOverlap ==
    ASSUME NEW p, NEW k \in Int, Crlf(p, k) PROVE ~Crlf(p, k + 1) /\ ~Crlf(p, k - 1)
<1>1. p[k + 1] = CR /\ p[k + 2] = LF /\ (k + 1) + 1 = k + 2 /\ (k - 1) + 2 = k + 1
  BY DEF Crlf
<1> QED
  BY <1>1 DEF Crlf, CR, LF

\* The line after the one that ends at n.
LEMMA NextStarts ==
    ASSUME NEW p \in Seq(STRING), NEW n \in Nat, Crlf(p, n - 2), NEW k \in Nat,
           FirstCrlf(p, n, k)
    PROVE  /\ Starts(p, k + 2) = Starts(p, n) \union {n}
           /\ Stops(p, k + 2) = Stops(p, n) \union {k}
           /\ k \notin Stops(p, n)
<1>1. n >= 2 /\ n <= k /\ ~Crlf(p, n - 1) /\ Crlf(p, k) /\ \A j \in n..k - 1 : ~Crlf(p, j)
  BY NoOverlap DEF FirstCrlf, Crlf
<1>2. ASSUME NEW s \in 2..k + 1, Crlf(p, s - 2) PROVE s < n \/ s = n
  <2>1. s - 2 \notin n..k - 1 /\ s - 2 # n - 1
    BY <1>1, <1>2
  <2> QED
    BY <1>1, <1>2, <2>1
<1>3. Starts(p, k + 2) = Starts(p, n) \union {n}
  BY <1>1, <1>2 DEF Starts
<1>4. ASSUME NEW j \in 0..k, Crlf(p, j) PROVE j <= n - 2 \/ j = k
  <2>1. j \notin n..k - 1 /\ j # n - 1
    BY <1>1, <1>4
  <2> QED
    BY <1>1, <1>4, <2>1
<1>5. Stops(p, k + 2) = Stops(p, n) \union {k}
  BY <1>1, <1>4 DEF Stops
<1> QED
  BY <1>1, <1>3, <1>5 DEF Stops

\* The line after the first.
LEMMA FirstStarts ==
    ASSUME NEW p \in Seq(STRING), NEW k \in Nat, FirstCrlf(p, 0, k)
    PROVE  Starts(p, k + 2) = {} /\ k \in Stops(p, k + 2)
<1>1. Crlf(p, k) /\ \A j \in 0..k - 1 : ~Crlf(p, j)
  BY DEF FirstCrlf
<1>2. \A s \in 2..k + 1 : s - 2 \in 0..k - 1
  OBVIOUS
<1> QED
  BY <1>1, <1>2 DEF Starts, Stops

\* The head of a text ends with its first empty line; its header lines are the
\* lines that begin before that one.
LEMMA HeadIs ==
    ASSUME NEW p \in Seq(STRING), NEW n \in Nat, Crlf(p, n), Crlf(p, n - 2),
           \A j \in Nat : j >= 2 /\ Crlf(p, j) /\ Crlf(p, j - 2) => j >= n
    PROVE  /\ Request!HasHead(p)
           /\ Request!HeadLength(p) = n + 2
           /\ Request!HeaderStarts(p) = Starts(p, n)
<1> DEFINE E == Request!HeadEnds(p)
<1>1. n >= 2 /\ n <= Len(p) - 2
  BY DEF Crlf
<1>2. n + 2 \in E /\ \A m \in E : m \in Int /\ n + 2 <= m
  BY <1>1, SameCrlf DEF Request!HeadEnds
<1> HIDE DEF E
<1>3. Request!HasHead(p)
  BY <1>2 DEF Request!HasHead, E
<1>4. Request!HeadLength(p) = n + 2
  <2> DEFINE m == CHOOSE x \in E : \A y \in E : x =< y
  <2>1. m \in E /\ \A y \in E : m =< y
    BY <1>2
  <2>2. Request!HeadLength(p) = m
    BY DEF Request!HeadLength, Request!Min, E
  <2> HIDE DEF m
  <2>3. m <= n + 2 /\ n + 2 <= m /\ m \in Int
    BY <1>2, <2>1
  <2> QED
    BY <2>2, <2>3
<1>5. ASSUME NEW s \in Starts(p, n) PROVE s \in Request!HeaderStarts(p)
  <2>1. s \in 2..n - 1 /\ Crlf(p, s - 2)
    BY <1>5 DEF Starts
  <2>2. ~Crlf(p, s)
    BY <2>1
  <2>3. s - 2 # n - 3
    BY <2>1, NoOverlap
  <2>4. s - 2 \in 0..n + 2 - 6 /\ (s - 2) + 2 = s
    BY <2>1, <2>2, <2>3, <1>1
  <2> QED
    BY <1>4, <2>1, <2>2, <2>4, SameCrlf DEF Request!HeaderStarts
<1>6. ASSUME NEW s \in Request!HeaderStarts(p) PROVE s \in Starts(p, n)
  <2>1. PICK j \in 0..n + 2 - 6 : s = j + 2 /\ Crlf(p, j)
    BY <1>4, <1>6, SameCrlf DEF Request!HeaderStarts
  <2> QED
    BY <2>1 DEF Starts
<1> QED
  BY <1>3, <1>4, <1>5, <1>6

-----------------------------------------------------------------------------
(* What the lines of a text say.                                           *)

Declares(p, s) == DeclaresLength(LineOf(p, s)) \/ DeclaresChunked(LineOf(p, s))

\* The lines before offset n with a colon, and those about the body.
ColonStarts(p, n) == {s \in Starts(p, n) : HasColon(LineOf(p, s))}
BodyStarts(p, n)  == {s \in Starts(p, n) : Declares(p, s)}

FirstLine(p) == ParseRequestLine(NewRequest, LineOf(p, 0), TRUE)

HeadersOf(p, q) == [i \in DOMAIN q |-> HeaderOf(LineOf(p, q[i]))]

Parsed(line, headers, b) ==
    [method |-> line.method, path |-> line.path, version |-> line.version,
     headers |-> headers, body |-> b]

\* r is the request in the lines of p before offset n, with body b.
RequestIs(r, p, n, b) ==
    \E q : /\ Lists(q, ColonStarts(p, n))
           /\ r = Parsed(FirstLine(p), HeadersOf(p, q), b)

LEMMA ParsedHeader ==
    \A line, headers, b : Parsed(line, headers, b).headers = headers
  BY DEF Parsed

\* type and length are what the last line about the body says.
BodyIs(type, length, p, n) ==
    \/ BodyStarts(p, n) = {} /\ type = "unset"
    \/ \E s \in BodyStarts(p, n) :
          /\ \A t \in BodyStarts(p, n) : t <= s
          /\ \/ /\ DeclaresLength(LineOf(p, s))
                /\ type = "fixed" /\ length = DeclaredLength(LineOf(p, s))
             \/ ~DeclaresLength(LineOf(p, s)) /\ type = "chunked"

\* After the request line.
LEMMA RequestLineRead ==
    ASSUME NEW p \in Seq(STRING), NEW k \in Nat, FirstCrlf(p, 0, k)
    PROVE  /\ RequestIs(ParseRequestLine(NewRequest, SubSeq(p, 1, k), TRUE), p, k + 2, <<>>)
           /\ \A length : BodyIs("unset", length, p, k + 2)
<1>1. LineOf(p, 0) = SubSeq(p, 1, k)
  BY LineIs
<1>2. ColonStarts(p, k + 2) = {} /\ BodyStarts(p, k + 2) = {}
  BY FirstStarts DEF ColonStarts, BodyStarts
<1> DEFINE line == ParseRequestLine(NewRequest, LineOf(p, 0), TRUE)
<1>3. line = Parsed(line, <<>>, <<>>)
  BY RequestLineFields DEF Parsed
<1>4. HeadersOf(p, <<>>) = <<>>
  BY DEF HeadersOf
<1>5. Lists(<<>>, ColonStarts(p, k + 2))
  BY <1>2, ListsEmpty
<1>6. RequestIs(line, p, k + 2, <<>>)
  <2>1. line = Parsed(FirstLine(p), HeadersOf(p, <<>>), <<>>)
    BY <1>3, <1>4 DEF FirstLine
  <2> QED
    BY <1>5, <2>1 DEF RequestIs
<1> QED
  BY <1>1, <1>2, <1>6 DEF BodyIs

\* After a header line with a colon.
LEMMA HeaderRead ==
    ASSUME NEW p \in Seq(STRING), NEW n \in Nat, Crlf(p, n - 2), NEW k \in Nat,
           FirstCrlf(p, n, k), NEW r, RequestIs(r, p, n, <<>>), HasColon(LineOf(p, n))
    PROVE  RequestIs([r EXCEPT !.headers = Append(@, HeaderOf(LineOf(p, n)))],
                     p, k + 2, <<>>)
<1>1. PICK q : /\ Lists(q, ColonStarts(p, n))
               /\ r = Parsed(FirstLine(p), HeadersOf(p, q), <<>>)
  BY DEF RequestIs
<1> DEFINE S == ColonStarts(p, n)
           a == Append(q, n)
           h == HeadersOf(p, q)
           x == HeaderOf(LineOf(p, n))
<1>2. ColonStarts(p, k + 2) = S \union {n}
  BY NextStarts DEF ColonStarts
<1>3. S \in SUBSET Nat /\ IsFiniteSet(S) /\ \A y \in S : y < n
  <2>1. S \in SUBSET Starts(p, n)
    BY DEF ColonStarts
  <2>2. IsFiniteSet(S)
    BY <2>1, LineEnds, FS_Subset
  <2> QED
    BY <2>1, <2>2, LineEnds DEF Starts
<1>4. q \in Seq(Nat) /\ Lists(a, ColonStarts(p, k + 2))
  <2>1. Lists(q, S)
    BY <1>1
  <2> HIDE DEF S
  <2>2. S \in SUBSET Nat /\ IsFiniteSet(S)
    BY <1>3
  <2>3. \A y \in S : y < n
    BY <1>3
  <2>4. q \in Seq(Nat) /\ Lists(Append(q, n), S \union {n})
    BY <2>1, <2>2, <2>3, ListsAppend, Zenon
  <2> QED
    BY <1>2, <2>4
<1>5. Append(h, x) = HeadersOf(p, a)
  <2> DEFINE g == HeadersOf(p, a)
  <2> USE DEF HeadersOf
  <2>1. Len(q) \in Nat /\ DOMAIN q = 1..Len(q)
    BY <1>4
  <2>2. /\ DOMAIN a = 1..Len(q) + 1 /\ a[Len(q) + 1] = n
        /\ \A i \in 1..Len(q) : a[i] = q[i]
    BY <1>4
  <2> HIDE DEF a, x
  <2>3. h \in Seq({HeaderOf(LineOf(p, q[i])) : i \in 1..Len(q)}) /\ Len(h) = Len(q)
    BY <2>1
  <2>4. /\ DOMAIN Append(h, x) = 1..Len(q) + 1 /\ Append(h, x)[Len(q) + 1] = x
        /\ \A i \in 1..Len(q) : Append(h, x)[i] = h[i]
        /\ Append(h, x) = [i \in 1..Len(q) + 1 |-> Append(h, x)[i]]
    BY <2>1, <2>3
  <2>5. \A i \in 1..Len(q) + 1 : Append(h, x)[i] = g[i]
    <3> SUFFICES ASSUME NEW i \in 1..Len(q) + 1 PROVE Append(h, x)[i] = g[i]
      OBVIOUS
    <3>1. CASE i = Len(q) + 1
      BY <2>1, <2>2, <2>4, <3>1 DEF x
    <3>2. CASE i \in 1..Len(q)
      BY <2>1, <2>2, <2>4, <3>2
    <3> QED
      BY <2>1, <3>1, <3>2
  <2>6. g = [i \in 1..Len(q) + 1 |-> g[i]]
    BY <2>2
  <2> QED
    BY <2>4, <2>5, <2>6
<1>6. [r EXCEPT !.headers = Append(@, x)] = Parsed(FirstLine(p), HeadersOf(p, a), <<>>)
  <2> HIDE DEF a, x, h
  <2>1. r.headers = h /\ r = Parsed(FirstLine(p), h, <<>>)
    BY <1>1, ParsedHeader DEF h
  <2> DEFINE y == Append(h, x)
             l == FirstLine(p)
  <2> HIDE DEF y, l
  <2>2. [Parsed(l, h, <<>>) EXCEPT !.headers = y] = Parsed(l, y, <<>>)
    BY DEF Parsed
  <2>3. [r EXCEPT !.headers = y] = Parsed(l, y, <<>>)
    BY <2>1, <2>2, Zenon DEF l
  <2> QED
    BY <1>5, <2>1, <2>3 DEF y, l
<1> QED
  BY <1>4, <1>6 DEF RequestIs

\* A line without a colon is passed over.
LEMMA HeaderDropped ==
    ASSUME NEW p \in Seq(STRING), NEW n \in Nat, Crlf(p, n - 2), NEW k \in Nat,
           FirstCrlf(p, n, k), NEW r, RequestIs(r, p, n, <<>>), ~HasColon(LineOf(p, n))
    PROVE  RequestIs(r, p, k + 2, <<>>)
<1>1. ColonStarts(p, k + 2) = ColonStarts(p, n)
  BY NextStarts DEF ColonStarts
<1> QED
  BY <1>1 DEF RequestIs

\* header_line_update_body_type keeps the last line about the body.
LEMMA BodyRead ==
    ASSUME NEW p \in Seq(STRING), NEW n \in Nat, Crlf(p, n - 2), NEW k \in Nat,
           FirstCrlf(p, n, k), NEW type, NEW length, BodyIs(type, length, p, n),
           NEW line, line = LineOf(p, n)
    PROVE  /\ ~DeclaresLength(line) /\ ~DeclaresChunked(line) => BodyIs(type, length, p, k + 2)
           /\ DeclaresLength(line) => BodyIs("fixed", DeclaredLength(line), p, k + 2)
           /\ ~DeclaresLength(line) /\ DeclaresChunked(line) =>
                  BodyIs("chunked", length, p, k + 2)
<1>1. Starts(p, k + 2) = Starts(p, n) \union {n}
  BY NextStarts
<1>2. ASSUME ~Declares(p, n) PROVE BodyIs(type, length, p, k + 2)
  <2>1. BodyStarts(p, k + 2) = BodyStarts(p, n)
    BY <1>1, <1>2 DEF BodyStarts
  <2> QED
    BY <2>1 DEF BodyIs
<1>3. ASSUME Declares(p, n)
      PROVE  n \in BodyStarts(p, k + 2) /\ \A t \in BodyStarts(p, k + 2) : t <= n
  <2>1. BodyStarts(p, k + 2) = BodyStarts(p, n) \union {n}
    BY <1>1, <1>3 DEF BodyStarts
  <2>2. \A t \in BodyStarts(p, n) : t \in 2..n - 1
    BY DEF BodyStarts, Starts
  <2> QED
    BY <2>1, <2>2
<1> QED
  BY <1>2, <1>3 DEF BodyIs, Declares

-----------------------------------------------------------------------------
(* Streams the parser promises something about.                            *)

\* The line ends of the head: those that no empty line precedes.
HeadStops(s) == {k \in Stops(s, Len(s)) :
                    \A j \in Nat : j >= 2 /\ Crlf(s, j) /\ Crlf(s, j - 2) => k <= j}

\* A stream whose head has no more lines than the header loop takes, and in
\* which no number is negative or makes a sum with a cursor wrap.
Plain(s) ==
    /\ Cardinality(HeadStops(s)) <= HeaderLimit
    /\ \A i \in DOMAIN s :
          s[i] \in DOMAIN LengthOf => LengthOf[s[i]] \in 0..SizeMod - 1 - Len(s)

AllPlain == \A s \in Streams : Plain(s)

LEMMA SeqOver ==
    ASSUME NEW S, NEW T, NEW s \in Seq(T), \A i \in 1..Len(s) : s[i] \in S
    PROVE  s \in Seq(S)
<1> DEFINE n == Len(s)
<1>1. n \in Nat /\ s \in [1..n -> T]
  OBVIOUS
<1> HIDE DEF n
<1>2. s \in [1..n -> S]
  BY <1>1 DEF n
<1> QED
  BY <1>1, <1>2

\* A part of a line consists of symbols of the line.
LEMMA ViewType ==
    ASSUME NEW S, NEW line \in Seq(S), NEW pos \in Nat, NEW len \in Nat
    PROVE  View(line, pos, len) \in Seq(S)
<1>1. CASE pos >= Len(line)
  BY <1>1 DEF View
<1>2. CASE pos < Len(line)
  <2> DEFINE e == IF len < Len(line) - pos THEN pos + len ELSE Len(line)
  <2>1. e \in Nat /\ e <= Len(line)
    OBVIOUS
  <2> HIDE DEF e
  <2>2. SubSeq(line, pos + 1, e) \in Seq(S)
    BY <1>2, <2>1
  <2> QED
    BY <1>2, <2>2 DEF View, e
<1> QED
  BY <1>1, <1>2

LEMMA ValueType ==
    ASSUME NEW S, NEW line \in Seq(S), HasColon(line)
    PROVE  Value(line) \in Seq(S)
<1> DEFINE c  == NextToken(line, COLON, 0)
           at == {k \in 0..Len(line) - 1 : line[k + 1] = COLON}
           v  == Rest(line, c + 1)
<1>1. c \in Nat
  <2>1. at # {} /\ at \subseteq Nat /\ c = Min(at)
    BY DEF HasColon, NextToken
  <2> HIDE DEF at, c
  <2>2. Min(at) \in at
    BY <2>1, NatMin DEF Min
  <2> QED
    BY <2>1, <2>2
<1> HIDE DEF c
<1>2. v \in Seq(S)
  BY <1>1, ViewType DEF Rest
<1>3. Value(line) \in {v, Tail(v)} /\ (v = <<>> => Value(line) = v)
  BY DEF Value, c
<1> HIDE DEF v
<1>4. v # <<>> => Tail(v) \in Seq(S)
  BY <1>2
<1> QED
  BY <1>2, <1>3, <1>4

\* A length declared in a plain stream is a size that no cursor makes wrap.
LEMMA DeclaredRange ==
    ASSUME NEW p \in Seq(STRING), Plain(p), NEW s \in Nat, NEW k \in Nat,
           s <= k, k <= Len(p), NEW line, line = SubSeq(p, s + 1, k), DeclaresLength(line)
    PROVE  DeclaredLength(line) \in 0..SizeMod - 1 - Len(p)
<1> DEFINE S == {p[i] : i \in DOMAIN p}
<1>1. line \in Seq(S)
  <2>1. Len(line) = k - s /\ \A i \in 1..k - s : line[i] = p[s + i] /\ s + i \in DOMAIN p
    OBVIOUS
  <2>2. line \in Seq(STRING) /\ k - s \in Nat
    OBVIOUS
  <2>3. \A i \in 1..k - s : line[i] \in S
    BY <2>1
  <2> HIDE DEF S
  <2>4. \A i \in 1..Len(line) : line[i] \in S
    BY <2>1, <2>3
  <2> QED
    BY <2>2, <2>4, SeqOver
<1>2. HasColon(line) /\ FieldOf(line) = "Content-Length"
  BY DEF DeclaresLength
<1> DEFINE v == Value(line)
           w == Number(v)
<1> HIDE DEF S
<1>3. v \in Seq(S)
  BY <1>1, <1>2, ValueType
<1>4. w # 0 /\ v[w] \in DOMAIN LengthOf
  <2>1. ValueParses("Content-Length", Value(line))
    BY <1>2 DEF FieldOf, Unknown
  <2> QED
    BY <2>1 DEF ValueParses
<1>5. w \in DOMAIN v
  <2> DEFINE words == {i \in DOMAIN v : v[i] # SP}
  <2> HIDE DEF v
  <2>1. words # {} /\ w = Min(words)
    BY <1>4 DEF Number
  <2>2. words \subseteq Nat
    BY <1>3
  <2>3. Min(words) \in words
    <3> HIDE DEF words, w
    <3> QED
      BY <2>1, <2>2, NatMin DEF Min
  <2> QED
    BY <2>1, <2>3
<1> HIDE DEF v, w
<1>6. v[w] \in S
  BY <1>3, <1>5
<1>7. PICK i \in DOMAIN p : v[w] = p[i]
  BY <1>6 DEF S
<1> QED
  BY <1>4, <1>7 DEF DeclaredLength, v, w, Plain

-----------------------------------------------------------------------------
(* The request of a text, read line by line.                               *)

\* The first empty line of p is at offset n.
HeadEndsAt(p, n) ==
    /\ Crlf(p, n) /\ Crlf(p, n - 2)
    /\ \A j \in Nat : j >= 2 /\ Crlf(p, j) /\ Crlf(p, j - 2) => j >= n

\* Every line before a line end has an end.
LEMMA LineHasEnd ==
    ASSUME NEW p \in Seq(STRING), NEW n \in Nat, Crlf(p, n), NEW s \in Nat, s <= n
    PROVE  \E k \in s..n : FirstCrlf(p, s, k)
<1> DEFINE E == {k \in s..n : Crlf(p, k)}
<1>1. n \in E /\ E \subseteq Nat
  OBVIOUS
<1>2. PICK k \in E : \A j \in E : k <= j
  <2> HIDE DEF E
  <2> QED
    BY <1>1, NatMin
<1>3. \A j \in s..k - 1 : ~Crlf(p, j)
  <2> SUFFICES ASSUME NEW j \in s..k - 1, Crlf(p, j) PROVE FALSE
    OBVIOUS
  <2>1. j \in E
    OBVIOUS
  <2> QED
    BY <1>2, <2>1
<1> QED
  BY <1>2, <1>3 DEF FirstCrlf

\* A part of a text that holds the head has the same head.
LEMMA HeadOfPart ==
    ASSUME NEW a \in Seq(STRING), NEW b \in Seq(STRING), NEW n \in Nat,
           HeadEndsAt(a \o b, n), n + 2 <= Len(a)
    PROVE  /\ HeadEndsAt(a, n)
           /\ Starts(a, n) = Starts(a \o b, n)
           /\ \A s \in Starts(a, n) \union {0} : LineOf(a, s) = LineOf(a \o b, s)
<1> DEFINE p == a \o b
<1>1. p \in Seq(STRING)
  OBVIOUS
<1>2. \A k \in Nat : k <= Len(a) - 2 => (Crlf(p, k) <=> Crlf(a, k))
  BY CrlfGrows
<1>3. \A k : Crlf(a, k) => k \in Nat /\ k <= Len(a) - 2
  BY DEF Crlf
<1> HIDE DEF p
<1>4. n >= 2
  BY DEF HeadEndsAt, Crlf, p
<1>5. HeadEndsAt(a, n)
  <2>1. Crlf(a, n) /\ Crlf(a, n - 2)
    BY <1>2, <1>4 DEF HeadEndsAt, p
  <2>2. ASSUME NEW j \in Nat, j >= 2, Crlf(a, j), Crlf(a, j - 2) PROVE j >= n
    <3>1. Crlf(p, j) /\ Crlf(p, j - 2)
      BY <1>2, <1>3, <2>2
    <3> QED
      BY <2>2, <3>1 DEF HeadEndsAt, p
  <2> QED
    BY <2>1, <2>2 DEF HeadEndsAt
<1>6. Starts(a, n) = Starts(p, n)
  BY <1>2 DEF Starts
<1>7. ASSUME NEW s \in Starts(a, n) \union {0} PROVE LineOf(a, s) = LineOf(p, s)
  <2>1. s \in Nat /\ s <= n
    BY <1>7 DEF Starts
  <2>2. PICK k \in s..n : FirstCrlf(a, s, k)
    BY <1>5, <2>1, LineHasEnd DEF HeadEndsAt
  <2>3. k \in Nat /\ s <= k /\ k + 2 <= Len(a)
    BY <2>1, <2>2
  <2>4. FirstCrlf(p, s, k) /\ SubSeq(p, s + 1, k) = SubSeq(a, s + 1, k)
    BY <2>1, <2>2, <2>3, LineOfStream DEF p
  <2>5. LineOf(a, s) = SubSeq(a, s + 1, k)
    BY <2>1, <2>2, <2>3, LineIs
  <2>6. LineOf(p, s) = SubSeq(p, s + 1, k)
    BY <1>1, <2>1, <2>3, <2>4, LineIs
  <2> QED
    BY <2>4, <2>5, <2>6
<1> QED
  BY <1>5, <1>6, <1>7 DEF p

LEMMA ReadOfPart ==
    ASSUME NEW a \in Seq(STRING), NEW b \in Seq(STRING), NEW n \in Nat,
           HeadEndsAt(a \o b, n), n + 2 <= Len(a), NEW r, NEW body_, NEW type, NEW length
    PROVE  /\ RequestIs(r, a \o b, n, body_) => RequestIs(r, a, n, body_)
           /\ BodyIs(type, length, a \o b, n) => BodyIs(type, length, a, n)
<1> DEFINE p == a \o b
<1>1. /\ Starts(a, n) = Starts(p, n)
      /\ \A s \in Starts(a, n) \union {0} : LineOf(a, s) = LineOf(p, s)
  BY HeadOfPart
<1> HIDE DEF p
<1>2. ColonStarts(a, n) = ColonStarts(p, n) /\ BodyStarts(a, n) = BodyStarts(p, n)
  BY <1>1 DEF ColonStarts, BodyStarts, Declares
<1>3. FirstLine(a) = FirstLine(p)
  BY <1>1 DEF FirstLine
<1>4. ASSUME NEW q, Lists(q, ColonStarts(p, n)) PROVE HeadersOf(a, q) = HeadersOf(p, q)
  <2>1. \A i \in DOMAIN q : q[i] \in Starts(a, n)
    BY <1>1, <1>4 DEF Lists, ColonStarts
  <2>2. \A i \in DOMAIN q : LineOf(a, q[i]) = LineOf(p, q[i])
    BY <1>1, <2>1
  <2> QED
    BY <2>2 DEF HeadersOf
<1>5. \A s \in BodyStarts(a, n) : LineOf(a, s) = LineOf(p, s)
  BY <1>1 DEF BodyStarts
<1>6. BodyIs(type, length, p, n) => BodyIs(type, length, a, n)
  BY <1>2, <1>5 DEF BodyIs
<1>7. RequestIs(r, p, n, body_) => RequestIs(r, a, n, body_)
  BY <1>2, <1>3, <1>4 DEF RequestIs
<1> QED
  BY <1>6, <1>7 DEF p

\* The length of the body is the one the parser has kept.
LEMMA BodyLengthIs ==
    ASSUME NEW p \in Seq(STRING), NEW n \in Nat, HeadEndsAt(p, n),
           NEW type, NEW length, BodyIs(type, length, p, n)
    PROVE  /\ type = "fixed" => Request!BodyLength(p) = length
           /\ type # "fixed" => Request!BodyLength(p) = 0
           /\ type = "chunked" => ~Request!ExactlyOne(p)
<1>1. Request!HeaderStarts(p) = Starts(p, n)
  BY HeadIs DEF HeadEndsAt
<1>2. Request!BodyHeaders(p) = BodyStarts(p, n)
  BY <1>1, SameDeclaration DEF Request!BodyHeaders, BodyStarts, Declares, LineOf
<1>3. CASE BodyStarts(p, n) = {} /\ type = "unset"
  BY <1>2, <1>3 DEF Request!BodyLength
<1>4. ASSUME NEW s \in BodyStarts(p, n), \A t \in BodyStarts(p, n) : t <= s,
             \/ /\ DeclaresLength(LineOf(p, s))
                /\ type = "fixed" /\ length = DeclaredLength(LineOf(p, s))
             \/ ~DeclaresLength(LineOf(p, s)) /\ type = "chunked"
      PROVE  /\ type = "fixed" => Request!BodyLength(p) = length
             /\ type # "fixed" => Request!BodyLength(p) = 0
             /\ type = "chunked" => ~Request!ExactlyOne(p)
  <2> DEFINE B == BodyStarts(p, n)
             m == CHOOSE x \in B : \A y \in B : x >= y
  <2>1. B \subseteq Nat
    BY LineEnds DEF BodyStarts
  <2>2. Request!Max(B) = m
    BY DEF Request!Max
  <2>3. \A y \in B : s >= y
    BY <1>4, <2>1
  <2> HIDE DEF B
  <2>4. m \in B /\ \A y \in B : m >= y
    BY <1>4, <2>3 DEF B
  <2>5. m = s
    <3>1. m >= s /\ s >= m /\ m \in Nat /\ s \in Nat
      BY <1>4, <2>1, <2>3, <2>4 DEF B
    <3> QED
      BY <3>1
  <2> HIDE DEF m
  <2>6. B # {} /\ Request!LineAt(p, Request!Max(B)) = LineOf(p, s)
    BY <1>4, <2>2, <2>5 DEF LineOf, B
  <2>7. CASE DeclaresLength(LineOf(p, s))
    BY <1>2, <1>4, <2>6, <2>7, SameDeclaration DEF Request!BodyLength, B
  <2>8. CASE ~DeclaresLength(LineOf(p, s))
    BY <1>2, <1>4, <2>6, <2>8, SameDeclaration DEF Request!BodyLength, Request!ExactlyOne, B
  <2> QED
    BY <2>7, <2>8
<1> QED
  BY <1>3, <1>4 DEF BodyIs

\* What has been read is the request of the text.
LEMMA RequestOfIs ==
    ASSUME NEW p \in Seq(STRING), NEW n \in Nat, HeadEndsAt(p, n),
           NEW r, RequestIs(r, p, n, View(p, n + 2, Request!BodyLength(p)))
    PROVE  r = Request!RequestOf(p)
<1>1. Request!HeaderStarts(p) = Starts(p, n) /\ Request!HeadLength(p) = n + 2
  BY HeadIs DEF HeadEndsAt
<1> DEFINE C == ColonStarts(p, n)
<1>2. {s \in Request!HeaderStarts(p) : Request!HasColon(Request!LineAt(p, s))} = C
  BY <1>1, SameColon DEF ColonStarts, LineOf
<1>3. PICK q : /\ Lists(q, C)
               /\ r = Parsed(FirstLine(p), HeadersOf(p, q),
                             View(p, n + 2, Request!BodyLength(p)))
  BY DEF RequestIs
<1>4. Request!InOrder(C) = q
  <2>1. C \in SUBSET Starts(p, n)
    BY DEF ColonStarts
  <2>2. C \in SUBSET Nat /\ IsFiniteSet(C)
    BY <2>1, LineEnds, FS_Subset
  <2> HIDE DEF C
  <2> QED
    BY <1>3, <2>2, InOrderIs, Zenon
<1> HIDE DEF C
<1>5. Request!ParseRequestLine(Request!NewRequest, Request!LineAt(p, 0), TRUE) = FirstLine(p)
  BY SameRequestLine DEF FirstLine, LineOf
<1>6. [i \in DOMAIN q |-> Request!HeaderOf(Request!LineAt(p, q[i]))] = HeadersOf(p, q)
  BY SameHeader DEF HeadersOf, LineOf
<1>7. Request!View(p, n + 2, Request!BodyLength(p)) = View(p, n + 2, Request!BodyLength(p))
  BY SameView
<1> QED
  BY <1>1, <1>2, <1>3, <1>4, <1>5, <1>6, <1>7 DEF Request!RequestOf, Parsed

-----------------------------------------------------------------------------
(* The invariant.                                                          *)

\* All the peer sends, received or not.
Stream == post \o rest

\* The request is complete, delivered or about to be.
Finished == pc = "end" \/ wait_state = "end"

\* The length of the body, as the switch on the body type takes it.
BodyLen == IF body_type = "fixed" THEN body_length ELSE 0

\* The head is being read: what has been read is what the lines before
\* next_line say.
HeadSoFar ==
    IF next_line = 0 THEN http_request = NewRequest /\ body_type = "unset"
    ELSE /\ RequestIs(http_request, Stream, next_line, <<>>)
         /\ BodyIs(body_type, body_length, Stream, next_line)

\* The head has been read: cur is behind it, next_line behind what was taken.
HeadWhole ==
    /\ cur - 2 \in Nat
    /\ HeadEndsAt(Stream, cur - 2)
    /\ BodyIs(body_type, body_length, Stream, cur - 2)
    /\ ~Finished => /\ next_line = cur
                    /\ RequestIs(http_request, Stream, cur - 2, <<>>)
    /\ Finished => /\ next_line = cur + BodyLen
                   /\ RequestIs(http_request, Stream, cur - 2, View(Stream, cur, BodyLen))

\* The counter of the header loop never comes near the limit.
CountInv ==
    /\ pc = "wait_req" => header_cnt = 1
    /\ pc = "wait_hdr" => header_cnt <= Cardinality(Stops(Stream, next_line))
    /\ pc = "hdr_done" => header_cnt < HeaderLimit

StreamInv ==
    /\ Stream \in Streams
    /\ ~fatal
    /\ CountInv
    /\ ReadingHead => HeadSoFar
    /\ ~ReadingHead => HeadWhole
    /\ body_type = "fixed" => body_length + Len(Stream) < SizeMod
    /\ pc = "wait_fix_body" => body_type = "fixed"
    /\ pc = "idle" /\ wait_state = "wait_fix_body" => body_type = "fixed"
    /\ pc = "end" /\ body_type # "chunked" => post_full_length = next_line

\* Nothing is promised after an allocation has failed.
RequestInv == faults = 0 => StreamInv

\* What the invariants of HttpParseProofs give.
BaseInv == Safe /\ SplitInv /\ HeadInv /\ BodyInv

LEMMA InitRequestInv == Init => RequestInv
<1> SUFFICES ASSUME Init PROVE StreamInv
  BY DEF RequestInv
<1>1. rest \in Seq(STRING) /\ post = <<>>
  BY StreamsAssumption DEF Init
<1>2. Stream = rest
  BY <1>1 DEF Stream
<1>3. CountInv
  BY DEF Init, CountInv
<1>4. ReadingHead /\ HeadSoFar
  BY DEF Init, ReadingHead, HeadSoFar
<1> QED
  BY <1>2, <1>3, <1>4 DEF Init, StreamInv

\* A segment moves from what is to come to what is there.
LEMMA StreamKept ==
    ASSUME NEW p \in Seq(STRING), NEW r \in Seq(STRING), NEW n \in 0..Len(r)
    PROVE  (p \o SubSeq(r, 1, n)) \o SubSeq(r, n + 1, Len(r)) = p \o r
<1> DEFINE a == SubSeq(r, 1, n)
           b == SubSeq(r, n + 1, Len(r))
<1>1. /\ a \in Seq(STRING) /\ Len(a) = n /\ \A i \in 1..n : a[i] = r[i]
      /\ b \in Seq(STRING) /\ Len(b) = Len(r) - n
      /\ \A i \in 1..Len(r) - n : b[i] = r[n + i]
  OBVIOUS
<1>4. n \in Nat /\ Len(r) \in Nat /\ n <= Len(r)
  OBVIOUS
<1> HIDE DEF a, b
<1>2. (p \o a) \o b = p \o (a \o b)
  <2>1. /\ (p \o a) \o b \in Seq(STRING) /\ p \o (a \o b) \in Seq(STRING)
        /\ Len((p \o a) \o b) = Len(p \o (a \o b))
    BY <1>1
  <2>2. \A i \in 1..Len((p \o a) \o b) : ((p \o a) \o b)[i] = (p \o (a \o b))[i]
    BY <1>1
  <2> HIDE DEF a, b
  <2> QED
    BY <2>1, <2>2, SeqEqual
<1>3. a \o b = r
  <2>1. a \o b \in Seq(STRING)
    BY <1>1
  <2>2. Len(a \o b) = Len(a) + Len(b)
    BY <1>1, ConcatProperties, Zenon
  <2>3. Len(a \o b) = Len(r)
    BY <1>1, <1>4, <2>2
  <2>4. ASSUME NEW i \in 1..Len(r) PROVE (a \o b)[i] = r[i]
    <3>0. i \in Int /\ (i <= n \/ i > n)
      BY <1>4
    <3>1. CASE i <= n
      BY <1>1, <3>1
    <3>2. CASE i > n
      <4>1. i - n \in 1..Len(b) /\ i = Len(a) + (i - n)
        BY <1>1, <1>4, <3>0, <3>2
      <4>2. \A m \in 1..Len(b) : (a \o b)[Len(a) + m] = b[m]
        BY <1>1
      <4>3. (a \o b)[i] = b[i - n]
        BY <4>1, <4>2
      <4>4. r[n + (i - n)] = r[i]
        BY <1>1, <4>1
      <4> QED
        BY <1>1, <4>1, <4>3, <4>4
    <3> QED
      BY <3>0, <3>1, <3>2
  <2> QED
    BY <2>1, <2>3, <2>4, SeqEqual
<1> QED
  BY <1>2, <1>3 DEF a, b

LEMMA FeedRequest ==
    ASSUME BaseInv, RequestInv, NEW n \in 0..Len(rest), Feed(n)
    PROVE  RequestInv'
<1> USE DEF BaseInv, Safe, TypeOK, CursorsInPost
<1> SUFFICES ASSUME faults' = 0 PROVE StreamInv'
  BY DEF RequestInv
<1>1. /\ pc = "idle" /\ wait_state # "end" /\ faults = 0
      /\ post' = post \o SubSeq(rest, 1, n) /\ pc' = Resume
      /\ rest' = SubSeq(rest, n + 1, Len(rest)) /\ header_cnt' = 1
      /\ UNCHANGED <<wait_state, post_full_length, cur, next_line, body_type, body_length,
                     http_request, fatal>>
  BY AllocationType DEF Feed, Count, cursor, body
<1>2. Stream' = Stream
  BY <1>1, StreamKept DEF Stream
<1>3. StreamInv
  BY <1>1 DEF RequestInv
<1>4. ReadingHead' <=> ReadingHead
  BY <1>1 DEF ReadingHead, Resume, SplitInv, WaitStates
<1>5. CountInv'
  <2>1. CASE pc' = "wait_hdr"
    <3>1. wait_state = "wait_hdr" \/ pc' # "wait_hdr"
      BY <1>1 DEF Resume, WaitStates
    <3>2. ReadingHead /\ next_line # 0 /\ Crlf(post, next_line - 2)
      BY <1>1, <1>3, <2>1, <3>1 DEF HeadInv, ReadingHead, StreamInv
    <3>3. next_line - 2 \in Nat /\ next_line - 2 <= Len(post) - 2
      BY <3>2 DEF Crlf
    <3>4. Crlf(Stream, next_line - 2)
      BY <3>2, <3>3, CrlfGrows DEF Stream
    <3>5. next_line - 2 \in Stops(Stream, next_line)
      BY <3>3, <3>4 DEF Stops
    <3>6. Stream \in Seq(STRING)
      BY DEF Stream
    <3>7. Cardinality(Stops(Stream, next_line)) # 0
      BY <3>5, <3>6, LineEnds, FS_EmptySet
    <3>9. next_line \in Nat
      BY <3>3
    <3>10. Cardinality(Stops(Stream, next_line)) \in Nat
      BY <3>6, <3>9, LineEnds, Zenon
    <3>8. Cardinality(Stops(Stream, next_line)) >= 1
      BY <3>7, <3>10
    <3> QED
      BY <1>1, <1>2, <2>1, <3>8 DEF CountInv
  <2>2. CASE pc' # "wait_hdr"
    BY <1>1, <2>2 DEF CountInv, Resume, WaitStates
  <2> QED
    BY <2>1, <2>2
<1>6. Finished' <=> Finished
  BY <1>1 DEF Finished, Resume, WaitStates
<1>7. BodyLen' = BodyLen
  BY <1>1 DEF BodyLen
<1>8. (HeadSoFar' <=> HeadSoFar) /\ (HeadWhole' <=> HeadWhole)
  BY <1>1, <1>2, <1>6, <1>7 DEF HeadSoFar, HeadWhole
<1>9. pc' = "end" => FALSE
  BY <1>1 DEF Resume, WaitStates
<1>10. pc' = "wait_fix_body" => wait_state = "wait_fix_body"
  BY <1>1 DEF Resume
<1> QED
  BY <1>1, <1>2, <1>3, <1>4, <1>5, <1>8, <1>9, <1>10 DEF StreamInv, Resume, WaitStates

\* The line that has been found is a line of the stream.
LEMMA LineInStream ==
    ASSUME Safe, NEW s \in Nat, NEW k \in SearchRange, FirstCrlf(post, s, k)
    PROVE  /\ Stream \in Seq(STRING) /\ Len(post) <= Len(Stream)
           /\ k \in Nat /\ s <= k /\ k + 2 <= Len(post)
           /\ FirstCrlf(Stream, s, k)
           /\ SubSeq(post, s + 1, k) = LineOf(Stream, s)
           /\ SubSeq(post, s + 1, k) = SubSeq(Stream, s + 1, k)
<1>1. post \in Seq(STRING) /\ rest \in Seq(STRING) /\ next_line \in Nat
  BY DEF Safe, TypeOK
<1>2. k \in Nat /\ s <= k /\ k + 2 <= Len(post)
  BY <1>1 DEF SearchRange, FirstCrlf
<1>3. Stream \in Seq(STRING) /\ Len(post) <= Len(Stream)
  BY <1>1 DEF Stream
<1>4. FirstCrlf(Stream, s, k) /\ SubSeq(Stream, s + 1, k) = SubSeq(post, s + 1, k)
  BY <1>1, <1>2, LineOfStream DEF Stream
<1>5. LineOf(Stream, s) = SubSeq(Stream, s + 1, k)
  BY <1>2, <1>3, <1>4, LineIs
<1> QED
  BY <1>2, <1>3, <1>4, <1>5

\* The lines before the first empty line are not more than those of the head.
LEMMA StopsGrow ==
    ASSUME NEW p \in Seq(STRING), NEW n \in Nat, n <= Len(p),
           \A j \in Nat : j >= 2 /\ Crlf(p, j) /\ Crlf(p, j - 2) => j >= n
    PROVE  /\ Cardinality(HeadStops(p)) \in Nat
           /\ Cardinality(Stops(p, n)) <= Cardinality(HeadStops(p))
           /\ Crlf(p, n) => Cardinality(Stops(p, n)) < Cardinality(HeadStops(p))
<1> DEFINE S == Stops(p, n)
           T == HeadStops(p)
<1>1. Len(p) \in Nat
  OBVIOUS
<1>2. /\ IsFiniteSet(S) /\ Cardinality(S) \in Nat
      /\ IsFiniteSet(Stops(p, Len(p)))
  BY <1>1, LineEnds, Zenon
<1>3. IsFiniteSet(T) /\ Cardinality(T) \in Nat
  <2>1. T \subseteq Stops(p, Len(p))
    BY DEF HeadStops
  <2> HIDE DEF T
  <2> QED
    BY <1>2, <2>1, FS_Subset, FS_CardinalityType
<1>4. S \subseteq T /\ n \notin S /\ (Crlf(p, n) => n \in T)
  BY DEF Stops, HeadStops, Crlf
<1> HIDE DEF S, T
<1>5. Cardinality(S) <= Cardinality(T)
  BY <1>3, <1>4, FS_Subset
<1>6. ASSUME Crlf(p, n) PROVE Cardinality(S) # Cardinality(T)
  BY <1>3, <1>4, <1>6, FS_Subset
<1> QED
  BY <1>2, <1>3, <1>5, <1>6 DEF S, T

LEMMA WaitReqRequest == ASSUME BaseInv, RequestInv, WaitReq PROVE RequestInv'
<1> SUFFICES ASSUME faults' = 0 PROVE StreamInv'
  BY DEF RequestInv
<1>1. /\ pc = "wait_req" /\ wait_state' = "wait_req"
      /\ UNCHANGED <<rest, header_cnt, post, post_full_length, body_type, body_length, fatal>>
  BY DEF WaitReq, body
<1>2. /\ faults \in Nat /\ Safe /\ HeadInv /\ next_line \in Nat
      /\ next_line = 0 /\ ReadingHead /\ (pc' \in {"idle", "wait_req", "wait_hdr"} => ReadingHead')
  BY <1>1 DEF BaseInv, Safe, TypeOK, HeadInv, ReadingHead
<1>3. Stream' = Stream
  BY <1>1 DEF Stream
<1>4. CASE NoCrlf /\ Return("cannot_find_clrf") /\ UNCHANGED <<cursor, http_request, faults>>
  <2>1. StreamInv /\ pc' = "idle" /\ next_line' = next_line /\ http_request' = http_request
    BY <1>4 DEF RequestInv, Return, cursor
  <2>2. ReadingHead' /\ HeadSoFar' = HeadSoFar /\ CountInv'
    BY <1>1, <1>2, <1>3, <2>1 DEF HeadSoFar, CountInv
  <2> QED
    BY <1>1, <1>2, <1>3, <2>1, <2>2 DEF StreamInv
<1>5. ASSUME NEW k \in SearchRange, NEW mem \in Allocation, AdvanceTo(k), Count(mem),
             http_request' = ParseRequestLine(http_request, Line(k), mem), pc' = "wait_hdr"
      PROVE  StreamInv'
  <2>1. mem = TRUE /\ faults = 0
    BY <1>2, <1>5, AllocationType DEF Count
  <2>2. StreamInv /\ HeadSoFar /\ http_request = NewRequest /\ body_type = "unset"
    BY <1>2, <2>1 DEF RequestInv, StreamInv, HeadSoFar
  <2>3. FirstCrlf(post, 0, k) /\ next_line' = k + 2 /\ Line(k) = SubSeq(post, 0 + 1, k)
    BY <1>2, <1>5 DEF AdvanceTo, Line
  <2>4. /\ Stream \in Seq(STRING) /\ k \in Nat
        /\ FirstCrlf(Stream, 0, k) /\ Line(k) = SubSeq(Stream, 1, k)
    BY <1>2, <2>3, LineInStream
  <2>5. /\ RequestIs(http_request', Stream, k + 2, <<>>)
        /\ BodyIs(body_type, body_length, Stream, k + 2)
    BY <1>5, <2>1, <2>2, <2>4, RequestLineRead
  <2>6. HeadSoFar'
    BY <1>1, <1>3, <2>3, <2>4, <2>5 DEF HeadSoFar
  <2>7. CountInv'
    <3>1. header_cnt = 1
      BY <1>1, <2>2 DEF StreamInv, CountInv
    <3>2. k \in Stops(Stream, k + 2)
      BY <2>4, FirstStarts
    <3>3. k + 2 \in Nat
      BY <2>4
    <3>4. IsFiniteSet(Stops(Stream, k + 2)) /\ Cardinality(Stops(Stream, k + 2)) \in Nat
      BY <2>4, <3>3, LineEnds, Zenon
    <3>5. Cardinality(Stops(Stream, k + 2)) # 0
      BY <3>2, <3>4, FS_EmptySet
    <3> QED
      BY <1>1, <1>3, <1>5, <2>3, <3>1, <3>4, <3>5 DEF CountInv
  <2> QED
    BY <1>1, <1>2, <1>3, <1>5, <2>2, <2>6, <2>7 DEF StreamInv
<1> QED
  BY <1>4, <1>5 DEF WaitReq

\* A header line, pushed or passed over.
LEMMA HeaderLineRequest ==
    ASSUME AllPlain, BaseInv, RequestInv, WaitHdr, NEW k \in SearchRange, HeaderLine(k), faults' = 0
    PROVE  StreamInv'
<1>1. /\ pc = "wait_hdr" /\ wait_state' = "wait_hdr"
      /\ UNCHANGED <<rest, post, post_full_length, fatal>>
  BY DEF WaitHdr
<1>2. /\ faults \in Nat /\ header_cnt \in Int /\ Safe /\ HeadInv
      /\ next_line \in Nat /\ next_line # 0
  BY <1>1 DEF BaseInv, Safe, TypeOK, HeadInv
<1>3. ReadingHead
  BY <1>1 DEF ReadingHead
<1>4. PICK mem \in Allocation :
         /\ Count(mem)
         /\ \/ /\ ~mem
               /\ Return("malloc")
               /\ UNCHANGED <<header_cnt, http_request, body>>
            \/ /\ ParseHeaderLine(Line(k), mem)
               /\ header_cnt' = header_cnt + 1
               /\ UNCHANGED <<pc, ret>>
  BY DEF HeaderLine
<1>5. mem = TRUE /\ faults = 0
  BY <1>2, <1>4, AllocationType DEF Count
<1>6. /\ ParseHeaderLine(Line(k), TRUE) /\ header_cnt' = header_cnt + 1
      /\ pc' = "wait_hdr" /\ ReadingHead'
  BY <1>1, <1>4, <1>5 DEF ReadingHead
<1>7. StreamInv /\ Stream' = Stream
  BY <1>1, <1>5 DEF RequestInv, Stream
<1> DEFINE p == Stream
           n == next_line
<1>8. FirstCrlf(post, n, k) /\ next_line' = k + 2 /\ Line(k) = SubSeq(post, n + 1, k)
  BY DEF HeaderLine, AdvanceTo, Line
<1>9. /\ p \in Seq(STRING) /\ k \in Nat /\ n <= k /\ k <= Len(p)
      /\ FirstCrlf(p, n, k) /\ Line(k) = LineOf(p, n) /\ Line(k) = SubSeq(p, n + 1, k)
  <2>1. /\ p \in Seq(STRING) /\ k \in Nat /\ n <= k /\ k + 2 <= Len(post) /\ Len(post) <= Len(p)
        /\ FirstCrlf(p, n, k) /\ Line(k) = LineOf(p, n) /\ Line(k) = SubSeq(p, n + 1, k)
    BY <1>2, <1>8, LineInStream
  <2>2. Len(post) \in Nat /\ Len(p) \in Nat
    BY <1>2, <2>1 DEF Safe, TypeOK
  <2> QED
    BY <2>1, <2>2
<1>10. Crlf(p, n - 2)
  <2>1. Crlf(post, n - 2)
    BY <1>2, <1>3, <1>7 DEF HeadInv, StreamInv
  <2>2. n - 2 \in Nat /\ n - 2 <= Len(post) - 2
    BY <2>1 DEF Crlf
  <2>3. post \in Seq(STRING) /\ rest \in Seq(STRING)
    BY <1>2 DEF Safe, TypeOK
  <2> QED
    BY <2>1, <2>2, <2>3, CrlfGrows DEF Stream
<1>11. RequestIs(http_request, p, n, <<>>) /\ BodyIs(body_type, body_length, p, n)
  BY <1>2, <1>3, <1>7 DEF StreamInv, HeadSoFar
<1>12. CountInv'
  <2>1. header_cnt <= Cardinality(Stops(p, n))
    BY <1>1, <1>7 DEF StreamInv, CountInv
  <2>2. Stops(p, k + 2) = Stops(p, n) \union {k} /\ k \notin Stops(p, n)
    BY <1>2, <1>9, <1>10, NextStarts
  <2>3. IsFiniteSet(Stops(p, n)) /\ Cardinality(Stops(p, n)) \in Nat
    BY <1>2, <1>9, LineEnds, Zenon
  <2>4. Cardinality(Stops(p, k + 2)) = Cardinality(Stops(p, n)) + 1
    BY <2>2, <2>3, FS_AddElement
  <2>5. header_cnt + 1 <= Cardinality(Stops(p, k + 2))
    BY <1>2, <2>1, <2>3, <2>4
  <2> QED
    BY <1>6, <1>7, <1>8, <2>5 DEF CountInv
<1> DEFINE line == Line(k)
<1>13. Plain(p) => (DeclaresLength(line) => DeclaredLength(line) \in 0..SizeMod - 1 - Len(p))
  BY <1>2, <1>9, DeclaredRange
<1>14. /\ ~DeclaresLength(line) /\ ~DeclaresChunked(line) =>
             BodyIs(body_type, body_length, p, k + 2)
       /\ DeclaresLength(line) => BodyIs("fixed", DeclaredLength(line), p, k + 2)
       /\ ~DeclaresLength(line) /\ DeclaresChunked(line) =>
             BodyIs("chunked", body_length, p, k + 2)
  BY <1>2, <1>9, <1>10, <1>11, BodyRead
<1>15. HasColon(line) => RequestIs([http_request EXCEPT !.headers = Append(@, HeaderOf(line))],
                                   p, k + 2, <<>>)
  BY <1>2, <1>9, <1>10, <1>11, HeaderRead
<1>16. ~HasColon(line) => RequestIs(http_request, p, k + 2, <<>>)
  BY <1>2, <1>9, <1>10, <1>11, HeaderDropped
<1>17. Plain(p) /\ Len(p) \in Nat
  BY <1>7, <1>9, <1>7 DEF StreamInv, AllPlain
<1> DEFINE goal == /\ RequestIs(http_request', p, k + 2, <<>>)
                   /\ BodyIs(body_type', body_length', p, k + 2)
                   /\ body_type' = "fixed" => body_length' + Len(p) < SizeMod
<1>18. body_type = "fixed" => body_length + Len(p) < SizeMod
  BY <1>7 DEF StreamInv
<1> HIDE DEF n, p, line
<1>19. ASSUME ~HasColon(line) PROVE goal
  <2>1. UNCHANGED <<http_request, body_type, body_length>>
    BY <1>6, <1>19 DEF ParseHeaderLine, body, line
  <2>2. ~DeclaresLength(line) /\ ~DeclaresChunked(line)
    BY <1>19 DEF DeclaresLength, DeclaresChunked
  <2> QED
    BY <1>14, <1>16, <1>18, <1>19, <2>1, <2>2
<1>20. ASSUME HasColon(line) PROVE goal
  <2>1. /\ http_request' = [http_request EXCEPT !.headers = Append(@, HeaderOf(line))]
        /\ body_type' = BodyTypeAfter(line)
        /\ body_length' = IF DeclaresLength(line)
                          THEN SizeT(DeclaredLength(line)) ELSE body_length
    BY <1>6, <1>20 DEF ParseHeaderLine, line
  <2>2. RequestIs(http_request', p, k + 2, <<>>)
    BY <1>15, <1>20, <2>1
  <2>3. ASSUME DeclaresLength(line)
        PROVE  BodyIs(body_type', body_length', p, k + 2) /\ body_length' + Len(p) < SizeMod
    <3>1. DeclaredLength(line) \in 0..SizeMod - 1 - Len(p)
      BY <1>13, <1>17, <2>3
    <3>2. DeclaredLength(line) \in 0..SizeMod - 1
      BY <1>17, <3>1, SizeModAssumption
    <3>3. body_length' = DeclaredLength(line) /\ body_type' = "fixed"
      BY <2>1, <2>3, <3>2, SmallMod DEF SizeT, BodyTypeAfter
    <3> QED
      BY <1>14, <1>17, <2>3, <3>1, <3>3, SizeModAssumption
  <2>4. ASSUME ~DeclaresLength(line), DeclaresChunked(line)
        PROVE  BodyIs(body_type', body_length', p, k + 2) /\ body_type' = "chunked"
    <3>1. body_type' = "chunked" /\ body_length' = body_length
      BY <2>1, <2>4 DEF BodyTypeAfter
    <3> QED
      BY <1>14, <2>4, <3>1
  <2>5. ASSUME ~DeclaresLength(line), ~DeclaresChunked(line)
        PROVE  BodyIs(body_type', body_length', p, k + 2) /\ body_type' = body_type
                   /\ body_length' = body_length
    <3>1. body_type' = body_type /\ body_length' = body_length
      BY <2>1, <2>5 DEF BodyTypeAfter
    <3> QED
      BY <1>14, <2>5, <3>1
  <2> QED
    BY <1>18, <2>2, <2>3, <2>4, <2>5
<1>21. goal
  BY <1>19, <1>20
<1>22. k + 2 # 0
  BY <1>9
<1>23. HeadSoFar'
  BY <1>7, <1>8, <1>21, <1>22 DEF HeadSoFar, p
<1> QED
  BY <1>1, <1>6, <1>7, <1>12, <1>21, <1>23 DEF StreamInv, p

LEMMA EmptyView == ASSUME NEW p \in Seq(STRING), NEW pos \in Nat PROVE View(p, pos, 0) = <<>>
<1>1. SubSeq(p, pos + 1, pos) = <<>>
  OBVIOUS
<1>2. CASE pos >= Len(p)
  BY <1>2 DEF View
<1>3. CASE ~(pos >= Len(p)) /\ 0 < Len(p) - pos
  BY <1>1, <1>3 DEF View
<1>4. CASE ~(pos >= Len(p)) /\ ~(0 < Len(p) - pos)
  BY <1>4 DEF View
<1> QED
  BY <1>2, <1>3, <1>4

\* The empty line, or a loop that is left at its limit: which it never is.
LEMMA LoopLeftRequest ==
    ASSUME AllPlain, BaseInv, RequestInv, pc = "wait_hdr", faults' = 0, UNCHANGED faults
    PROVE  /\ header_cnt <= HeaderLimit
           /\ \A k \in SearchRange :
                 WaitHdr /\ BlankLine(k) => StreamInv'
<1>1. /\ faults = 0 /\ header_cnt \in Int /\ Safe /\ HeadInv
      /\ next_line \in Nat /\ next_line # 0 /\ ReadingHead /\ StreamInv
      /\ post \in Seq(STRING) /\ rest \in Seq(STRING) /\ next_line <= Len(post)
  BY DEF BaseInv, Safe, TypeOK, HeadInv, ReadingHead, RequestInv, CursorsInPost
<1> DEFINE p == Stream
           n == next_line
<1>2. p \in Seq(STRING) /\ Len(p) \in Nat /\ n <= Len(p)
  <2>1. p \in Seq(STRING) /\ Len(p) = Len(post) + Len(rest) /\ Len(rest) \in Nat
    BY <1>1 DEF Stream
  <2> QED
    BY <1>1, <2>1
<1>3. Plain(p) /\ ~fatal
  BY <1>1 DEF StreamInv, AllPlain
<1>4. Cardinality(Stops(p, n)) \in Nat
  BY <1>1, <1>2, LineEnds, Zenon
<1>5. /\ header_cnt <= Cardinality(Stops(p, n))
      /\ Cardinality(HeadStops(p)) <= HeaderLimit
  BY <1>1, <1>3 DEF StreamInv, CountInv, Plain
<1>9. \A j \in Nat : j <= Len(post) - 2 => (Crlf(p, j) <=> Crlf(post, j))
  BY <1>1, CrlfGrows DEF Stream
<1>10. Crlf(post, n - 2) /\ n >= 2 /\ Crlf(p, n - 2)
  <2>1. Crlf(post, n - 2) /\ n - 2 \in Nat /\ n - 2 <= Len(post) - 2
    BY <1>1, <1>3 DEF HeadInv, Crlf
  <2> QED
    BY <1>1, <1>9, <2>1
<1>11. ASSUME NEW j \in Nat, j >= 2, Crlf(p, j), Crlf(p, j - 2) PROVE j >= n
  <2>1. CASE j <= Len(post) - 2
    <3>1. j - 2 \in Nat /\ j - 2 <= Len(post) - 2
      BY <1>1, <1>11, <2>1
    <3>2. EmptyLine(j)
      BY <1>9, <1>11, <2>1, <3>1 DEF EmptyLine
    <3> QED
      BY <1>1, <1>3, <3>2 DEF HeadInv
  <2>2. CASE ~(j <= Len(post) - 2)
    <3>1. ~Crlf(p, (n - 2) + 1) /\ (n - 2) + 1 = n - 1
      BY <1>1, <1>10, NoOverlap
    <3>2. Len(post) \in Nat /\ j # n - 1
      BY <1>1, <1>11, <3>1
    <3> QED
      BY <1>1, <2>2, <3>2
  <2> QED
    BY <2>1, <2>2
<1>6. /\ Cardinality(HeadStops(p)) \in Nat
      /\ Cardinality(Stops(p, n)) <= Cardinality(HeadStops(p))
      /\ Crlf(p, n) => Cardinality(Stops(p, n)) < Cardinality(HeadStops(p))
  BY <1>1, <1>2, <1>11, StopsGrow
<1>7. header_cnt <= HeaderLimit /\ (Crlf(p, n) => header_cnt < HeaderLimit)
  BY <1>1, <1>4, <1>5, <1>6, HeaderLimitAssumption
<1>8. ASSUME NEW k \in SearchRange, WaitHdr, BlankLine(k) PROVE StreamInv'
  <2>1. /\ wait_state' = "wait_hdr" /\ pc' = "hdr_done" /\ cur' = n + 2 /\ next_line' = n + 2
        /\ FirstCrlf(post, n, k) /\ k = n
        /\ UNCHANGED <<rest, post, post_full_length, fatal, header_cnt, http_request,
                       body_type, body_length>>
    BY <1>8 DEF WaitHdr, BlankLine, body
  <2>2. Stream' = Stream /\ ~ReadingHead'
    BY <2>1 DEF Stream, ReadingHead
  <2>3. k \in Nat /\ k + 2 <= Len(post) /\ FirstCrlf(p, n, k)
    BY <1>1, <2>1, LineInStream
  <2>4. Crlf(p, n) /\ header_cnt < HeaderLimit
    BY <1>7, <2>1, <2>3 DEF FirstCrlf
  <2>7. HeadEndsAt(p, n)
    BY <1>10, <1>11, <2>4 DEF HeadEndsAt
  <2>8. RequestIs(http_request, p, n, <<>>) /\ BodyIs(body_type, body_length, p, n)
    BY <1>1 DEF StreamInv, HeadSoFar
  <2>9. (n + 2) - 2 = n
    BY <1>1
  <2>10. HeadWhole'
    <3>1. ~Finished'
      BY <2>1 DEF Finished
    <3> HIDE DEF p, n
    <3>2. cur' - 2 = n /\ next_line' = cur' /\ n \in Nat /\ Stream' = p
      BY <1>1, <2>1, <2>2, <2>9 DEF p, n
    <3> QED
      BY <2>1, <2>7, <2>8, <3>1, <3>2 DEF HeadWhole
  <2>11. CountInv'
    BY <2>1, <2>4 DEF CountInv
  <2> QED
    BY <1>1, <2>1, <2>2, <2>10, <2>11 DEF StreamInv
<1> QED
  BY <1>7, <1>8

LEMMA WaitHdrRequest == ASSUME AllPlain, BaseInv, RequestInv, WaitHdr PROVE RequestInv'
<1> SUFFICES ASSUME faults' = 0 PROVE StreamInv'
  BY DEF RequestInv
<1>1. pc = "wait_hdr" /\ wait_state' = "wait_hdr"
      /\ UNCHANGED <<rest, post, post_full_length, fatal>>
  BY DEF WaitHdr
<1>2. CASE NoCrlf /\ Return("cannot_find_clrf")
           /\ UNCHANGED <<header_cnt, cursor, http_request, body, faults>>
  <2>1. /\ StreamInv /\ pc' = "idle"
        /\ UNCHANGED <<next_line, http_request, body_type, body_length>>
    BY <1>2 DEF RequestInv, Return, cursor, body
  <2>2. ReadingHead /\ ReadingHead' /\ Stream' = Stream /\ CountInv'
    BY <1>1, <2>1 DEF ReadingHead, Stream, CountInv
  <2>3. HeadSoFar' <=> HeadSoFar
    BY <2>1, <2>2 DEF HeadSoFar
  <2> QED
    BY <1>1, <2>1, <2>2, <2>3 DEF StreamInv
<1>3. ASSUME NEW k \in SearchRange, HeaderLine(k) PROVE StreamInv'
  BY <1>3, HeaderLineRequest
<1>4. ASSUME NEW k \in SearchRange, BlankLine(k) PROVE StreamInv'
  BY <1>1, <1>4, LoopLeftRequest DEF BlankLine
<1>5. CASE header_cnt > HeaderLimit /\ UNCHANGED faults
  <2>1. header_cnt <= HeaderLimit /\ header_cnt \in Int
    BY <1>1, <1>5, LoopLeftRequest DEF BaseInv, Safe, TypeOK
  <2> QED
    BY <1>5, <2>1, HeaderLimitAssumption
<1> QED
  BY <1>2, <1>3, <1>4, <1>5 DEF WaitHdr

LEMMA HdrDoneRequest == ASSUME BaseInv, RequestInv, HdrDone PROVE RequestInv'
<1> SUFFICES ASSUME faults' = 0 PROVE StreamInv'
  BY DEF RequestInv
<1>1. /\ pc = "hdr_done"
      /\ UNCHANGED <<rest, header_cnt, wait_state, post, cur, next_line, body_type,
                     body_length, http_request, faults>>
  BY DEF HdrDone, cursor, body
<1>2. StreamInv /\ header_cnt < HeaderLimit /\ header_cnt \in Int
  BY <1>1 DEF RequestInv, StreamInv, CountInv, BaseInv, Safe, TypeOK
<1>3. header_cnt # HeaderLimit
  BY <1>2, HeaderLimitAssumption
<1>4. /\ body_type = "unset" => pc' = "end" /\ post_full_length' = next_line
      /\ body_type = "fixed" => pc' = "wait_fix_body"
      /\ body_type = "chunked" => pc' = "wait_clen"
      /\ UNCHANGED fatal
  BY <1>3 DEF HdrDone, HeadOnlyLength
<1>5. body_type \in {"unset", "fixed", "chunked"} /\ wait_state = "wait_hdr"
      /\ next_line \in Nat /\ cur \in Nat
  BY <1>1 DEF BaseInv, Safe, TypeOK, SplitInv
<1>6. ~ReadingHead /\ ~ReadingHead' /\ ~Finished /\ Stream' = Stream
  BY <1>1, <1>4, <1>5 DEF ReadingHead, Finished, Stream
<1>7. HeadWhole /\ next_line = cur /\ RequestIs(http_request, Stream, cur - 2, <<>>)
  BY <1>2, <1>6 DEF StreamInv, HeadWhole
<1>8. HeadWhole'
  <2>1. CASE body_type = "unset"
    <3>1. Finished' /\ BodyLen = 0 /\ BodyLen' = 0
      BY <1>1, <1>4, <2>1 DEF Finished, BodyLen
    <3>2. View(Stream, cur, 0) = <<>>
      <4>1. Stream \in Seq(STRING)
        BY DEF BaseInv, Safe, TypeOK, Stream
      <4> QED
        BY <1>5, <4>1, EmptyView
    <3> QED
      BY <1>1, <1>5, <1>6, <1>7, <3>1, <3>2 DEF HeadWhole
  <2>2. CASE body_type # "unset"
    <3>1. ~Finished'
      BY <1>1, <1>4, <1>5, <2>2 DEF Finished
    <3> QED
      BY <1>1, <1>6, <1>7, <3>1 DEF HeadWhole
  <2> QED
    BY <2>1, <2>2
<1>9. CountInv'
  BY <1>4, <1>5 DEF CountInv
<1> QED
  BY <1>1, <1>2, <1>4, <1>5, <1>6, <1>8, <1>9 DEF StreamInv

\* A part of what has been received is a part of the stream.
LEMMA ViewOfPart ==
    ASSUME NEW a \in Seq(STRING), NEW b \in Seq(STRING), NEW pos \in Nat, NEW len \in Nat,
           pos + len <= Len(a)
    PROVE  View(a \o b, pos, len) = View(a, pos, len)
<1>1. /\ a \o b \in Seq(STRING) /\ Len(a \o b) = Len(a) + Len(b)
      /\ Len(a) \in Nat /\ Len(b) \in Nat
  OBVIOUS
<1>2. CASE len = 0
  BY <1>1, <1>2, EmptyView
<1>3. CASE len # 0
  <2>1. pos < Len(a) /\ pos < Len(a \o b)
    BY <1>1, <1>3
  <2>2. /\ View(a, pos, len) = SubSeq(a, pos + 1, pos + len)
        /\ View(a \o b, pos, len) = SubSeq(a \o b, pos + 1, pos + len)
    <3>1. pos + len <= Len(a \o b)
      BY <1>1
    <3>2. ASSUME NEW c \in Seq(STRING), pos < Len(c), pos + len <= Len(c)
          PROVE  View(c, pos, len) = SubSeq(c, pos + 1, pos + len)
      <4>1. CASE len < Len(c) - pos
        BY <3>2, <4>1 DEF View
      <4>2. CASE len = Len(c) - pos
        BY <3>2, <4>2 DEF View
      <4> QED
        BY <3>2, <4>1, <4>2
    <3> QED
      BY <1>1, <2>1, <3>1, <3>2
  <2>3. ASSUME NEW i \in 1..len PROVE (a \o b)[pos + i] = a[pos + i]
    <3>1. \A j \in 1..Len(a) : (a \o b)[j] = a[j]
      OBVIOUS
    <3>2. pos + i \in 1..Len(a)
      BY <1>1
    <3> QED
      BY <3>1, <3>2
  <2>4. /\ SubSeq(a \o b, pos + 1, pos + len) = [i \in 1..len |-> (a \o b)[pos + i]]
        /\ SubSeq(a, pos + 1, pos + len) = [i \in 1..len |-> a[pos + i]]
    BY <1>1
  <2> QED
    BY <2>2, <2>3, <2>4
<1> QED
  BY <1>2, <1>3

LEMMA BodyTaken ==
    ASSUME NEW r, NEW p, NEW n, NEW b, RequestIs(r, p, n, <<>>)
    PROVE  RequestIs([r EXCEPT !.body = b], p, n, b)
<1>1. PICK q : Lists(q, ColonStarts(p, n)) /\ r = Parsed(FirstLine(p), HeadersOf(p, q), <<>>)
  BY DEF RequestIs
<1> DEFINE l == FirstLine(p)
           h == HeadersOf(p, q)
<1> HIDE DEF l, h
<1>2. [Parsed(l, h, <<>>) EXCEPT !.body = b] = Parsed(l, h, b)
  BY DEF Parsed
<1>3. [r EXCEPT !.body = b] = Parsed(l, h, b)
  BY <1>1, <1>2, Zenon DEF l, h
<1> QED
  BY <1>1, <1>3 DEF RequestIs, l, h

LEMMA WaitFixBodyRequest == ASSUME BaseInv, RequestInv, WaitFixBody PROVE RequestInv'
<1> SUFFICES ASSUME faults' = 0 PROVE StreamInv'
  BY DEF RequestInv
<1>1. /\ pc = "wait_fix_body" /\ wait_state' = "wait_fix_body"
      /\ post_full_length' = FullLength
      /\ UNCHANGED <<rest, header_cnt, post, cur, body_type, body_length, fatal>>
  BY DEF WaitFixBody, body
<1>2. /\ faults \in Nat /\ cur \in Nat /\ body_length \in Nat /\ wait_state # "end"
      /\ post \in Seq(STRING) /\ rest \in Seq(STRING) /\ cur <= Len(post)
  BY <1>1 DEF BaseInv, Safe, TypeOK, CursorsInPost, BodyInv
<1>3. ~ReadingHead /\ ~ReadingHead' /\ ~Finished /\ Stream' = Stream
  BY <1>1, <1>2 DEF ReadingHead, Finished, Stream, WaitFixBody, Return
<1>4. CASE BodyMissing
  <2>1. pc' = "idle" /\ UNCHANGED <<next_line, http_request, faults>>
    BY <1>4 DEF WaitFixBody, Return
  <2>2. StreamInv
    BY <2>1 DEF RequestInv
  <2>3. ~Finished' /\ CountInv'
    BY <1>1, <2>1 DEF Finished, CountInv
  <2>4. HeadWhole'
    BY <1>1, <1>3, <2>1, <2>2, <2>3 DEF HeadWhole, StreamInv
  <2> QED
    BY <1>1, <1>3, <2>1, <2>2, <2>3, <2>4 DEF StreamInv
<1>5. CASE ~BodyMissing
  <2>1. PICK mem \in Allocation :
           /\ Count(mem)
           /\ IF mem THEN /\ http_request' = [http_request EXCEPT !.body = BodyView]
                          /\ pc' = "end"
                          /\ UNCHANGED ret
                     ELSE Return("malloc") /\ UNCHANGED http_request
    BY <1>5 DEF WaitFixBody
  <2>2. mem = TRUE /\ faults = 0
    BY <1>2, <2>1, AllocationType DEF Count
  <2>3. /\ http_request' = [http_request EXCEPT !.body = BodyView] /\ pc' = "end"
        /\ next_line' = FullLength
    BY <1>5, <2>1, <2>2 DEF WaitFixBody
  <2>4. /\ StreamInv /\ HeadWhole /\ body_type = "fixed"
        /\ body_length + Len(Stream) < SizeMod
    BY <1>1, <1>3, <2>2 DEF RequestInv, StreamInv
  <2>5. Len(post) <= Len(Stream) /\ Len(Stream) \in Nat /\ Len(post) \in Nat
    BY <1>2 DEF Stream
  <2>6. FullLength = cur + body_length /\ (FullLength - cur) % SizeMod = body_length
    <3>1. cur + body_length \in 0..SizeMod - 1 /\ body_length \in 0..SizeMod - 1
      BY <1>2, <2>4, <2>5, SizeModAssumption
    <3>2. FullLength = cur + body_length
      BY <3>1, SmallMod DEF FullLength
    <3>3. FullLength - cur = body_length
      BY <1>2, <3>2
    <3> QED
      BY <3>1, <3>2, <3>3, SmallMod
  <2>7. cur + body_length <= Len(post)
    BY <1>2, <1>5, <2>5, <2>6 DEF BodyMissing
  <2>8. BodyView = View(Stream, cur, body_length)
    BY <1>2, <2>6, <2>7, ViewOfPart DEF BodyView, Stream
  <2>9. RequestIs(http_request', Stream, cur - 2, View(Stream, cur, body_length))
    BY <1>3, <2>3, <2>4, <2>8, BodyTaken DEF HeadWhole
  <2>10. Finished' /\ BodyLen' = body_length
    BY <1>1, <2>3, <2>4 DEF Finished, BodyLen
  <2>11. HeadWhole'
    BY <1>1, <1>3, <2>3, <2>4, <2>6, <2>9, <2>10 DEF HeadWhole
  <2>12. CountInv'
    BY <2>3 DEF CountInv
  <2> QED
    BY <1>1, <1>3, <2>3, <2>4, <2>11, <2>12 DEF StreamInv
<1> QED
  BY <1>4, <1>5

LEMMA OtherRequest ==
    ASSUME BaseInv, RequestInv,
           WaitClen \/ WaitCval \/ End \/ Pop \/ Destroy \/ UNCHANGED vars
    PROVE  RequestInv'
<1> SUFFICES ASSUME faults' = 0 PROVE StreamInv'
  BY DEF RequestInv
<1>1. UNCHANGED <<rest, header_cnt, post, post_full_length, cur, next_line, body_type,
                  body_length, http_request, faults, fatal>>
  BY DEF WaitClen, WaitCval, End, Pop, Destroy, vars, cursor, body, history, feed
<1>2. StreamInv /\ Stream' = Stream /\ BodyLen' = BodyLen
  BY <1>1 DEF RequestInv, Stream, BodyLen
<1>3. /\ body_type \in {"unset", "fixed", "chunked"} /\ cur \in Nat /\ next_line \in Nat
      /\ Stream \in Seq(STRING)
  BY DEF BaseInv, Safe, TypeOK, Stream
<1>4. CASE WaitClen \/ End \/ Pop \/ Destroy \/ UNCHANGED vars
  <2>1. (ReadingHead' <=> ReadingHead) /\ (Finished' <=> Finished)
    <3>1. wait_state = "end" => pc = "idle"
      BY DEF BaseInv, BodyInv
    <3>2. \/ pc = "wait_clen" /\ pc' = "wait_cval" /\ wait_state' = "wait_clen"
          \/ pc = "end" /\ pc' = "idle" /\ wait_state' = "end"
          \/ UNCHANGED <<pc, wait_state>>
      BY <1>4 DEF WaitClen, End, Pop, Destroy, vars, feed, Return
    <3> QED
      BY <3>1, <3>2 DEF ReadingHead, Finished
  <2>2. (HeadSoFar' <=> HeadSoFar) /\ (HeadWhole' <=> HeadWhole)
    BY <1>1, <1>2, <2>1 DEF HeadSoFar, HeadWhole
  <2>3. CountInv'
    BY <1>1, <1>2, <1>4 DEF WaitClen, End, Pop, Destroy, vars, feed, Return, StreamInv, CountInv
  <2>4. /\ pc' = "wait_fix_body" => pc = "wait_fix_body"
        /\ pc' = "idle" /\ wait_state' = "wait_fix_body" =>
              pc = "idle" /\ wait_state = "wait_fix_body"
        /\ pc' = "end" => pc = "end"
    BY <1>4 DEF WaitClen, End, Pop, Destroy, vars, feed, Return
  <2> QED
    BY <1>1, <1>2, <2>1, <2>2, <2>3, <2>4 DEF StreamInv
<1>5. CASE WaitCval
  <2>1. /\ pc = "wait_cval" /\ pc' = "end" /\ wait_state # "end" /\ body_type = "chunked"
    BY <1>5 DEF WaitCval, BaseInv, BodyInv
  <2>2. ~ReadingHead /\ ~ReadingHead' /\ ~Finished /\ Finished' /\ BodyLen = 0
    BY <2>1 DEF ReadingHead, Finished, BodyLen
  <2>3. View(Stream, cur, 0) = <<>>
    BY <1>3, EmptyView
  <2>4. HeadWhole'
    BY <1>1, <1>2, <1>3, <2>2, <2>3 DEF StreamInv, HeadWhole
  <2>5. CountInv'
    BY <2>1 DEF CountInv
  <2> QED
    BY <1>1, <1>2, <2>1, <2>2, <2>4, <2>5 DEF StreamInv
<1> QED
  BY <1>4, <1>5

LEMMA NextRequestInv ==
    ASSUME AllPlain PROVE BaseInv /\ RequestInv /\ [Next]_vars => RequestInv'
<1> SUFFICES ASSUME BaseInv, RequestInv, [Next]_vars PROVE RequestInv'
  OBVIOUS
<1>1. ASSUME NEW n \in 0..Len(rest), Feed(n) PROVE RequestInv'
  BY <1>1, FeedRequest
<1>2. CASE WaitReq
  BY <1>2, WaitReqRequest
<1>3. CASE WaitHdr
  BY <1>3, WaitHdrRequest
<1>4. CASE HdrDone
  BY <1>4, HdrDoneRequest
<1>5. CASE WaitFixBody
  BY <1>5, WaitFixBodyRequest
<1>6. CASE WaitClen \/ WaitCval \/ End \/ Pop \/ Destroy \/ UNCHANGED vars
  BY <1>6, OtherRequest
<1> QED
  BY <1>1, <1>2, <1>3, <1>4, <1>5, <1>6 DEF Next, Parse, Stopped

LEMMA InitBaseInv == Init => BaseInv
<1> SUFFICES ASSUME Init PROVE BaseInv
  OBVIOUS
<1>1. SplitInv
  BY DEF Init, SplitInv, ReadingHead
<1>2. HeadInv
  BY DEF Init, HeadInv, ReadingHead, EmptyLine, Crlf
<1>3. BodyInv
  BY DEF Init, BodyInv, NewRequest
<1> QED
  BY <1>1, <1>2, <1>3, InitSafe DEF BaseInv

LEMMA NextBaseInv == BaseInv /\ [Next]_vars => BaseInv'
  BY NextSafe, NextSplitInv, NextHeadInv, NextBodyInv DEF BaseInv

\* The assertions of http_parse_feed follow from what the parser has read.
LEMMA AssertionsFollow == BaseInv /\ RequestInv => AssertionsHold
<1> SUFFICES ASSUME BaseInv, RequestInv, faults = 0, pc \in {"wait_fix_body", "end"},
                    Request!ExactlyOne(Stream)
             PROVE  /\ pc = "wait_fix_body" /\ ~BodyMissing => BodyViewWhole
                    /\ pc = "end" => EndConsistent /\ PostConsumed
  BY DEF AssertionsHold, Stream
<1>1. StreamInv /\ ~ReadingHead /\ HeadWhole
  BY DEF RequestInv, StreamInv, ReadingHead
<1>2. /\ Safe /\ cur \in Nat /\ body_length \in Nat /\ next_line \in Nat
      /\ post \in Seq(STRING) /\ rest \in Seq(STRING)
      /\ cur <= Len(post) /\ next_line <= Len(post)
      /\ body_type \in {"unset", "fixed", "chunked"}
  BY DEF BaseInv, Safe, TypeOK, CursorsInPost
<1>3. /\ Stream \in Seq(STRING) /\ Len(post) <= Len(Stream)
      /\ Len(Stream) \in Nat /\ Len(post) \in Nat
  BY <1>2 DEF Stream
<1>4. ASSUME pc = "wait_fix_body", ~BodyMissing PROVE BodyViewWhole
  <2>1. body_length + Len(Stream) < SizeMod
    BY <1>1, <1>4 DEF StreamInv
  <2>2. cur + body_length < SizeMod
    BY <1>2, <1>3, <2>1, SizeModAssumption
  <2> QED
    BY <1>2, <1>4, <2>2, BodyViewLength DEF BodyViewWhole
<1>5. ASSUME pc = "end" PROVE EndConsistent /\ PostConsumed
  <2>1. /\ cur - 2 \in Nat /\ HeadEndsAt(Stream, cur - 2)
        /\ BodyIs(body_type, body_length, Stream, cur - 2)
        /\ next_line = cur + BodyLen
    BY <1>1, <1>5 DEF HeadWhole, Finished
  <2>2. body_type # "chunked" /\ Request!BodyLength(Stream) = BodyLen
    BY <1>3, <2>1, BodyLengthIs DEF BodyLen
  <2>3. Request!HeadLength(Stream) = cur
    <3>1. Request!HeadLength(Stream) = (cur - 2) + 2
      BY <1>3, <2>1, HeadIs DEF HeadEndsAt
    <3> QED
      BY <1>2, <3>1
  <2>4. Len(Stream) = cur + BodyLen
    BY <2>2, <2>3 DEF Request!ExactlyOne
  <2>5. next_line = Len(post)
    BY <1>2, <1>3, <2>1, <2>4
  <2>6. post_full_length = next_line
    BY <1>1, <1>5, <2>2 DEF StreamInv
  <2> QED
    BY <2>5, <2>6 DEF EndConsistent, PostConsumed
<1> QED
  BY <1>4, <1>5

\* The assertions of lines 167, 182 and 198 never fail: on a connection that
\* carries one request whose head is within the limit of the header loop and
\* whose length is a size, the view of the body is as long as declared and the
\* request ends with post, however the stream is cut.
THEOREM AssertionsAlwaysHold ==
    ASSUME \A s \in Streams : Plain(s)
    PROVE  Spec => []AssertionsHold
<1>1. BaseInv /\ RequestInv /\ [Next]_vars => RequestInv'
  BY NextRequestInv DEF AllPlain
<1> QED
  BY InitBaseInv, NextBaseInv, InitRequestInv, <1>1, AssertionsFollow, PTL DEF Spec

-----------------------------------------------------------------------------
(* The refinement.                                                         *)

NoFaults == faults = 0

LEMMA NextNoFaults == ASSUME MaxFaults = 0 PROVE NoFaults /\ [Next]_vars => NoFaults'
<1> SUFFICES ASSUME faults = 0, [Next]_vars PROVE faults' = 0
  BY DEF NoFaults
<1>1. Allocation = {TRUE}
  BY DEF Allocation
<1>2. \A mem \in Allocation : Count(mem) => faults' = 0
  BY <1>1 DEF Count
<1>3. ASSUME NEW n \in 0..Len(rest), Feed(n) PROVE faults' = 0
  BY <1>2, <1>3 DEF Feed
<1>4. CASE WaitReq
  BY <1>2, <1>4 DEF WaitReq
<1>5. CASE WaitHdr
  BY <1>2, <1>5 DEF WaitHdr, HeaderLine, BlankLine
<1>6. CASE WaitFixBody
  BY <1>2, <1>6 DEF WaitFixBody
<1>7. CASE HdrDone \/ WaitClen \/ WaitCval \/ End \/ Pop \/ Destroy \/ UNCHANGED vars
  BY <1>7 DEF HdrDone, WaitClen, WaitCval, End, Pop, Destroy, vars, history
<1> QED
  BY <1>3, <1>4, <1>5, <1>6, <1>7 DEF Next, Parse, Stopped

\* What End delivers is the request of the text that has been received.
LEMMA EndDelivers ==
    ASSUME BaseInv, StreamInv, pc = "end"
    PROVE  Request!Whole(post) /\ http_request = Request!RequestOf(post)
<1>1. /\ post \in Seq(STRING) /\ rest \in Seq(STRING) /\ cur \in Nat /\ next_line \in Nat
      /\ body_length \in Nat /\ cur <= Len(post) /\ next_line <= Len(post)
  BY DEF BaseInv, Safe, TypeOK, CursorsInPost
<1>2. ~ReadingHead /\ Finished
  BY DEF ReadingHead, Finished
<1>3. /\ cur - 2 \in Nat /\ HeadEndsAt(Stream, cur - 2)
      /\ BodyIs(body_type, body_length, Stream, cur - 2)
      /\ next_line = cur + BodyLen
      /\ RequestIs(http_request, Stream, cur - 2, View(Stream, cur, BodyLen))
  BY <1>2 DEF StreamInv, HeadWhole
<1>4. BodyLen \in Nat /\ (cur - 2) + 2 = cur /\ Len(post) \in Nat
  BY <1>1 DEF BodyLen
<1>5. HeadEndsAt(post, cur - 2)
  BY <1>1, <1>3, <1>4, HeadOfPart DEF Stream
<1>6. /\ RequestIs(http_request, post, cur - 2, View(Stream, cur, BodyLen))
      /\ BodyIs(body_type, body_length, post, cur - 2)
  BY <1>1, <1>3, <1>4, ReadOfPart DEF Stream
<1>7. View(Stream, cur, BodyLen) = View(post, cur, BodyLen)
  BY <1>1, <1>3, <1>4, ViewOfPart DEF Stream
<1>8. Request!BodyLength(post) = BodyLen
  BY <1>1, <1>3, <1>5, <1>6, BodyLengthIs DEF BodyLen
<1>9. Request!HasHead(post) /\ Request!HeadLength(post) = cur
  BY <1>1, <1>3, <1>4, <1>5, HeadIs DEF HeadEndsAt
<1>10. Request!Whole(post)
  BY <1>1, <1>3, <1>8, <1>9 DEF Request!Whole
<1>11. RequestIs(http_request, post, cur - 2, View(post, (cur - 2) + 2, Request!BodyLength(post)))
  BY <1>4, <1>6, <1>7, <1>8
<1> QED
  BY <1>1, <1>3, <1>5, <1>10, <1>11, RequestOfIs

\* Only headers that are there can dangle, no header is there before a byte has
\* come, and it takes a second segment, or the end of the context, to lose one.
DangleInv ==
    /\ dangling <= Len(http_request.headers)
    /\ post = <<>> => Len(http_request.headers) = 0
    /\ pc # "idle" => alive
    /\ alive /\ ~cut => dangling = 0

LEMMA NextDangleInv == Safe /\ DangleInv /\ [Next]_vars => DangleInv'
<1> SUFFICES ASSUME Safe, DangleInv, [Next]_vars PROVE DangleInv'
  OBVIOUS
<1>0. /\ HeadersListed /\ HeadersListed' /\ dangling \in Nat
      /\ Len(http_request.headers) \in Nat
  BY NextHeadersListed DEF Safe, TypeOK, HeadersListed
<1>1. ASSUME NEW n \in 0..Len(rest), Feed(n) PROVE DangleInv'
  <2>1. /\ alive /\ alive' /\ UNCHANGED http_request /\ cut' = (cut \/ post # <<>>)
        /\ LosePost \/ UNCHANGED dangling
    BY <1>1 DEF Feed, owner
  <2>2. post' = <<>> => post = <<>>
    <3>1. post \in Seq(STRING) /\ SubSeq(rest, 1, n) \in Seq(STRING)
      BY DEF Safe, TypeOK
    <3>2. post' = post \o SubSeq(rest, 1, n) \/ post' = post
      BY <1>1 DEF Feed
    <3> QED
      BY <3>1, <3>2
  <2>3. Len(http_request'.headers) = Len(http_request.headers) /\ (~cut' => ~cut /\ post = <<>>)
    BY <2>1
  <2>4. dangling' = Len(http_request.headers) \/ dangling' = dangling
    BY <2>1 DEF LosePost
  <2>5. ~cut' => dangling' = 0
    BY <1>0, <2>1, <2>3, <2>4 DEF DangleInv
  <2>6. dangling' <= Len(http_request'.headers)
    BY <1>0, <2>3, <2>4 DEF DangleInv
  <2> QED
    BY <2>1, <2>2, <2>3, <2>5, <2>6 DEF DangleInv
<1>2. ASSUME UNCHANGED <<post, dangling, alive, cut, http_request>>, pc = "idle" => pc' = "idle"
      PROVE  DangleInv'
  BY <1>2 DEF DangleInv
<1>3. CASE WaitReq
  <2>1. UNCHANGED <<post, dangling, alive, cut>> /\ pc # "idle"
    BY <1>3 DEF WaitReq, owner
  <2>2. UNCHANGED http_request.headers
    <3>1. ASSUME NEW k, NEW mem, http_request' = ParseRequestLine(http_request, Line(k), mem)
          PROVE  UNCHANGED http_request.headers
      BY <1>0, <3>1 DEF ParseRequestLine, HeadersListed
    <3> QED
      BY <1>3, <3>1 DEF WaitReq
  <2> QED
    BY <2>1, <2>2 DEF DangleInv
<1>4. CASE WaitHdr
  <2>1. UNCHANGED <<post, dangling, alive, cut>> /\ pc # "idle"
    BY <1>4 DEF WaitHdr, owner
  <2>2. ASSUME NEW k \in SearchRange, NEW mem, AdvanceTo(k), ParseHeaderLine(Line(k), mem)
        PROVE  DangleInv'
    <3> DEFINE h == HeaderOf(Line(k))
    <3>1. post # <<>>
      BY <2>2 DEF AdvanceTo, FirstCrlf, Crlf
    <3>2. CASE UNCHANGED http_request
      BY <2>1, <3>2 DEF DangleInv
    <3>3. CASE http_request' = [http_request EXCEPT !.headers = Append(@, h)]
      <4> HIDE DEF h
      <4>1. http_request'.headers = Append(http_request.headers, h)
        BY <1>0, <3>3 DEF HeadersListed
      <4>2. Len(http_request'.headers) = Len(http_request.headers) + 1
        BY <1>0, <4>1, ListGrows DEF HeadersListed
      <4> QED
        BY <1>0, <2>1, <3>1, <4>2 DEF DangleInv
    <3> QED
      BY <2>2, <3>2, <3>3 DEF ParseHeaderLine
  <2>3. CASE UNCHANGED http_request
    BY <1>2, <2>1, <2>3
  <2> QED
    BY <1>4, <2>2, <2>3 DEF WaitHdr, HeaderLine, BlankLine
<1>5. CASE WaitFixBody
  <2>1. UNCHANGED <<post, dangling, alive, cut>> /\ pc # "idle"
    BY <1>5 DEF WaitFixBody, owner
  <2>2. UNCHANGED http_request.headers
    <3>1. ASSUME NEW b, http_request' = [http_request EXCEPT !.body = b]
          PROVE  UNCHANGED http_request.headers
      BY <1>0, <3>1 DEF HeadersListed
    <3> QED
      BY <1>5, <3>1 DEF WaitFixBody
  <2> QED
    BY <2>1, <2>2 DEF DangleInv
<1>6. CASE HdrDone \/ WaitClen \/ WaitCval \/ End \/ UNCHANGED vars
  BY <1>2, <1>6 DEF HdrDone, WaitClen, WaitCval, End, vars, owner, history, feed
<1>7. CASE Pop \/ Destroy
  BY <1>0, <1>7 DEF Pop, Destroy, LosePost, feed, history, DangleInv
<1> QED
  BY <1>1, <1>3, <1>4, <1>5, <1>6, <1>7 DEF Next, Parse, Stopped

\* What is lost stays lost.
LEMMA LoseAgain ==
    ASSUME HeadersListed, NEW k \in Nat
    PROVE  LET lost == LoseFirst(http_request, k)
               n    == Len(http_request.headers)
           IN  /\ Len(lost.headers) = n
               /\ LoseFirst(lost, n) = LoseFirst(http_request, n)
<1> DEFINE r    == http_request
           q    == http_request.headers
           n    == Len(q)
           L(j) == [i \in 1..n |-> IF i <= j THEN LoseText(q[i]) ELSE q[i]]
<1>1. "headers" \in DOMAIN r /\ n \in Nat /\ DOMAIN q = 1..n
  BY DEF HeadersListed
<1>2. \A j : LoseFirst(r, j) = [r EXCEPT !.headers = L(j)]
  BY <1>1 DEF LoseFirst
<1>3. \A h : LoseText(LoseText(h)) = LoseText(h)
  <2>1. \A v : Lose(Lose(v)) = Lose(v)
    BY DEF Lose, Gone
  <2> QED
    BY <2>1 DEF LoseText
<1>4. LoseFirst(r, k).headers = L(k) /\ DOMAIN L(k) = 1..n /\ Len(L(k)) = n
  BY <1>1, <1>2
<1>5. [i \in 1..n |-> IF i <= n THEN LoseText(L(k)[i]) ELSE L(k)[i]] = L(n)
  BY <1>1, <1>3
<1>6. LoseFirst(LoseFirst(r, k), n) = [LoseFirst(r, k) EXCEPT !.headers = L(n)]
  BY <1>4, <1>5 DEF LoseFirst
<1> HIDE DEF L
<1>7. [LoseFirst(r, k) EXCEPT !.headers = L(n)] = [r EXCEPT !.headers = L(n)]
  BY <1>2
<1> QED
  BY <1>2, <1>4, <1>6, <1>7

LEMMA NextImplements ==
    BaseInv /\ RequestInv /\ DangleInv /\ NoFaults /\ NoFaults' /\ [Next]_vars
        => [Request!Next]_Request!vars
<1> SUFFICES ASSUME BaseInv, RequestInv, DangleInv, NoFaults, NoFaults', [Next]_vars
             PROVE  Request!Next \/ UNCHANGED Request!vars
  OBVIOUS
<1>0. /\ faults = 0 /\ faults' = 0 /\ StreamInv
      /\ wait_state = "end" => pc = "idle"
      /\ HeadersListed /\ dangling \in Nat
  BY DEF NoFaults, RequestInv, BaseInv, BodyInv, Safe, TypeOK
<1>1. ASSUME NEW n \in 0..Len(rest), Feed(n) PROVE Request!Arrive(n)
  <2>1. /\ wait_state # "end" /\ wait_state' = wait_state
        /\ rest' = SubSeq(rest, n + 1, Len(rest)) /\ post' = post \o SubSeq(rest, 1, n)
        /\ cut' = (cut \/ post # <<>>)
    BY <1>0, <1>1, AllocationType DEF Feed, Count
  <2> QED
    BY <2>1 DEF Request!Arrive
<1>2. CASE WaitReq \/ WaitHdr \/ HdrDone \/ WaitFixBody \/ WaitClen \/ WaitCval
  <2>1. UNCHANGED <<rest, post, cut>> /\ wait_state # "end" /\ wait_state' # "end"
    BY <1>0, <1>2 DEF WaitReq, WaitHdr, HdrDone, WaitFixBody, WaitClen, WaitCval, history
  <2> QED
    BY <2>1 DEF Request!vars
<1>3. CASE End
  <2>1. /\ pc = "end" /\ wait_state # "end" /\ wait_state' = "end"
        /\ UNCHANGED <<rest, post, http_request, dangling, cut>>
    BY <1>0, <1>3 DEF End, history
  <2>2. Request!Whole(post) /\ http_request = Request!RequestOf(post)
    BY <1>0, <2>1, EndDelivers
  <2>3. dangling \in Request!MayBeLost(Request!RequestOf(post))
    <3>1. /\ dangling \in 0..Len(http_request.headers)
          /\ ~cut => dangling = 0
      BY <1>0, <2>1 DEF DangleInv, HeadersListed
    <3> QED
      BY <2>2, <3>1 DEF Request!MayBeLost
  <2>4. LoseFirst(http_request, dangling)' = Request!LoseFirst(Request!RequestOf(post), dangling)
    <3>1. LoseFirst(http_request, dangling)' = LoseFirst(http_request, dangling)
      BY <2>1 DEF LoseFirst
    <3> QED
      BY <2>2, <3>1, SameLoss
  <2>5. Request!Deliver
    BY <2>1, <2>2, <2>3, <2>4 DEF Request!Deliver
  <2> QED
    BY <2>5 DEF Request!Next
<1>4. CASE Pop \/ Destroy
  <2> DEFINE n == Len(http_request.headers)
             lost == LoseFirst(http_request, dangling)
  <2>1. /\ UNCHANGED <<rest, post, cut, wait_state, http_request>>
        /\ dangling' = n
    BY <1>4 DEF Pop, Destroy, LosePost, history
  <2>2. CASE wait_state = "end"
    <3>1. LoseFirst(http_request, dangling)' = LoseFirst(http_request, n)
      BY <2>1 DEF LoseFirst
    <3>2. Len(lost.headers) = n /\ LoseFirst(lost, n) = LoseFirst(http_request, n)
      BY <1>0, LoseAgain
    <3> HIDE DEF lost, n
    <3>3. LoseFirst(http_request, dangling)' = Request!LoseFirst(lost, Len(lost.headers))
      BY <3>1, <3>2, SameLoss
    <3>4. <<lost>> # <<>> /\ <<lost>>[1] = lost
      OBVIOUS
    <3>5. Request!Release
      BY <2>1, <2>2, <3>3, <3>4 DEF Request!Release, lost
    <3> QED
      BY <3>5 DEF Request!Next
  <2>3. CASE wait_state # "end"
    BY <2>1, <2>3 DEF Request!vars
  <2> QED
    BY <2>2, <2>3
<1>5. CASE UNCHANGED vars
  <2>1. UNCHANGED <<rest, post, cut, wait_state, http_request, dangling>>
    BY <1>5 DEF vars, history
  <2> QED
    BY <2>1 DEF Request!vars, LoseFirst
<1> QED
  BY <1>1, <1>2, <1>3, <1>4, <1>5 DEF Next, Parse, Stopped, Request!Next

\* Segmentation independence, as far as the code has it: however such a stream
\* is cut, and however long the request, its lines and its body are, a context
\* delivers the request the bytes spell out, and only once it is whole, as long
\* as no allocation fails.  Which of its header names and values can still be
\* read does depend on the cuts: none is lost of a request that came in one
\* segment, before it is popped.
THEOREM ParserImplementsRequest ==
    ASSUME \A s \in Streams : Plain(s), MaxFaults = 0
    PROVE  Spec => ImplementsRequest
<1>1. BaseInv /\ RequestInv /\ [Next]_vars => RequestInv'
  BY NextRequestInv DEF AllPlain
<1>2. Init => NoFaults
  BY DEF Init, NoFaults
<1>3. NoFaults /\ [Next]_vars => NoFaults'
  BY NextNoFaults
<1>4. Init => Request!Init
  BY DEF Init, Request!Init
<1>5. Init => DangleInv
  BY DEF Init, DangleInv, NewRequest
<1>6. BaseInv /\ DangleInv /\ [Next]_vars => DangleInv'
  BY NextDangleInv DEF BaseInv
<1> QED
  BY InitBaseInv, NextBaseInv, InitRequestInv, <1>1, <1>2, <1>3, <1>4, <1>5, <1>6,
     NextImplements, PTL
     DEF Spec, ImplementsRequest, Request!Spec

=============================================================================
