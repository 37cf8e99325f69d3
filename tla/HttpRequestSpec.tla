-------------------------- MODULE HttpRequestSpec --------------------------
(***************************************************************************)
(* What the request parser promises, without a cursor, a state or a loop:  *)
(* the bytes of a connection arrive in any segments; once they hold a      *)
(* whole request, that request is delivered.  All that it owns depends on  *)
(* the bytes alone, not on where they were cut; the names and values of    *)
(* its headers are views of the text, and a cut may have moved the text.   *)
(*                                                                         *)
(* A request is: the text up to the first empty line after the first line, *)
(* and then as many bytes as the last length header declares.  The body of *)
(* a chunked request is not decoded (ISSUE.md lists it as missing): such a *)
(* request ends with its head.                                             *)
(***************************************************************************)
EXTENDS HttpSyntax

CONSTANT Streams      \* what the peer may send

VARIABLES rest,       \* what the peer still has to send
          received,   \* what has arrived
          cut,        \* it has arrived in more than one segment
          delivered   \* <<>>, or a sequence of the one request delivered

vars == <<rest, received, cut, delivered>>

-----------------------------------------------------------------------------
(* The request in a text.                                                  *)

\* The offsets just past an empty line.
HeadEnds(p) == {k + 2 : k \in {j \in 2..Len(p) - 2 : Crlf(p, j) /\ Crlf(p, j - 2)}}
HasHead(p)  == HeadEnds(p) # {}
HeadLength(p) == Min(HeadEnds(p))

LineAt(p, s) == SubSeq(p, s + 1, CHOOSE k \in s..Len(p) : FirstCrlf(p, s, k))

HeaderStarts(p) ==
    {k + 2 : k \in {j \in 0..HeadLength(p) - 6 : Crlf(p, j) /\ ~Crlf(p, j + 2)}}

\* The last header that says something about the body decides.
BodyHeaders(p) == {s \in HeaderStarts(p) : \/ DeclaresLength(LineAt(p, s))
                                           \/ DeclaresChunked(LineAt(p, s))}

BodyLength(p) ==
    IF BodyHeaders(p) = {} THEN 0
    ELSE LET last == LineAt(p, Max(BodyHeaders(p)))
         IN  IF DeclaresLength(last) THEN DeclaredLength(last) ELSE 0

Whole(p) == HasHead(p) /\ HeadLength(p) + BodyLength(p) <= Len(p)

\* p is one request with a body of known length, and nothing after it.
ExactlyOne(p) ==
    /\ HasHead(p)
    /\ BodyHeaders(p) # {} => DeclaresLength(LineAt(p, Max(BodyHeaders(p))))
    /\ BodyLength(p) >= 0
    /\ Len(p) = HeadLength(p) + BodyLength(p)

\* The elements of a set of offsets, in their order.
InOrder(S) ==
    CHOOSE q \in [1..Cardinality(S) -> S] : \A i, j \in DOMAIN q : i < j => q[i] < q[j]

RequestOf(p) ==
    LET starts == InOrder({s \in HeaderStarts(p) : HasColon(LineAt(p, s))})
        line   == ParseRequestLine(NewRequest, LineAt(p, 0), TRUE)
    IN  [method  |-> line.method,
         path    |-> line.path,
         version |-> line.version,
         headers |-> [i \in DOMAIN starts |-> HeaderOf(LineAt(p, starts[i]))],
         body    |-> View(p, HeadLength(p), BodyLength(p))]

-----------------------------------------------------------------------------
Init == rest \in Streams /\ received = <<>> /\ cut = FALSE /\ delivered = <<>>

Arrive(n) ==
    /\ delivered = <<>>
    /\ received' = received \o SubSeq(rest, 1, n)
    /\ rest' = SubSeq(rest, n + 1, Len(rest))
    /\ cut' = (cut \/ received # <<>>)
    /\ UNCHANGED delivered

\* The headers whose text may have been lost: the first ones, and none of a
\* request that was never cut.
MayBeLost(request) == IF cut THEN 0..Len(request.headers) ELSE {0}

Deliver ==
    /\ delivered = <<>>
    /\ Whole(received)
    /\ \E k \in MayBeLost(RequestOf(received)) :
          delivered' = <<LoseFirst(RequestOf(received), k)>>
    /\ UNCHANGED <<rest, received, cut>>

\* The text is given up, and with it what the headers view.
Release ==
    /\ delivered # <<>>
    /\ delivered' = <<LoseFirst(delivered[1], Len(delivered[1].headers))>>
    /\ UNCHANGED <<rest, received, cut>>

Next == (\E n \in 0..Len(rest) : Arrive(n)) \/ Deliver \/ Release

Spec == Init /\ [][Next]_vars

\* A whole request is delivered in the end.
Delivery == Whole(received) ~> delivered # <<>>
=============================================================================
