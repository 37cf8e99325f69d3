--------------------------- MODULE HttpParseProofs ---------------------------
(***************************************************************************)
(* Invariants of HttpParse, for every stream, every way of cutting it,     *)
(* every limit and every pattern of failing allocations.                   *)
(***************************************************************************)
EXTENDS HttpParse, TLAPS

USE HeaderLimitAssumption, SizeModAssumption

-----------------------------------------------------------------------------
(* Type correctness and the cursors.                                       *)

\* The headers of the request are a list.
HeadersListed ==
    /\ "headers" \in DOMAIN http_request
    /\ Len(http_request.headers) \in Nat
    /\ DOMAIN http_request.headers = 1..Len(http_request.headers)

\* Every variable keeps its type, and both cursors stay inside post, so every
\* pointer http_parse_feed forms from them points into the buffer.
Safe == TypeOK /\ CursorsInPost /\ HeadersListed

\* A declared length is stored as a size_t.
LEMMA SizeTType == ASSUME NEW n \in Int PROVE SizeT(n) \in Nat
  BY DEF SizeT

\* The sum of a cursor and the declared length, as a size_t.
LEMMA FullLengthType == ASSUME TypeOK PROVE FullLength \in Nat
  BY DEF TypeOK, FullLength

\* Only a value that strtoll() accepts declares a length.
LEMMA DeclaredLengthType ==
    ASSUME NEW line, DeclaresLength(line)
    PROVE  DeclaredLength(line) \in Int
<1>1. FieldOf(line) = "Content-Length"
  BY DEF DeclaresLength
<1>2. ValueParses("Content-Length", Value(line))
  BY <1>1 DEF FieldOf, Unknown
<1>3. Value(line)[Number(Value(line))] \in DOMAIN LengthOf
  BY <1>2 DEF ValueParses
<1> QED
  BY <1>3, LengthOfAssumption DEF DeclaredLength

LEMMA AllocationType == Allocation \subseteq BOOLEAN
  BY DEF Allocation

LEMMA CountType ==
    ASSUME TypeOK, NEW mem \in BOOLEAN, Count(mem)
    PROVE  faults' \in Nat
  BY DEF TypeOK, Count

LEMMA ListGrows ==
    ASSUME NEW q, NEW x, Len(q) \in Nat, DOMAIN q = 1..Len(q)
    PROVE  /\ Len(Append(q, x)) = Len(q) + 1
           /\ DOMAIN Append(q, x) = 1..Len(q) + 1
  BY SMT

\* Headers are only ever appended.
LEMMA NextHeadersListed == HeadersListed /\ [Next]_vars => HeadersListed'
<1> SUFFICES ASSUME HeadersListed, [Next]_vars PROVE HeadersListed'
  OBVIOUS
<1>1. ASSUME UNCHANGED http_request PROVE HeadersListed'
  BY <1>1 DEF HeadersListed
<1>2. ASSUME WaitReq PROVE HeadersListed'
  <2>1. \/ UNCHANGED http_request
        \/ \E k, mem : http_request' = ParseRequestLine(http_request, Line(k), mem)
    BY <1>2 DEF WaitReq
  <2>2. ASSUME NEW k, NEW mem, http_request' = ParseRequestLine(http_request, Line(k), mem)
        PROVE  "headers" \in DOMAIN http_request' /\ UNCHANGED http_request.headers
    BY <2>2 DEF ParseRequestLine, HeadersListed
  <2> QED
    BY <1>1, <2>1, <2>2 DEF HeadersListed
<1>3. ASSUME WaitHdr PROVE HeadersListed'
  <2>1. ASSUME NEW k, NEW mem, ParseHeaderLine(Line(k), mem) PROVE HeadersListed'
    <3> DEFINE h == HeaderOf(Line(k))
    <3>1. CASE UNCHANGED http_request
      BY <1>1, <3>1
    <3>2. CASE http_request' = [http_request EXCEPT !.headers = Append(@, h)]
      <4> HIDE DEF h
      <4>1. /\ "headers" \in DOMAIN http_request'
            /\ http_request'.headers = Append(http_request.headers, h)
        BY <3>2 DEF HeadersListed
      <4> QED
        BY <4>1, ListGrows DEF HeadersListed
    <3> QED
      BY <2>1, <3>1, <3>2 DEF ParseHeaderLine
  <2>2. ASSUME NEW k \in SearchRange, HeaderLine(k) \/ BlankLine(k) PROVE HeadersListed'
    BY <1>1, <2>1, <2>2 DEF HeaderLine, BlankLine
  <2> QED
    BY <1>1, <1>3, <2>2 DEF WaitHdr
<1>4. ASSUME WaitFixBody PROVE HeadersListed'
  <2>1. ASSUME NEW b, http_request' = [http_request EXCEPT !.body = b]
        PROVE  "headers" \in DOMAIN http_request' /\ UNCHANGED http_request.headers
    BY <2>1 DEF HeadersListed
  <2> QED
    BY <1>1, <1>4, <2>1 DEF WaitFixBody, HeadersListed
<1>5. ASSUME NEW n \in 0..Len(rest), Feed(n) PROVE HeadersListed'
  BY <1>1, <1>5 DEF Feed
<1>6. CASE HdrDone \/ WaitClen \/ WaitCval \/ End \/ Pop \/ Destroy \/ UNCHANGED vars
  BY <1>1, <1>6 DEF HdrDone, WaitClen, WaitCval, End, Pop, Destroy, vars
<1> QED
  BY <1>2, <1>3, <1>4, <1>5, <1>6 DEF Next, Parse, Stopped

LEMMA InitSafe == Init => Safe
<1> SUFFICES ASSUME Init PROVE Safe
  OBVIOUS
<1>1. rest \in Seq(STRING)
  BY StreamsAssumption DEF Init
<1>2. post = <<>> /\ post \in Seq(STRING) /\ Len(post) = 0
  BY DEF Init
<1>3. CursorsInPost
  BY <1>2 DEF Init, CursorsInPost
<1>4. header_cnt \in 1..HeaderLimit + 1
  BY DEF Init
<1>5. HeadersListed
  BY DEF Init, HeadersListed, NewRequest
<1> QED
  BY <1>1, <1>2, <1>3, <1>4, <1>5 DEF Init, Safe, TypeOK, Returns, WaitStates, Labels

LEMMA NextSafe == Safe /\ [Next]_vars => Safe'
<1> SUFFICES ASSUME Safe, [Next]_vars PROVE TypeOK' /\ CursorsInPost'
  BY NextHeadersListed DEF Safe
<1> USE DEF Safe, TypeOK, CursorsInPost, Returns, WaitStates, Labels
<1>1. ASSUME NEW n \in 0..Len(rest), Feed(n) PROVE TypeOK' /\ CursorsInPost'
  <2>1. PICK mem \in Allocation :
           /\ Count(mem)
           /\ IF mem THEN post' = post \o SubSeq(rest, 1, n) /\ pc' = Resume
                                /\ UNCHANGED ret
              ELSE Return("malloc") /\ UNCHANGED post
    BY <1>1 DEF Feed
  <2>6. dangling' \in Nat /\ cut' \in BOOLEAN
    BY <1>1 DEF Feed, LosePost, HeadersListed
  <2>2. faults' \in Nat
    BY <2>1, AllocationType, CountType
  <2>3. SubSeq(rest, 1, n) \in Seq(STRING) /\ SubSeq(rest, n + 1, Len(rest)) \in Seq(STRING)
    OBVIOUS
  <2>4. post' \in Seq(STRING) /\ Len(post') >= Len(post)
    <3>1. CASE mem
      <4>1. post' = post \o SubSeq(rest, 1, n)
        BY <2>1, <3>1
      <4>2. Len(post \o SubSeq(rest, 1, n)) = Len(post) + Len(SubSeq(rest, 1, n))
        BY <2>3
      <4> QED
        BY <2>3, <4>1, <4>2
    <3>2. CASE ~mem
      BY <2>1, <3>2
    <3> QED
      BY <3>1, <3>2
  <2>5. pc' \in Labels \union {"idle"} /\ ret' \in Returns
    BY <1>1, <2>1 DEF Return, Resume, Feed
  <2> QED
    BY <1>1, <2>2, <2>3, <2>4, <2>5, <2>6
       DEF Feed, cursor, body, owner
<1>2. ASSUME WaitReq PROVE TypeOK' /\ CursorsInPost'
  <2>1. CASE NoCrlf /\ Return("cannot_find_clrf") /\ UNCHANGED <<cursor, faults>>
    BY <1>2, <2>1 DEF WaitReq, Return, cursor, body, owner
  <2>2. ASSUME NEW k \in SearchRange, NEW mem \in Allocation, AdvanceTo(k), Count(mem),
               pc' = "wait_hdr", UNCHANGED ret
        PROVE  TypeOK' /\ CursorsInPost'
    <3>1. cur' \in Nat /\ next_line' \in Nat /\ cur' <= Len(post) /\ next_line' <= Len(post)
      BY <2>2 DEF SearchRange, AdvanceTo
    <3>2. faults' \in Nat
      BY <2>2, AllocationType, CountType
    <3> QED
      BY <1>2, <2>2, <3>1, <3>2 DEF WaitReq, body, owner
  <2> QED
    BY <1>2, <2>1, <2>2 DEF WaitReq
<1>3. ASSUME WaitHdr PROVE TypeOK' /\ CursorsInPost'
  <2>1. CASE NoCrlf /\ Return("cannot_find_clrf") /\ UNCHANGED <<header_cnt, cursor, body, faults>>
    BY <1>3, <2>1 DEF WaitHdr, Return, cursor, body, owner
  <2>2. ASSUME NEW k \in SearchRange, header_cnt <= HeaderLimit, HeaderLine(k)
        PROVE  TypeOK' /\ CursorsInPost'
    <3>1. cur' \in Nat /\ next_line' \in Nat /\ cur' <= Len(post) /\ next_line' <= Len(post)
      BY <2>2 DEF SearchRange, AdvanceTo, HeaderLine
    <3>2. faults' \in Nat
      BY <2>2, AllocationType, CountType DEF HeaderLine
    <3>3. CASE Return("malloc") /\ UNCHANGED <<header_cnt, body>>
      BY <1>3, <3>1, <3>2, <3>3 DEF WaitHdr, Return, body, owner
    <3>4. ASSUME NEW mem \in BOOLEAN, ParseHeaderLine(Line(k), mem),
                 header_cnt' = header_cnt + 1, UNCHANGED <<pc, ret>>
          PROVE  TypeOK' /\ CursorsInPost'
      <4>1. body_type' \in {"unset", "fixed", "chunked"} /\ body_length' \in Nat
        <5>1. CASE DeclaresLength(Line(k))
          <6>1. DeclaredLength(Line(k)) \in Int
            BY <5>1, DeclaredLengthType
          <6> QED
            BY <3>4, <6>1, SizeTType DEF ParseHeaderLine, BodyTypeAfter, body
        <5>2. CASE ~DeclaresLength(Line(k))
          BY <3>4, <5>2 DEF ParseHeaderLine, BodyTypeAfter, body
        <5> QED
          BY <5>1, <5>2
      <4> QED
        BY <1>3, <2>2, <3>1, <3>2, <3>4, <4>1 DEF WaitHdr, owner
    <3> QED
      BY <2>2, <3>3, <3>4, AllocationType DEF HeaderLine
  <2>3. ASSUME NEW k \in SearchRange, BlankLine(k) PROVE TypeOK' /\ CursorsInPost'
    BY <1>3, <2>3 DEF WaitHdr, BlankLine, SearchRange, body, owner
  <2>4. CASE pc' = "hdr_done" /\ UNCHANGED <<ret, header_cnt, cursor, body, faults>>
    BY <1>3, <2>4 DEF WaitHdr, cursor, body, owner
  <2> QED
    BY <1>3, <2>1, <2>2, <2>3, <2>4 DEF WaitHdr
<1>4. ASSUME HdrDone PROVE TypeOK' /\ CursorsInPost'
  BY <1>4 DEF HdrDone, Return, cursor, body, owner, HeadOnlyLength
<1>5. ASSUME WaitFixBody PROVE TypeOK' /\ CursorsInPost'
  <2>1. FullLength \in Nat
    BY FullLengthType
  <2>2. next_line' \in Nat /\ next_line' <= Len(post)
    BY <1>5, <2>1 DEF WaitFixBody, BodyMissing
  <2>3. faults' \in Nat
    BY <1>5, AllocationType, CountType DEF WaitFixBody
  <2>4. pc' \in Labels \union {"idle"} /\ ret' \in Returns
    BY <1>5 DEF WaitFixBody, Return
  <2> QED
    BY <1>5, <2>1, <2>2, <2>3, <2>4 DEF WaitFixBody, body, owner
<1>6. ASSUME WaitClen \/ WaitCval PROVE TypeOK' /\ CursorsInPost'
  BY <1>6 DEF WaitClen, WaitCval, cursor, body, owner, history
<1>7. ASSUME End PROVE TypeOK' /\ CursorsInPost'
  BY <1>7 DEF End, Return, cursor, body, owner, history
<1>8. ASSUME Pop \/ Destroy PROVE TypeOK' /\ CursorsInPost'
  BY <1>8 DEF Pop, Destroy, LosePost, HeadersListed, cursor, body, history, feed
<1>9. ASSUME UNCHANGED vars PROVE TypeOK' /\ CursorsInPost'
  BY <1>9 DEF vars, cursor, body, owner, history, feed
<1> QED
  BY <1>1, <1>2, <1>3, <1>4, <1>5, <1>6, <1>7, <1>8, <1>9 DEF Next, Parse, Stopped

\* Type correctness and memory safety of the cursors of http_parse_feed.
THEOREM SafeAlways == Spec => [](TypeOK /\ CursorsInPost)
<1>1. Safe /\ [Next]_vars => Safe'
  BY NextSafe
<1> QED
  BY InitSafe, <1>1, PTL DEF Spec, Safe

\* Every field of the context keeps its type; in particular the counter of the
\* header loop stays within 1..HeaderLimit + 1 and no size_t is negative.
THEOREM TypeAlways == Spec => []TypeOK
<1>1. TypeOK /\ CursorsInPost => TypeOK
  OBVIOUS
<1> QED
  BY SafeAlways, <1>1, PTL

-----------------------------------------------------------------------------
(* The branch for glued requests is dead.                                  *)

\* The head of the request is still being read.
ReadingHead == \/ pc \in {"wait_req", "wait_hdr"}
               \/ pc = "idle" /\ wait_state \in {"start", "wait_req", "wait_hdr"}

\* post_full_length is assigned only on the way to the label end, where it is
\* next_line, and by the body label, which never leads back to the head.
SplitInv ==
    /\ ReadingHead \/ pc \in {"hdr_done", "wait_clen", "wait_cval"}
           => post_full_length = 0
    /\ pc = "end" => post_full_length \in {0, next_line}
    /\ pc = "hdr_done" => wait_state = "wait_hdr"
    /\ pc = "idle" => wait_state \notin {"wait_clen", "wait_cval"}

LEMMA NextSplitInv == Safe /\ SplitInv /\ [Next]_vars => SplitInv'
<1> SUFFICES ASSUME Safe, SplitInv, [Next]_vars PROVE SplitInv'
  OBVIOUS
<1> USE DEF Safe, TypeOK, WaitStates, SplitInv, ReadingHead
<1>1. ASSUME NEW n \in 0..Len(rest), Feed(n) PROVE SplitInv'
  BY <1>1 DEF Feed, Return, Resume
<1>2. ASSUME WaitReq PROVE SplitInv'
  BY <1>2 DEF WaitReq, Return
<1>3. ASSUME WaitHdr PROVE SplitInv'
  BY <1>3 DEF WaitHdr, HeaderLine, BlankLine, Return
<1>4. ASSUME HdrDone PROVE SplitInv'
  BY <1>4 DEF HdrDone, Return, HeadOnlyLength, cursor
<1>5. ASSUME WaitFixBody PROVE SplitInv'
  BY <1>5 DEF WaitFixBody, Return
<1>6. ASSUME WaitClen \/ WaitCval \/ End PROVE SplitInv'
  BY <1>6 DEF WaitClen, WaitCval, End, Return, cursor
<1>7. ASSUME Pop \/ Destroy \/ UNCHANGED vars PROVE SplitInv'
  BY <1>7 DEF Pop, Destroy, vars, cursor, feed
<1> QED
  BY <1>1, <1>2, <1>3, <1>4, <1>5, <1>6, <1>7 DEF Next, Parse, Stopped

\* Lines 184-197 of http_parse_feed are unreachable: bytes that follow a
\* request in post are never split off, whatever is received and however.
THEOREM SplitNeverTaken == Spec => []SplitUnreachable
<1>1. Init => SplitInv
  BY DEF Init, SplitInv, ReadingHead
<1>2. Safe /\ SplitInv /\ [Next]_vars => SplitInv'
  BY NextSplitInv
<1>3. Safe /\ SplitInv => SplitUnreachable
  BY DEF Safe, TypeOK, SplitInv, SplitUnreachable
<1> QED
  BY InitSafe, NextSafe, <1>1, <1>2, <1>3, PTL DEF Spec

-----------------------------------------------------------------------------
(* No head is missed.                                                      *)

\* An empty line after another line ends at offset k + 2.
EmptyLine(k) == k >= 2 /\ Crlf(post, k) /\ Crlf(post, k - 2)

\* As long as the head is read, next_line is the start of a line and no empty
\* line lies before it; a call that waits has searched to the end of post.
HeadInv ==
    /\ pc = "wait_req" => next_line = 0
    /\ pc = "idle" /\ wait_state \in {"start", "wait_req"} => next_line = 0
    /\ pc \in {"hdr_done", "end"} => wait_state \notin {"start", "wait_req"}
    /\ ReadingHead /\ ~fatal /\ next_line # 0 => Crlf(post, next_line - 2)
    /\ pc = "wait_hdr" \/ wait_state = "wait_hdr" => next_line # 0
    /\ ReadingHead /\ ~fatal => \A k \in Nat : EmptyLine(k) => k >= next_line
    /\ pc = "idle" /\ ReadingHead /\ faults = 0 /\ ~fatal
           => \A k \in Nat : k >= next_line => ~Crlf(post, k)

\* A "\r\n" of a text is one of every longer text.
LEMMA CrlfGrows ==
    ASSUME NEW p \in Seq(STRING), NEW s \in Seq(STRING), NEW k \in Nat
    PROVE  /\ k <= Len(p) - 2 => (Crlf(p \o s, k) <=> Crlf(p, k))
           /\ k + 1 = Len(p) /\ Crlf(p \o s, k) => p[Len(p)] = CR
<1>1. Len(p \o s) = Len(p) + Len(s) /\ Len(p) \in Nat /\ Len(s) \in Nat
  OBVIOUS
<1>2. \A i \in 1..Len(p) : (p \o s)[i] = p[i]
  OBVIOUS
<1>3. ASSUME k <= Len(p) - 2 PROVE Crlf(p \o s, k) <=> Crlf(p, k)
  <2>1. (p \o s)[k + 1] = p[k + 1] /\ (p \o s)[k + 2] = p[k + 2]
    BY <1>2, <1>3, <1>1
  <2> QED
    BY <1>1, <1>3, <2>1 DEF Crlf
<1>4. ASSUME k + 1 = Len(p), Crlf(p \o s, k) PROVE p[Len(p)] = CR
  BY <1>1, <1>2, <1>4 DEF Crlf
<1> QED
  BY <1>3, <1>4

\* A line found by update_ctx_to_next_clrf is followed by no empty line that
\* was overlooked: the only "\r\n" up to its end is its own.
LEMMA NoEmptyLineBefore ==
    ASSUME NEW p \in Seq(STRING), NEW from \in Nat, NEW k \in Nat, NEW j \in Nat,
           FirstCrlf(p, from, k), Crlf(p, j), j >= from, j < k + 2
    PROVE  j = k
<1>1. j >= k
  BY DEF FirstCrlf
<1>2. j # k + 1
  BY DEF FirstCrlf, Crlf, CR, LF
<1> QED
  BY <1>1, <1>2

\* The step from one line to the next, the request line or a header line.
LEMMA NextLine ==
    ASSUME Safe, HeadInv, ReadingHead, ~fatal,
           NEW k \in SearchRange, FirstCrlf(post, next_line, k),
           next_line # 0 => k # next_line
    PROVE  \A j \in Nat : EmptyLine(j) => j >= k + 2
<1> USE DEF Safe, TypeOK, CursorsInPost
<1> SUFFICES ASSUME NEW j \in Nat, EmptyLine(j), j < k + 2 PROVE FALSE
  BY DEF SearchRange
<1>1. k \in Nat /\ next_line <= k
  BY DEF SearchRange
<1>2. j >= next_line
  BY DEF HeadInv
<1>3. j = k
  BY <1>1, <1>2, NoEmptyLineBefore DEF EmptyLine
<1>4. k - 2 < next_line
  BY <1>1, <1>3 DEF EmptyLine, FirstCrlf
<1>5. next_line # 0 /\ k = next_line + 1
  BY <1>1, <1>3, <1>4 DEF EmptyLine
<1>6. Crlf(post, next_line - 2) /\ Crlf(post, next_line - 1)
  BY <1>3, <1>5 DEF HeadInv, EmptyLine
<1> QED
  BY <1>5, <1>6 DEF Crlf, CR, LF

LEMMA NextHeadInv == Safe /\ HeadInv /\ [Next]_vars => HeadInv'
<1> SUFFICES ASSUME Safe, HeadInv, [Next]_vars PROVE HeadInv'
  OBVIOUS
<1> USE DEF Safe, TypeOK, CursorsInPost
<1>1. ASSUME NEW n \in 0..Len(rest), Feed(n) PROVE HeadInv'
  <2>1. PICK mem \in Allocation :
           /\ Count(mem)
           /\ IF mem THEN post' = post \o SubSeq(rest, 1, n) /\ pc' = Resume
                                /\ UNCHANGED ret
              ELSE Return("malloc") /\ UNCHANGED post
    BY <1>1 DEF Feed
  <2>2. UNCHANGED <<wait_state, next_line, fatal>> /\ pc = "idle"
    BY <1>1 DEF Feed, cursor
  <2>3. CASE mem
    <3> DEFINE s == SubSeq(rest, 1, n)
    <3>1. s \in Seq(STRING) /\ post' = post \o s /\ pc' = Resume
      BY <2>1, <2>3
    <3> HIDE DEF s
    <3>2. ReadingHead' => ReadingHead
      BY <2>2, <3>1 DEF ReadingHead, Resume, WaitStates
    <3>3. ASSUME ReadingHead', ~fatal', next_line # 0 PROVE Crlf(post', next_line - 2)
      <4>1. Crlf(post, next_line - 2)
        BY <2>2, <3>2, <3>3 DEF HeadInv
      <4>2. next_line - 2 \in Nat /\ next_line - 2 <= Len(post) - 2
        BY <4>1 DEF Crlf
      <4> QED
        BY <3>1, <4>1, <4>2, CrlfGrows
    <3>4. ASSUME ReadingHead', ~fatal', NEW k \in Nat, EmptyLine(k)', k < next_line
          PROVE  FALSE
      <4>1. k >= 2 /\ Crlf(post \o s, k) /\ Crlf(post \o s, k - 2)
        BY <3>1, <3>4 DEF EmptyLine
      <4>2. CASE k <= Len(post) - 2
        <5>1. Crlf(post, k) /\ Crlf(post, k - 2)
          BY <3>1, <4>1, <4>2, CrlfGrows
        <5> QED
          BY <2>2, <3>2, <3>4, <4>1, <5>1 DEF HeadInv, EmptyLine
      <4>3. CASE k + 1 = Len(post)
        <5>1. post[Len(post)] = CR
          BY <3>1, <4>1, <4>3, CrlfGrows
        <5>2. next_line = Len(post) /\ Crlf(post, next_line - 2)
          BY <2>2, <3>2, <3>4, <4>3 DEF HeadInv
        <5> QED
          BY <5>1, <5>2 DEF Crlf, CR, LF
      <4> QED
        BY <3>4, <4>2, <4>3
    <3>5. /\ pc' # "idle" /\ pc' \notin {"hdr_done", "end"}
          /\ pc' = "wait_req" => next_line = 0
          /\ pc' = "wait_hdr" \/ wait_state = "wait_hdr" => next_line # 0
      BY <1>1, <2>2, <3>1 DEF Resume, HeadInv, ReadingHead, Feed, WaitStates
    <3> QED
      BY <2>2, <3>3, <3>4, <3>5 DEF HeadInv
  <2>4. CASE ~mem
    BY <2>1, <2>2, <2>4 DEF HeadInv, ReadingHead, EmptyLine, Return, Count
  <2> QED
    BY <2>1, <2>3, <2>4, AllocationType
<1>2. ASSUME WaitReq PROVE HeadInv'
  <2>1. CASE NoCrlf /\ Return("cannot_find_clrf") /\ UNCHANGED <<cursor, faults>>
    BY <1>2, <2>1 DEF WaitReq, Return, cursor, HeadInv, ReadingHead, EmptyLine, NoCrlf,
                      SearchRange, Crlf
  <2>2. ASSUME NEW k \in SearchRange, AdvanceTo(k), pc' = "wait_hdr" PROVE HeadInv'
    <3>1. next_line = 0 /\ ReadingHead /\ FirstCrlf(post, next_line, k) /\ next_line' = k + 2
      BY <1>2, <2>2 DEF WaitReq, HeadInv, ReadingHead, AdvanceTo
    <3>2. ~fatal => \A j \in Nat : EmptyLine(j) => j >= k + 2
      BY <3>1, NextLine
    <3> QED
      BY <1>2, <2>2, <3>1, <3>2 DEF WaitReq, HeadInv, ReadingHead, EmptyLine, FirstCrlf,
                                    SearchRange
  <2> QED
    BY <1>2, <2>1, <2>2 DEF WaitReq
<1>3. ASSUME WaitHdr PROVE HeadInv'
  <2>0. ReadingHead /\ wait_state' = "wait_hdr" /\ UNCHANGED <<post, fatal>>
    BY <1>3 DEF WaitHdr, ReadingHead
  <2>4. next_line # 0
    BY <1>3 DEF WaitHdr, HeadInv
  <2>1. CASE NoCrlf /\ Return("cannot_find_clrf") /\ UNCHANGED <<cursor, faults>>
    BY <2>0, <2>1, <2>4 DEF Return, cursor, HeadInv, ReadingHead, EmptyLine, NoCrlf,
                      SearchRange, Crlf
  <2>2. ASSUME NEW k \in SearchRange, HeaderLine(k) PROVE HeadInv'
    <3>1. FirstCrlf(post, next_line, k) /\ next_line' = k + 2 /\ k # next_line
      BY <2>2 DEF HeaderLine, AdvanceTo
    <3>2. ~fatal => \A j \in Nat : EmptyLine(j) => j >= k + 2
      BY <2>0, <3>1, NextLine
    <3>3. pc' = "wait_hdr" \/ (pc' = "idle" /\ faults' # 0)
      BY <1>3, <2>2, AllocationType DEF WaitHdr, HeaderLine, Return, Count
    <3> QED
      BY <2>0, <3>1, <3>2, <3>3 DEF HeadInv, ReadingHead, EmptyLine, FirstCrlf, SearchRange
  <2>3. CASE pc' = "hdr_done" /\ next_line' # 0
    BY <2>0, <2>3 DEF HeadInv, ReadingHead
  <2> QED
    BY <1>3, <2>1, <2>2, <2>3, <2>4 DEF WaitHdr, BlankLine, SearchRange, cursor
<1>4. ASSUME HdrDone PROVE HeadInv'
  BY <1>4 DEF HdrDone, Return, HeadInv, ReadingHead, cursor
<1>5. ASSUME WaitFixBody PROVE HeadInv'
  BY <1>5 DEF WaitFixBody, Return, HeadInv, ReadingHead
<1>6. ASSUME WaitClen \/ WaitCval \/ End PROVE HeadInv'
  BY <1>6 DEF WaitClen, WaitCval, End, Return, HeadInv, ReadingHead, cursor
<1>7. ASSUME Pop \/ Destroy \/ UNCHANGED vars PROVE HeadInv'
  BY <1>7 DEF Pop, Destroy, vars, feed, cursor, history, HeadInv, ReadingHead, EmptyLine
<1> QED
  BY <1>1, <1>2, <1>3, <1>4, <1>5, <1>6, <1>7 DEF Next, Parse, Stopped

\* No wake-up is lost: a call that returns to wait for a line, and none of
\* whose predecessors failed, leaves no complete head in post.
THEOREM HeadNeverMissed == Spec => []HeadNotMissed
<1>1. Init => HeadInv
  BY DEF Init, HeadInv, ReadingHead, EmptyLine, Crlf
<1>2. Safe /\ HeadInv /\ [Next]_vars => HeadInv'
  BY NextHeadInv
<1>3. Safe /\ HeadInv => HeadNotMissed
  <2> SUFFICES ASSUME Safe, HeadInv, pc = "idle", faults = 0, ~fatal,
                      wait_state \in {"start", "wait_req", "wait_hdr"},
                      NEW k \in 2..Len(post) - 2, Crlf(post, k), Crlf(post, k - 2)
               PROVE  FALSE
    BY DEF HeadNotMissed
  <2>1. k \in Nat /\ EmptyLine(k) /\ ReadingHead
    BY DEF EmptyLine, ReadingHead
  <2> QED
    BY <2>1 DEF HeadInv
<1> QED
  BY InitSafe, NextSafe, <1>1, <1>2, <1>3, PTL DEF Spec

-----------------------------------------------------------------------------
(* The body of a finished request.                                         *)

BodyInv ==
    /\ "body" \in DOMAIN http_request
    /\ wait_state = "end" => pc = "idle"
    /\ pc \in {"wait_clen", "wait_cval"} => body_type = "chunked"
    /\ /\ pc = "end" \/ wait_state = "end"
       /\ body_type = "fixed"
       /\ cur + body_length < SizeMod
       => Len(http_request.body) = body_length

\* A remainder is the number itself when that is small enough.
LEMMA SmallMod == ASSUME NEW n \in 0..SizeMod - 1 PROVE n % SizeMod = n
  OBVIOUS

\* The view taken in the body label has the declared length.
LEMMA BodyViewLength ==
    ASSUME Safe, ~BodyMissing, cur + body_length < SizeMod
    PROVE  Len(BodyView) = body_length
<1> USE DEF Safe, TypeOK, CursorsInPost
<1>1. FullLength = cur + body_length
  BY SmallMod DEF FullLength
<1>2. (FullLength - cur) % SizeMod = body_length
  BY <1>1, SmallMod
<1>3. cur + body_length <= Len(post)
  BY <1>1 DEF BodyMissing
<1>4. CASE cur >= Len(post)
  BY <1>2, <1>3, <1>4 DEF BodyView, View
<1>5. CASE cur < Len(post)
  <2>1. BodyView = SubSeq(post, cur + 1, cur + body_length)
    BY <1>2, <1>3, <1>5 DEF BodyView, View
  <2>2. Len(SubSeq(post, cur + 1, cur + body_length)) = body_length
    BY <1>3
  <2> QED
    BY <2>1, <2>2
<1> QED
  BY <1>4, <1>5

LEMMA NextBodyInv == Safe /\ SplitInv /\ BodyInv /\ [Next]_vars => BodyInv'
<1> SUFFICES ASSUME Safe, SplitInv, BodyInv, [Next]_vars PROVE BodyInv'
  OBVIOUS
<1> USE DEF Safe, TypeOK, WaitStates, BodyInv
<1>1. ASSUME NEW n \in 0..Len(rest), Feed(n) PROVE BodyInv'
  BY <1>1 DEF Feed, Return, Resume, SplitInv
<1>2. ASSUME WaitReq PROVE BodyInv'
  <2>1. "body" \in DOMAIN http_request'
    BY <1>2 DEF WaitReq, ParseRequestLine
  <2> QED
    BY <1>2, <2>1 DEF WaitReq, Return
<1>3. ASSUME WaitHdr PROVE BodyInv'
  <2>1. "body" \in DOMAIN http_request'
    BY <1>3 DEF WaitHdr, HeaderLine, BlankLine, ParseHeaderLine
  <2> QED
    BY <1>3, <2>1 DEF WaitHdr, HeaderLine, BlankLine, Return
<1>4. ASSUME HdrDone PROVE BodyInv'
  BY <1>4 DEF HdrDone, Return, SplitInv, body
<1>5. ASSUME WaitFixBody PROVE BodyInv'
  <2>1. CASE pc' = "end"
    <3>1. ~BodyMissing /\ http_request' = [http_request EXCEPT !.body = BodyView]
      BY <1>5, <2>1 DEF WaitFixBody, Return
    <3>2. http_request'.body = BodyView /\ "body" \in DOMAIN http_request'
      BY <3>1
    <3> QED
      BY <1>5, <2>1, <3>1, <3>2, BodyViewLength DEF WaitFixBody, body
  <2>2. CASE pc' # "end"
    BY <1>5, <2>2 DEF WaitFixBody, Return
  <2> QED
    BY <2>1, <2>2
<1>6. ASSUME WaitClen \/ WaitCval PROVE BodyInv'
  BY <1>6 DEF WaitClen, WaitCval, body
<1>7. ASSUME End PROVE BodyInv'
  BY <1>7 DEF End, Return, cursor, body
<1>8. ASSUME Pop \/ Destroy \/ UNCHANGED vars PROVE BodyInv'
  BY <1>8 DEF Pop, Destroy, vars, feed, cursor, body
<1> QED
  BY <1>1, <1>2, <1>3, <1>4, <1>5, <1>6, <1>7, <1>8 DEF Next, Parse, Stopped

\* A finished request with a declared length has a body of exactly that
\* length, however the stream was cut and whatever allocations failed.
THEOREM BodyAlwaysExact == Spec => []BodyExact
<1>1. Init => SplitInv
  BY DEF Init, SplitInv, ReadingHead
<1>2. Init => BodyInv
  BY DEF Init, BodyInv, NewRequest
<1>3. Safe /\ SplitInv /\ [Next]_vars => SplitInv'
  BY NextSplitInv
<1>4. Safe /\ SplitInv /\ BodyInv /\ [Next]_vars => BodyInv'
  BY NextBodyInv
<1>5. BodyInv => BodyExact
  BY DEF BodyInv, BodyExact
<1> QED
  BY InitSafe, NextSafe, <1>1, <1>2, <1>3, <1>4, <1>5, PTL DEF Spec
=============================================================================
