------------------------------ MODULE HttpParse ------------------------------
(***************************************************************************)
(* One parsing context of src/src/http/http_parse_dfa.c: the incremental   *)
(* parser that is fed the segments of a TCP stream.                        *)
(*                                                                         *)
(* The peer sends a stream; every call of http_parse_feed receives the     *)
(* next n symbols of it.  A call runs from label to label until it         *)
(* returns (pc = "idle"); each action below is the code between two        *)
(* labels, with the early returns as disjuncts.  The caller is client.c:   *)
(* it feeds a context until the request is complete, then pops it, and     *)
(* destroys the context when the peer closes.                              *)
(*                                                                         *)
(* The headers of the request keep their name and value as views of post.  *)
(* An append may move the block of post, and the end of the context frees  *)
(* it: the views that this leaves behind dangle.  The context's own views  *)
(* (request_line, header_list, body_view) are read only in the call that   *)
(* makes them.                                                             *)
(***************************************************************************)
EXTENDS HttpSyntax, FiniteSets

CONSTANTS
    Streams,       \* what a peer may send on the connection
    HeaderLimit,   \* 100: bound of the header loop
    SizeMod,       \* 2^64: size_t arithmetic is modulo SizeMod
    MaxFaults      \* bound of the model: how many allocations may fail

ASSUME LengthOfAssumption    == LengthOf \in [DOMAIN LengthOf -> Int]
ASSUME HeaderLimitAssumption == HeaderLimit \in Nat \ {0}
ASSUME SizeModAssumption     == SizeMod \in Nat \ {0}
ASSUME MaxFaultsAssumption   == MaxFaults \in Nat
ASSUME StreamsAssumption     == \A s \in Streams : s \in Seq(STRING)

VARIABLES
    rest,              \* what the peer still has to send
    pc,                \* the label http_parse_feed is at, "idle" between calls
    ret,               \* the http_err_t the last call returned
    header_cnt,        \* local of http_parse_feed
    wait_state,        \* the remaining variables are fields of http_parse_ctx_t
    post,
    post_full_length,
    cur,
    next_line,
    body_type,
    body_length,
    http_request,
    dangling,          \* how many headers, from the first, view a block that is gone
    alive,             \* the context is allocated and not yet freed
    popped,            \* the request was handed to the caller
    faults,            \* history: the allocations that have failed
    cut,               \* history: a segment came after another
    fatal              \* history: some call has returned request_fatal

cursor == <<cur, next_line>>
body   == <<body_type, body_length>>
feed   == <<pc, ret, header_cnt>>
owner  == <<alive, popped>>
history == <<faults, cut, fatal>>
vars   == <<rest, feed, wait_state, post, post_full_length, cursor, body,
            http_request, dangling, owner, history>>

WaitStates == {"start", "wait_req", "wait_hdr", "wait_fix_body", "wait_clen",
               "wait_cval", "end"}
Returns    == {"success", "malloc", "cannot_find_clrf", "request_fatal",
               "tcp_segment_in_body"}
Labels     == {"wait_req", "wait_hdr", "hdr_done", "wait_fix_body", "wait_clen",
               "wait_cval", "end"}

\* The outcomes of an allocation, and the record of one.
Allocation == IF faults < MaxFaults THEN {TRUE, FALSE} ELSE {TRUE}
Count(mem) == faults' = IF mem THEN faults ELSE faults + 1

Return(err) == pc' = "idle" /\ ret' = err

\* http_parse_ctx_new.
Init ==
    /\ rest \in Streams
    /\ pc = "idle"
    /\ ret = "success"
    /\ header_cnt = 1
    /\ wait_state = "start"
    /\ post = <<>>
    /\ post_full_length = 0
    /\ cur = 0
    /\ next_line = 0
    /\ body_type = "unset"
    /\ body_length = 0
    /\ http_request = NewRequest
    /\ dangling = 0
    /\ alive = TRUE
    /\ popped = FALSE
    /\ faults = 0
    /\ cut = FALSE
    /\ fatal = FALSE

-----------------------------------------------------------------------------
(* http_parse_feed, label by label.                                        *)

\* Mutant: a body cut in two sends the parser back to the header loop.
ResumeAtHeaders == IF wait_state = "start" THEN "wait_req" ELSE "wait_hdr"

\* The switch on the wait state.
Resume == IF wait_state = "start" THEN "wait_req" ELSE wait_state

\* post is another block now, or none: of the headers that are there no view holds.
LosePost == dangling' = Len(http_request.headers)

\* The entry: append the segment, which may move post, then jump to the state's
\* label.  When the append fails the segment is dropped and post stays.
Feed(n) ==
    /\ pc = "idle" /\ alive /\ wait_state # "end"
    /\ rest' = SubSeq(rest, n + 1, Len(rest))
    /\ \E mem \in Allocation :
          /\ Count(mem)
          /\ IF mem THEN /\ post' = post \o SubSeq(rest, 1, n)
                         /\ LosePost \/ UNCHANGED dangling
                         /\ pc' = Resume
                         /\ UNCHANGED ret
                    ELSE Return("malloc") /\ UNCHANGED <<post, dangling>>
    /\ header_cnt' = 1
    /\ cut' = (cut \/ post # <<>>)
    /\ UNCHANGED <<wait_state, post_full_length, cursor, body, http_request, owner,
                   fatal>>

\* Mutant: the search stops one symbol early.
SearchTooShort == next_line..Len(post) - 3

\* The offsets update_ctx_to_next_clrf tries.
SearchRange == next_line..Len(post) - 2

NoCrlf == \A k \in SearchRange : ~Crlf(post, k)

\* update_ctx_to_next_clrf when it finds the "\r\n" at offset k.
AdvanceTo(k) ==
    /\ FirstCrlf(post, next_line, k)
    /\ cur' = next_line
    /\ next_line' = k + 2

\* get_ctx_focus_line: the line without its "\r\n".
Line(k) == SubSeq(post, next_line + 1, k)

WaitReq ==
    /\ pc = "wait_req"
    /\ wait_state' = "wait_req"
    /\ \/ /\ NoCrlf
          /\ Return("cannot_find_clrf")
          /\ UNCHANGED <<cursor, http_request, faults>>
       \/ \E k \in SearchRange, mem \in Allocation :
          /\ AdvanceTo(k)
          /\ http_request' = ParseRequestLine(http_request, Line(k), mem)
          /\ Count(mem)
          /\ pc' = "wait_hdr"
          /\ UNCHANGED ret
    /\ UNCHANGED <<rest, header_cnt, post, post_full_length, body, dangling, owner, cut,
                   fatal>>

\* Mutant: the first header that describes the body wins.
FirstBodyType(line) ==
    IF body_type # "unset" THEN body_type
    ELSE IF DeclaresLength(line) THEN "fixed"
    ELSE IF DeclaresChunked(line) THEN "chunked" ELSE body_type

\* header_line_update_body_type: the last one does.
BodyTypeAfter(line) ==
    IF DeclaresLength(line) THEN "fixed"
    ELSE IF DeclaresChunked(line) THEN "chunked" ELSE body_type

\* Mutant: the length is kept signed.
SignedLength(n) == n

\* The assignment of an int64_t to the size_t body_length.
SizeT(n) == n % SizeMod

\* parse_header_line: a line without a colon is dropped; when the header
\* cannot be pushed it declares nothing.
ParseHeaderLine(line, mem) ==
    IF HasColon(line) /\ mem
    THEN /\ http_request' = [http_request EXCEPT !.headers = Append(@, HeaderOf(line))]
         /\ body_type' = BodyTypeAfter(line)
         /\ body_length' = IF DeclaresLength(line)
                           THEN SizeT(DeclaredLength(line)) ELSE body_length
    ELSE UNCHANGED <<http_request, body>>

\* One iteration of the header loop that does not leave it: a header line.
\* The context's own list of lines (header_list) is pushed first.
HeaderLine(k) ==
    /\ AdvanceTo(k)
    /\ k # next_line
    /\ \E mem \in Allocation :
          /\ Count(mem)
          /\ \/ /\ ~mem
                /\ Return("malloc")
                /\ UNCHANGED <<header_cnt, http_request, body>>
             \/ /\ ParseHeaderLine(Line(k), mem)
                /\ header_cnt' = header_cnt + 1
                /\ UNCHANGED <<pc, ret>>

\* The empty line: cur is moved over it and the loop is left.
BlankLine(k) ==
    /\ FirstCrlf(post, next_line, k)
    /\ k = next_line
    /\ cur' = k + 2
    /\ next_line' = k + 2
    /\ pc' = "hdr_done"
    /\ UNCHANGED <<ret, header_cnt, http_request, body, faults>>

WaitHdr ==
    /\ pc = "wait_hdr"
    /\ wait_state' = "wait_hdr"
    /\ \/ /\ header_cnt <= HeaderLimit
          /\ NoCrlf
          /\ Return("cannot_find_clrf")
          /\ UNCHANGED <<header_cnt, cursor, http_request, body, faults>>
       \/ /\ header_cnt <= HeaderLimit
          /\ \E k \in SearchRange : HeaderLine(k) \/ BlankLine(k)
       \/ /\ header_cnt > HeaderLimit
          /\ pc' = "hdr_done"
          /\ UNCHANGED <<ret, header_cnt, cursor, http_request, body, faults>>
    /\ UNCHANGED <<rest, post, post_full_length, dangling, owner, cut, fatal>>

\* Mutant: whatever has arrived belongs to a request without a body.
AllOfPost == Len(post)

\* The length of a request without a body.
HeadOnlyLength == next_line

\* The test of the counter after the loop, and the switch on the body type.
HdrDone ==
    /\ pc = "hdr_done"
    /\ IF header_cnt = HeaderLimit
       THEN /\ Return("request_fatal")
            /\ fatal' = TRUE
            /\ UNCHANGED post_full_length
       ELSE /\ pc' = CASE body_type = "unset"   -> "end"
                       [] body_type = "fixed"   -> "wait_fix_body"
                       [] body_type = "chunked" -> "wait_clen"
            /\ post_full_length' = IF body_type = "unset" THEN HeadOnlyLength
                                   ELSE post_full_length
            /\ UNCHANGED <<ret, fatal>>
    /\ UNCHANGED <<rest, header_cnt, wait_state, post, cursor, body, http_request,
                   dangling, owner, faults, cut>>

\* size_t arithmetic wraps: a negative length was stored modulo SizeMod.
FullLength == (cur + body_length) % SizeMod

\* Mutant: the test is made on the start of the body.
BodyNotStarted == cur > Len(post)

\* The test for a body cut by the end of the segment.
BodyMissing == FullLength > Len(post)

\* Mutant: the body starts after one more line end.
BodyViewShifted == View(post, cur + 2, (FullLength - cur) % SizeMod)

\* string_subview(&post, cur, next_line - cur).
BodyView == View(post, cur, (FullLength - cur) % SizeMod)

\* The assertions of lines 167, 182 and 198, which the default build (NDEBUG)
\* leaves out: no action depends on them.
BodyViewWhole == Len(BodyView) = body_length
EndConsistent == post_full_length = next_line
PostConsumed  == post_full_length = Len(post)

WaitFixBody ==
    /\ pc = "wait_fix_body"
    /\ wait_state' = "wait_fix_body"
    /\ post_full_length' = FullLength
    /\ IF BodyMissing
       THEN /\ Return("tcp_segment_in_body")
            /\ UNCHANGED <<next_line, http_request, faults>>
       ELSE /\ next_line' = FullLength
            /\ \E mem \in Allocation :
                  /\ Count(mem)
                  /\ IF mem
                     THEN /\ http_request' = [http_request EXCEPT !.body = BodyView]
                          /\ pc' = "end"
                          /\ UNCHANGED ret
                     ELSE Return("malloc") /\ UNCHANGED http_request
    /\ UNCHANGED <<rest, header_cnt, post, cur, body, dangling, owner, cut, fatal>>

\* The chunked labels are empty: both fall through.
WaitClen ==
    /\ pc = "wait_clen"
    /\ wait_state' = "wait_clen"
    /\ pc' = "wait_cval"
    /\ UNCHANGED <<rest, ret, header_cnt, post, post_full_length, cursor, body,
                   http_request, dangling, owner, history>>

WaitCval ==
    /\ pc = "wait_cval"
    /\ wait_state' = "wait_cval"
    /\ pc' = "end"
    /\ UNCHANGED <<rest, ret, header_cnt, post, post_full_length, cursor, body,
                   http_request, dangling, owner, history>>

\* The branch that would split off a following request (lines 184-197) needs
\* next_line < post_full_length, which SplitUnreachable below excludes.
End ==
    /\ pc = "end"
    /\ Return("success")
    /\ wait_state' = "end"
    /\ UNCHANGED <<rest, header_cnt, post, post_full_length, cursor, body,
                   http_request, dangling, owner, history>>

-----------------------------------------------------------------------------
(* The caller's other operations.                                          *)

\* http_parse_pop_request_and_release on a finished context: the caller gets the
\* request, and the text that its headers view is freed.
Pop ==
    /\ pc = "idle" /\ alive /\ wait_state = "end"
    /\ popped' = TRUE
    /\ alive' = FALSE
    /\ LosePost
    /\ UNCHANGED <<rest, feed, wait_state, post, post_full_length, cursor, body,
                   http_request, history>>

\* http_parse_ctx_destroy_chain, when the peer has closed.
Destroy ==
    /\ pc = "idle" /\ alive
    /\ alive' = FALSE
    /\ LosePost
    /\ UNCHANGED <<rest, feed, wait_state, post, post_full_length, cursor, body,
                   http_request, popped, history>>

\* Nothing more happens to a freed context.
Stopped == ~alive /\ UNCHANGED vars

Parse == WaitReq \/ WaitHdr \/ HdrDone \/ WaitFixBody \/ WaitClen \/ WaitCval \/ End

Next == \/ \E n \in 0..Len(rest) : Feed(n)
        \/ Parse
        \/ Pop
        \/ Destroy
        \/ Stopped

Spec == Init /\ [][Next]_vars

\* A call of http_parse_feed runs to its return.  Nothing is assumed of the
\* peer, which may stop sending at any time.
FairSpec == Spec /\ WF_vars(Parse)

-----------------------------------------------------------------------------
(* Properties.                                                             *)

\* The type invariant.
TypeOK ==
    /\ rest \in Seq(STRING)
    /\ pc \in Labels \union {"idle"}
    /\ ret \in Returns
    /\ header_cnt \in 1..HeaderLimit + 1
    /\ wait_state \in WaitStates
    /\ post \in Seq(STRING)
    /\ post_full_length \in Nat
    /\ cur \in Nat
    /\ next_line \in Nat
    /\ body_type \in {"unset", "fixed", "chunked"}
    /\ body_length \in Nat
    /\ dangling \in Nat
    /\ alive \in BOOLEAN
    /\ popped \in BOOLEAN
    /\ faults \in Nat
    /\ cut \in BOOLEAN
    /\ fatal \in BOOLEAN

\* The cursors stay inside the text: every pointer the parser forms from them
\* (get_ctx_cur, get_ctx_next, get_ctx_focus_line) is within post, whatever
\* length a header declares, with or without failing allocations.
CursorsInPost == cur <= Len(post) /\ next_line <= Len(post)

\* The branch of http_parse_feed that splits a following request off post
\* (lines 184-197) can never be taken: there is no state of any execution at
\* the label end with next_line < post_full_length.
SplitUnreachable == pc = "end" => ~(next_line < post_full_length)

\* No wake-up is lost: when a call returns and still waits for a line, post
\* really holds no complete head; nothing but more bytes from the peer can
\* help.  (A call that failed may leave lines unread.)
HeadNotMissed ==
    pc = "idle" /\ wait_state \in {"start", "wait_req", "wait_hdr"}
       /\ faults = 0 /\ ~fatal
        => \A k \in 2..Len(post) - 2 : ~(Crlf(post, k) /\ Crlf(post, k - 2))

\* A request with a declared length is finished only when its whole body is
\* there, whatever allocations failed on the way and however often the call
\* was repeated.  (A length that makes the size_t sum wrap is excluded.)
BodyExact ==
    wait_state = "end" /\ body_type = "fixed" /\ cur + body_length < SizeMod
        => Len(http_request.body) = body_length

\* The parser implements HttpRequestSpec.
Request == INSTANCE HttpRequestSpec WITH
               received  <- post,
               delivered <- IF wait_state = "end"
                            THEN <<LoseFirst(http_request, dangling)>> ELSE <<>>

\* However the stream is cut into segments, a context delivers the request the
\* bytes spell out, and nothing before it is whole.  What does depend on the cuts
\* is which header names and values can still be read: all of them when the
\* request came in one segment, those behind some header when it did not, and
\* none once the request is popped.
ImplementsRequest == Request!Spec

\* The assertions of http_parse_feed never fail, in a build that has them, on a
\* connection that carries exactly one request, however it is cut: the view of
\* the body is as long as declared, and the request ends with post.
AssertionsHold ==
    faults = 0 /\ pc \in {"wait_fix_body", "end"} /\ Request!ExactlyOne(post \o rest)
        => /\ pc = "wait_fix_body" /\ ~BodyMissing => BodyViewWhole
           /\ pc = "end" => EndConsistent /\ PostConsumed

\* A request that has arrived completely is delivered without another byte
\* from the peer.
WholeIsDelivered == Request!Delivery

-----------------------------------------------------------------------------
(* Statements of the repository that the code does not meet.               *)

\* README.md:2, "supports glued TCP segments": what follows a request in the
\* text of its context is still there for the next request.
GluedRequestKept == popped => post_full_length = Len(post)
=============================================================================
