----------------------------- MODULE HttpSyntax -----------------------------
(***************************************************************************)
(* The pure line-level functions of the request parser                     *)
(* (src/src/http/http_parse_dfa.c, http_types.c).                          *)
(*                                                                         *)
(* A received text is a sequence of symbols.  The four symbols the parser  *)
(* tests byte by byte are constants of this module; every other symbol is  *)
(* a word, which stands for a run of bytes the parser only ever compares   *)
(* as a whole.  Positions are the C offsets, counted from 0: the symbol at *)
(* offset k of a text p is p[k + 1].                                       *)
(***************************************************************************)
EXTENDS Integers, Sequences, FiniteSetsExt

CONSTANT LengthOf   \* [word -> int64]: strtoll() on the words that start with digits

CR    == "CR"
LF    == "LF"
SP    == "SP"
COLON == "COLON"

Unknown == "unkown"       \* http_method_unkown, http_ver_unkown, http_hdr_unkown

Methods  == {"GET", "HEAD", "POST", "PUT"}
Versions == {"HTTP/1.0", "HTTP/1.1", "HTTP/2", "HTTP/3"}

\* The header fields of http_hdr.def whose value the program reads, and one
\* field, Host, for those it only stores.
FieldWords == {"Content-Length", "Transfer-Encoding", "Connection", "Host"}

-----------------------------------------------------------------------------
(* Text and views.                                                         *)

\* A "\r\n" starts at offset k of p: the test of update_ctx_to_next_clrf.
Crlf(p, k) == /\ k \in 0..Len(p) - 2
              /\ p[k + 1] = CR
              /\ p[k + 2] = LF

\* k is the offset of the first "\r\n" of p at or after offset from.
FirstCrlf(p, from, k) == /\ k >= from
                         /\ Crlf(p, k)
                         /\ \A j \in from..k - 1 : ~Crlf(p, j)

\* string_view_substr: the part of p from offset pos, at most len symbols of
\* it; a start at or past the end gives the empty view.
View(p, pos, len) ==
    IF pos >= Len(p) THEN <<>>
    ELSE SubSeq(p, pos + 1, IF len < Len(p) - pos THEN pos + len ELSE Len(p))

\* The view with the symbols from offset pos on (length string_t_npos).
Rest(p, pos) == View(p, pos, Len(p))

\* pos_next_token: offset of the first c at or after offset from, -1 if none.
NextToken(line, c, from) ==
    LET at == {k \in from..Len(line) - 1 : line[k + 1] = c}
    IN  IF at = {} THEN -1 ELSE Min(at)

\* The symbol a one-word view consists of, if it is one of words.
Match(view, words) ==
    IF Len(view) = 1 /\ view[1] \in words THEN view[1] ELSE Unknown

-----------------------------------------------------------------------------
(* Request line.                                                           *)

\* calloc() in http_request_new: method and version are the first enumerators.
NewRequest == [method |-> "GET", path |-> <<>>, version |-> "HTTP/1.0",
               headers |-> <<>>, body |-> <<>>]

\* parse_request_line on one line; mem is the outcome of copying the path.
\* Each early return leaves the fields assigned so far.
ParseRequestLine(request, line, mem) ==
    LET t1 == NextToken(line, SP, 0)
        t2 == NextToken(line, SP, t1 + 1)
        withMethod == [request EXCEPT !.method = Match(View(line, 0, t1), Methods)]
    IN  IF t1 = -1
        THEN [request EXCEPT !.method = Unknown, !.version = Unknown]
        ELSE IF t2 = -1 \/ ~mem THEN withMethod
        ELSE [withMethod EXCEPT !.path    = View(line, t1 + 1, t2 - t1 - 1),
                                !.version = Match(Rest(line, t2 + 1), Versions)]

-----------------------------------------------------------------------------
(* Header lines.                                                           *)

HasColon(line) == NextToken(line, COLON, 0) # -1
Key(line)      == View(line, 0, NextToken(line, COLON, 0))

\* One space after the colon is skipped.
Value(line) ==
    LET v == Rest(line, NextToken(line, COLON, 0) + 1)
    IN  IF v # <<>> /\ v[1] = SP THEN Tail(v) ELSE v

\* http_hdr_value_parse_content_length skips further blanks before strtoll:
\* the index of the word that follows them, 0 if there is none.
Number(value) ==
    LET words == {i \in DOMAIN value : value[i] # SP}
    IN  IF words = {} THEN 0 ELSE Min(words)

\* http_hdr_parse_value: does the value parse as its field demands?
ValueParses(field, value) ==
    /\ field = "Content-Length" =>
           Number(value) # 0 /\ value[Number(value)] \in DOMAIN LengthOf
    /\ field = "Transfer-Encoding" => value = <<"chunked">>
    /\ field = "Connection" => value \in {<<"keep-alive">>, <<"close">>}

\* http_match_header_field, and the fall back to an unknown field when the
\* value does not parse (parse_header_line).
FieldOf(line) ==
    LET field == Match(Key(line), FieldWords)
    IN  IF ValueParses(field, Value(line)) THEN field ELSE Unknown

\* What header_line_update_body_type reads off a header.
DeclaresLength(line)  == HasColon(line) /\ FieldOf(line) = "Content-Length"
DeclaresChunked(line) == HasColon(line) /\ FieldOf(line) = "Transfer-Encoding"
DeclaredLength(line)  == LengthOf[Value(line)[Number(Value(line))]]

\* The http_header_t pushed for a line that has a colon.  Field, length and
\* connection type are its own; name and value are views of the line, given here
\* by what they spell when they are made.
HeaderOf(line) ==
    [field      |-> FieldOf(line),
     length     |-> IF FieldOf(line) = "Content-Length" THEN DeclaredLength(line) ELSE 0,
     connection |-> IF FieldOf(line) = "Connection" THEN Value(line)[1] ELSE Unknown,
     name       |-> IF FieldOf(line) = Unknown THEN Key(line) ELSE <<>>,
     value      |-> Value(line)]

\* A view of a block that has been freed spells nothing; an empty one is never
\* followed.
Gone       == <<"gone">>
Lose(view) == IF view = <<>> THEN <<>> ELSE Gone

LoseText(header) == [header EXCEPT !.name = Lose(@), !.value = Lose(@)]

\* What can be read of a request when the views of its first k headers dangle.
LoseFirst(request, k) ==
    [request EXCEPT !.headers =
        [i \in DOMAIN @ |-> IF i <= k THEN LoseText(@[i]) ELSE @[i]]]

=============================================================================
