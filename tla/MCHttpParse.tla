---------------------------- MODULE MCHttpParse ----------------------------
(* Instances of HttpParse for TLC.                                         *)
EXTENDS HttpParse

MCLengthOf == [w \in {"0", "1", "3", "-1"} |->
                 CASE w = "0" -> 0 [] w = "1" -> 1 [] w = "3" -> 3 [] w = "-1" -> -1]

Crlf_  == <<CR, LF>>
Get    == <<"GET", SP, "/", SP, "HTTP/1.1", CR, LF>>
Post   == <<"POST", SP, "/", SP, "HTTP/1.1", CR, LF>>
Host   == <<"Host", COLON, SP, "h", CR, LF>>
CL(n)  == <<"Content-Length", COLON, SP, n, CR, LF>>
TE     == <<"Transfer-Encoding", COLON, "chunked", CR, LF>>

\* One well-formed request each, without a transfer encoding.
WellFormed == {
    Get \o Crlf_,
    Get \o Host \o Crlf_,
    Post \o CL("0") \o Crlf_,
    Post \o CL("3") \o Crlf_ \o <<CR, LF, "x">>,
    Post \o CL("1") \o Host \o CL("3") \o Crlf_ \o <<CR, LF, CR>> }

\* Odd and truncated requests, and bytes after the end of a request.
Odd == {
    Crlf_ \o Crlf_,
    <<"x", CR, LF, CR, LF>>,
    <<"GET", SP, "/", CR, LF, CR, CR, LF, LF, CR, LF, CR, LF>>,
    Get \o <<"x", CR, LF>> \o Crlf_,
    Get \o <<"Content-Length", COLON, "x", CR, LF>> \o Crlf_ \o <<"x">>,
    Get \o <<"Content-Length", COLON, CR, LF>> \o Crlf_,
    Get \o <<"Connection", COLON, SP, "close", CR, LF>> \o Crlf_,
    Post \o CL("3") \o Crlf_ \o <<"x", "x">>,
    Post \o CL("3") \o TE \o Crlf_ \o <<"x">>,
    Post \o TE \o CL("1") \o Crlf_ \o <<"x">>,
    Get \o Crlf_ \o Get \o Crlf_,
    Post \o CL("1") \o Crlf_ \o <<"x">> \o Get }

\* Every text of up to 5 symbols, after a request line.
Short == {Get \o s : s \in UNION {[1..n -> {CR, LF, "x"}] : n \in 0..5}}

\* A negative length, which the code keeps as a huge size_t; and, with a
\* HeaderLimit of 3, heads below, at and above the limit of the header loop.
Limits == {
    Post \o CL("-1") \o Crlf_ \o <<"x">>,
    Post \o CL("1") \o Crlf_ \o <<"x">>,
    Post \o Host \o CL("3") \o Crlf_ \o <<CR, LF, "x">>,
    Get \o Host \o Host \o Host \o Crlf_,
    Post \o CL("1") \o TE \o Crlf_ \o <<"x">> }

\* Two requests in one stream.
Glued == {Get \o Crlf_ \o Get \o Crlf_, Post \o CL("1") \o Crlf_ \o <<"x">> \o Get \o Crlf_}

AllStreams == WellFormed \union Odd \union Short
=============================================================================
