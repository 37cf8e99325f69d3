------------------------------- MODULE Response -------------------------------
(***************************************************************************)
(* What a client job does with a finished request: handle_http_request and *)
(* http_method_get_handler (http_method_dispatch.c), get_absolue_path      *)
(* (socket_util.c), http_response_to_string (http_response.c) and          *)
(* http_send_response (server.c), on the strings of StringT.               *)
(*                                                                         *)
(* A character stands for a word: "CRLF", a field, a number.  The cache is *)
(* abstracted to what ResourceCache shows: a miss opens the file and gives *)
(* its bytes, or none; a hit gives none.  One job is modelled: the jobs of *)
(* different clients share the table only.  A connection serves one        *)
(* request: its context is freed with it, and client.c has no other.       *)
(***************************************************************************)
EXTENDS Startup, Sequences

LOCAL INSTANCE SequencesExt

CONSTANTS
    Nul, Junk, Code, HashMod, Texts, SmallBuf, Capacities, MaxLen,  \* of StringT
    Cwd, Base,     \* the texts of getcwd() and of base_dir
    Files,         \* [absolute path -> bytes] of the files that exist
    Requests,      \* the first requests of the connections, as they are served
    Number         \* [length + 1 -> its decimal text]

\* mmap() gives no file these bytes.
Unmapped == <<"unmapped">>

ASSUME FilesAssumption ==
    \A p \in DOMAIN Files :
        /\ Files[p] # Unmapped
        /\ Files[p] \in Seq(DOMAIN Code) /\ Len(Files[p]) < Len(Number)
ASSUME RequestsAssumption ==
    /\ Requests \in Seq([method : STRING, path : Seq(DOMAIN Code)])
    /\ Cwd \in Seq(DOMAIN Code) /\ Len(Cwd) <= MaxLen /\ Base \in Seq(DOMAIN Code)
ASSUME WordsAssumption ==
    {"/", "HTTP/1.0", " ", "200", "OK", "CRLF", ": ", "Content-Type", "html", "Content-Length"}
    \subseteq DOMAIN Code
\* Each length has a text of its own, that of the unmapped view as well, and no
\* text is a line end.
ASSUME NumberAssumption ==
    /\ Number \in Seq({<<w>> : w \in DOMAIN Code \ {"CRLF"}})
    /\ \A m, n \in DOMAIN Number : Number[m] = Number[n] => m = n
    /\ Len(Unmapped) < Len(Number)

VARIABLES
    small, data, heap, capacity, size, blocks, call, result, failed, \* path, then post
    requests,      \* those that were not popped
    pc,            \* where the job is
    request,       \* the popped request
    todo,          \* the appends before the next step
    keys,          \* the keys of the path table
    html_post,     \* the view of the resource; Unmapped: at MAP_FAILED
    response,      \* http_response_t
    sent,          \* what has been written on the connection
    served,        \* history: the bodies of the responses written whole on it
    stale,         \* history: a view of the handler's numbuf found other bytes
    dangling,      \* history: a key of the table was a view of the handler's frame
    misused        \* history: a context was used that was freed, or in use by another job

stringVars == <<small, data, heap, capacity, size, blocks, call, result, failed>>
reqVars    == <<requests, request>>
outVars    == <<sent, served>>
histVars   == <<stale, dangling, misused>>
jobVars    == <<reqVars, pc, todo, keys, html_post, response, outVars, histVars>>

Str == INSTANCE StringT

ASSUME StringsAssumption == Str!ViewAssumption /\ Str!StringAssumption

EmptyResponse == [version |-> 0, headers |-> <<>>, body |-> <<>>]

JobInit ==
    /\ Str!Init
    /\ requests = Requests /\ pc = "idle" /\ request = [method |-> "none", path |-> <<>>]
    /\ todo = <<>> /\ keys = {} /\ html_post = <<>> /\ response = EmptyResponse
    /\ sent = <<>> /\ served = <<>> /\ stale = FALSE /\ dangling = FALSE
    /\ misused = FALSE

At(l)   == alive /\ pc = l
Goto(l) == pc' = l

\* A call of StringT whose allocation may fail.
Counted == /\ failed' => faults < MaxFaults
           /\ faults' = faults + IF failed' THEN 1 ELSE 0

\* A local string_t is out of scope; its block is not freed.
OutOfScope ==
    /\ data' = "gone" /\ heap' = [i \in {} |-> Junk] /\ capacity' = 0 /\ size' = 0
    /\ UNCHANGED <<small, blocks, call, result, failed>>

-----------------------------------------------------------------------------
(* Texts that are built piece by piece, and the client that reads them.    *)

Add(t)  == [op |-> "append", text |-> t]
Push(c) == [op |-> "push", text |-> <<c>>]

\* get_absolue_path, after the working directory.
PathPieces(postfix) == <<Push("/"), Add(Base), Push("/"), Add(postfix)>>

\* http_get_version_sv: the enumerators count from 0.
VersionSv == <<"HTTP/1.0", "HTTP/1.1", "HTTP/2.0", "HTTP/3.0">>

HeaderPieces(headers) ==
    [k \in 1 .. 4 * Len(headers) |->
        LET h == headers[(k + 3) \div 4]
        IN  <<Add(<<h.field>>), Add(<<": ">>), Add(h.value), Add(<<"CRLF">>)>>[1 + ((k - 1) % 4)]]

\* http_response_to_string.
ResponsePieces(rep) ==
    <<Add(<<VersionSv[rep.version + 1]>>), Push(" "), Add(<<"200">>), Push(" "),
      Add(<<"OK">>), Add(<<"CRLF">>)>>
    \o HeaderPieces(rep.headers)
    \o <<Add(<<"CRLF">>), Add(rep.body), Add(<<"CRLF">>)>>

\* A client that reads by Content-Length, waits for what has not arrived, and
\* passes over an empty line before a status line.
HeadEnd(s) ==
    SelectInSeq([k \in 1 .. Len(s) - 1 |-> s[k] = "CRLF" /\ s[k + 1] = "CRLF"], LAMBDA b : b)
Declared(head) ==
    LET k == SelectInSeq(head, LAMBDA w : w = "Content-Length")
    IN  IF k = 0 \/ k + 2 > Len(head) THEN 0
        ELSE SelectInSeq(Number, LAMBDA w : w = <<head[k + 2]>>) - 1

Bodies[s \in Seq(Str!Cells)] ==
    IF s # <<>> /\ Head(s) = "CRLF" THEN Bodies[Tail(s)]
    ELSE LET k == HeadEnd(s)
             n == Declared(SubSeq(s, 1, k))
         IN  IF k = 0 \/ k + 1 + n > Len(s) THEN <<>>
             ELSE <<SubSeq(s, k + 2, k + 1 + n)>> \o Bodies[SubSeq(s, k + 2 + n, Len(s))]

-----------------------------------------------------------------------------
(* The job.                                                                *)

\* Mutant: the default branch falls out of the switch.
DispatchedAlways(method) == IF method = "GET" THEN "path" ELSE "null"

\* handle_http_request: the switch over the methods.
Dispatched(method) == IF method = "GET" THEN "path" ELSE "idle"

\* The request that a connection has completed.  Its context goes with it, and an
\* unknown method ends the job.
Pop ==
    /\ At("idle") /\ requests # <<>>
    /\ pool = "running" /\ Handled
    /\ request' = Head(requests) /\ requests' = Tail(requests)
    /\ html_post' = <<>> /\ sent' = <<>> /\ served' = <<>>
    /\ Goto(Dispatched(request'.method))
    /\ UNCHANGED <<stringVars, todo, keys, response, histVars, faults, alive>>

\* A later segment of a connection finds the context freed with its request
\* (ctx_tail still points to it), or in the hands of the job of an earlier
\* segment: what it brings is lost, or the process dies.
MisuseContext ==
    /\ alive /\ pool = "running" /\ Handled
    /\ misused' = TRUE
    /\ alive' \in BOOLEAN
    /\ UNCHANGED <<stringVars, reqVars, pc, todo, keys, html_post, response, outVars,
                   stale, dangling, faults>>

\* Mutant: the request is tried again.
HandlerRetries == Goto("path")

\* http_method_get_handler returns an error, which handle_http_request drops:
\* the response that the caller uses is null.
HandlerFails == Goto("null")

\* getcwd() and string_init_from_cstr.
InitPath ==
    /\ At("path")
    /\ \/ /\ Str!InitFrom(Cwd) /\ Counted
          /\ IF result' THEN Goto("append") /\ todo' = PathPieces(request.path)
                        ELSE HandlerFails /\ UNCHANGED todo
       \/ HandlerFails /\ Fault /\ UNCHANGED <<stringVars, todo>>
    /\ UNCHANGED <<reqVars, keys, html_post, response, outVars, histVars, alive>>

\* The bytes at MAP_FAILED are read.
ReadsUnmapped == html_post = Unmapped /\ Head(todo).text = Unmapped

\* One string_append_view, string_append_cstr or string_push_back, whose result
\* nobody looks at.
Build ==
    /\ At("append") \/ At("serialise")
    /\ todo # <<>> /\ ~ReadsUnmapped
    /\ IF Head(todo).op = "push" THEN Str!PushBack(Head(todo).text[1])
                                 ELSE Str!AppendText(Head(todo).text)
    /\ Counted
    /\ todo' = Tail(todo)
    /\ UNCHANGED <<reqVars, pc, keys, html_post, response, outVars, histVars, alive>>

\* get_resource_cached, with a view of the local path as the key.
Lookup ==
    /\ At("append") /\ todo = <<>>
    /\ LET key == Str!Content
       IN  IF table = "none" THEN HandlerFails /\ UNCHANGED <<keys, html_post, dangling, faults>>
           ELSE /\ keys' = keys \union {key}
                /\ dangling' = (dangling \/ (key \notin keys /\ data # "heap"))
                /\ \/ /\ html_post' = IF key \in DOMAIN Files /\ key \notin keys
                                      THEN Files[key] ELSE <<>>
                      /\ UNCHANGED faults
                   \/ html_post' = Unmapped /\ Fault /\ key \in DOMAIN Files /\ key \notin keys
                /\ Goto("new")
    /\ UNCHANGED <<stringVars, reqVars, todo, response, outVars, stale, misused, alive>>

\* http_response_new: the response is written to before its pointer is tested.
NewResponse ==
    /\ At("new")
    /\ \/ /\ response' = EmptyResponse
          /\ Goto("type")
          /\ UNCHANGED <<faults, alive>>
       \/ Fault /\ alive' = FALSE /\ UNCHANGED <<response, pc>>
    /\ UNCHANGED <<stringVars, reqVars, todo, keys, html_post, outVars, histVars>>

\* http_response_add_header.
With(field, value) == Append(response.headers, [field |-> field, value |-> value])

\* The type: without memory for it the handler fails.
AddType ==
    /\ At("type")
    /\ \/ /\ response' = [response EXCEPT !.headers = With("Content-Type", <<"html">>)]
          /\ Goto("length") /\ UNCHANGED faults
       \/ HandlerFails /\ Fault /\ UNCHANGED response
    /\ UNCHANGED <<stringVars, reqVars, todo, keys, html_post, outVars, histVars, alive>>

\* Mutant: the length counts what is sent behind the body.
LengthOfAll(body) == Number[Len(body) + 2]

LengthText(body) == Number[Len(body) + 1]

\* The length, whose result nobody looks at, and the body.  The value is a view
\* of the local numbuf: it is read when the handler has returned, and its frame
\* may hold something else then.
AddLength ==
    /\ At("length")
    /\ \/ \E lost \in BOOLEAN :
             /\ response' = [response EXCEPT !.body = html_post, !.headers =
                     With("Content-Length", IF lost THEN <<Junk>> ELSE LengthText(html_post))]
             /\ stale' = (stale \/ lost)
             /\ UNCHANGED faults
       \/ response' = [response EXCEPT !.body = html_post] /\ Fault /\ UNCHANGED stale
    /\ Goto("send")
    /\ UNCHANGED <<stringVars, reqVars, todo, keys, html_post, outVars, dangling, misused,
                   alive>>

\* The handler's frame is left and http_send_response starts.
Send ==
    /\ At("send")
    /\ OutOfScope
    /\ Goto("post") /\ todo' = ResponsePieces(response)
    /\ UNCHANGED <<reqVars, keys, html_post, response, outVars, histVars, faults, alive>>

\* http_send_response reads a null response, or the assertion of the Debug
\* build stops the process.
SendNull ==
    /\ At("null")
    /\ alive' = FALSE
    /\ UNCHANGED <<stringVars, jobVars, faults>>

\* string_init of post.
InitPost ==
    /\ At("post")
    /\ Str!StringInit
    /\ Goto("serialise")
    /\ UNCHANGED <<reqVars, todo, keys, html_post, response, outVars, histVars, faults, alive>>

BuildUnmapped ==
    /\ At("serialise") /\ todo # <<>> /\ ReadsUnmapped
    /\ alive' = FALSE
    /\ UNCHANGED <<stringVars, jobVars, faults>>

\* write(): whole, short, which passes for a success, or in error, which ends
\* the job.
Write ==
    /\ At("serialise") /\ todo = <<>>
    /\ \/ /\ sent' = sent \o Str!Content
          /\ served' = Append(served, response.body)
          /\ UNCHANGED faults
       \/ /\ Fault /\ UNCHANGED served
          /\ \E n \in 0 .. Len(Str!Content) - 1 : sent' = sent \o SubSeq(Str!Content, 1, n)
    /\ OutOfScope
    /\ Goto("idle")
    /\ UNCHANGED <<reqVars, todo, keys, html_post, response, histVars, alive>>

Job ==
    \/ Pop \/ InitPath \/ Build \/ BuildUnmapped \/ Lookup \/ NewResponse \/ AddType \/ AddLength
    \/ Send \/ SendNull \/ InitPost \/ Write
=============================================================================
