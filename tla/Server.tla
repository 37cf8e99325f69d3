------------------------------- MODULE Server -------------------------------
(***************************************************************************)
(* The process: its main thread (Startup) and a job of the pool (Response),*)
(* which begin, serve and end together.                                    *)
(***************************************************************************)
EXTENDS Response

vars == <<mainVars, stringVars, jobVars, faults, alive>>

Init == MainInit /\ JobInit

Next ==
    \/ Main(pc = "idle") /\ UNCHANGED <<stringVars, jobVars>>
    \/ Job /\ UNCHANGED mainVars
    \/ MisuseContext /\ UNCHANGED mainVars

\* A step of a thread that can go on is taken in the end.  No peer has to send a
\* second segment, and nothing makes the loop end: a signal between its test and
\* epoll_wait may be missed (Reactor).
Fairness ==
    /\ WF_vars(Job /\ UNCHANGED mainVars)
    /\ WF_vars(Releasing(pc = "idle") /\ UNCHANGED <<stringVars, jobVars>>)

Spec == Init /\ [][Next]_vars /\ Fairness

-----------------------------------------------------------------------------
(* Properties.  Once a job has used a context that it must not use, nothing *)
(* is said of the process: the model gives the outcome that it dies and the *)
(* one that nobody notices, and memory may hold anything.                   *)

\* A client that takes Content-Length at its word finds the body of the response
\* that was written, and no other, as long as no call failed and no numbuf was
\* overwritten: the CRLF behind the body is an empty line, which it passes over.
ClientReadsBodies == faults = 0 /\ ~stale /\ ~misused => Bodies[sent] = served

\* A key of the path table is a view of a string local to the handler, which
\* lives on only because string_append_view has moved it into a block that
\* nobody frees.  It points into the handler's frame only if every one of the
\* four appends had no memory.
KeyOutlivesHandler == dangling /\ ~misused => faults >= 4

\* As long as the clients stay and each sends one request in one segment, only a
\* call that failed kills the process, or SIGINT before its handler is there: a
\* missing file is answered, with an empty body and the status 200, and a method
\* that is not served ends the job alone.
DeathHasCause == ~alive /\ status = "running" => faults > 0 \/ misused

\* A job runs only while what it uses is there: the pool, the logger, the
\* table or none from the start, and a configuration without a hole.
ServesWithinLife ==
    alive /\ ~misused /\ pc # "idle" =>
        /\ pool = "running" /\ logger = "open" /\ table # "freed"
        /\ \A k \in DOMAIN config : config[k] # "unset"

\* Every request that a job has taken is served or ends with the process; once
\* the loop has ended, so does the process, whatever job was running.
EverythingEnds ==
    /\ (pc # "idle") ~> (pc = "idle" \/ ~alive \/ misused)
    /\ (phase = "close") ~> (~alive \/ misused)
=============================================================================
