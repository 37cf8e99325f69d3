------------------------------- MODULE Reactor -------------------------------
(***************************************************************************)
(* The event loop of src/src/core/reactor.c, the pool of workers that runs *)
(* handle_server_fd (server.c) and handle_client_fd (client.c), and the    *)
(* life of a connection's client_data_t.                                   *)
(*                                                                         *)
(* The parser is abstracted to what HttpParse establishes: a context       *)
(* collects segments and is finished once it holds a whole request; bytes  *)
(* after that request are lost with it (SplitNeverTaken), so a connection  *)
(* has one context, made with the connection, taken out of the chain and   *)
(* freed when its request is popped.                                       *)
(*                                                                         *)
(* http_parse_feed and http_parse_pop_request_and_release hold no lock,    *)
(* and two jobs of one client may be in them at once.  They are cut where  *)
(* another job can see the difference, and a step that meets another job   *)
(* there is a data race: it kills the process or has any of its outcomes.  *)
(* An access to freed memory is undefined as well: the model lets it end   *)
(* the process or leave no effect.                                         *)
(***************************************************************************)
EXTENDS Sockets

LOCAL INSTANCE SequencesExt

CONSTANTS
    Workers,       \* config_get_handle_threads() of them
    Parts,         \* the segments that make one request
    Gets,          \* the peers that send GET; the others send HEAD, POST or PUT
    MaxEvents,     \* config_get_max_events()
    MaySignal,     \* TRUE: SIGINT may arrive
    MaxFaults,     \* bound of the model: failing allocations and short writes
    NoJob          \* a worker without a job

ASSUME ReactorAssumption ==
    /\ IsFiniteSet(Workers)
    /\ Parts \in Nat \ {0} /\ Parts <= MaxSegments
    /\ Gets \subseteq Clients
    /\ MaxEvents \in Nat \ {0}
    /\ MaySignal \in BOOLEAN
    /\ MaxFaults \in Nat
    /\ NoJob \notin Clients \union {Listen}

VARIABLES
    mainpc,         \* where the main thread is
    batch,          \* events that epoll_wait has returned and no job has been made of
    loop_terminal,  \* set by the signal handler
    queue,          \* the jobs of the pool
    wpc,            \* where each worker is
    job,            \* the usrdata of its job: Listen, or a client
    text,           \* its local receive_post
    usrdata,        \* the client_data_t of each client
    fd,             \* usrdata->fd
    ctx,            \* the context usrdata->ctx_tail points to
    fed,            \* what http_parse_feed has been given for the client
    answered,       \* responses written to each client's socket
    dropped,        \* history: clients an event of which made no job
    overlaps,       \* history: clients of which two jobs have run at once
    faults,         \* faults so far
    alive,          \* the process has not been killed
    uaf             \* history: freed memory has been used

mainVars   == <<mainpc, batch, loop_terminal>>
workerVars == <<wpc, job, text>>
clientVars == <<usrdata, fd, ctx, fed, answered>>
histVars   == <<dropped, overlaps, faults, alive, uaf>>
vars       == <<sockVars, mainVars, queue, workerVars, clientVars, histVars>>

InLoop == mainpc \in {"check", "wait", "blocked", "dispatch"}

Init ==
    /\ SockInit
    /\ mainpc = "start" /\ batch = <<>> /\ loop_terminal = FALSE /\ queue = <<>>
    /\ wpc = [w \in Workers |-> "idle"]
    /\ job = [w \in Workers |-> NoJob]
    /\ text = [w \in Workers |-> <<>>]
    /\ usrdata = [c \in Clients |-> "none"]
    /\ fd = [c \in Clients |-> EpollFd]
    /\ ctx = [c \in Clients |-> "none"]
    /\ fed = [c \in Clients |-> <<>>]
    /\ answered = [c \in Clients |-> 0]
    /\ dropped = {} /\ overlaps = {} /\ faults = 0 /\ alive = TRUE /\ uaf = FALSE

-----------------------------------------------------------------------------
(* The main thread: handle_ipv4_main_loop, then the end of main().         *)

\* A process that has been killed takes no step.
MainAt(l)   == alive /\ mainpc = l
MainGoto(l) == mainpc' = l

Fault == faults < MaxFaults /\ faults' = faults + 1

\* The listening socket is registered; the connections that are already queued
\* make one event.
Start ==
    /\ MainAt("start")
    /\ Add(Listen)
    /\ merged' = IF Len(backlog) > 1 THEN Len(backlog) - 1 ELSE 0
    /\ MainGoto("check")
    /\ UNCHANGED <<fdtab, backlog, peerVars, received, batch, loop_terminal, queue,
                   workerVars, clientVars, histVars>>

\* Mutant: the flag is not looked at.
NeverStops == TRUE

Continuing == ~loop_terminal

Check ==
    /\ MainAt("check")
    /\ MainGoto(IF Continuing THEN "wait" ELSE "close_epoll")
    /\ UNCHANGED <<sockVars, batch, loop_terminal, queue, workerVars, clientVars, histVars>>

\* epoll_wait starts; it fails if the number is no epoll instance any more.
Wait ==
    /\ MainAt("wait")
    /\ MainGoto(IF fdtab[EpollFd] = Epoll THEN "blocked" ELSE "close_epoll")
    /\ UNCHANGED <<sockVars, batch, loop_terminal, queue, workerVars, clientVars, histVars>>

\* epoll_wait returns, and lets go of an instance whose number was closed.
Leave(rest) ==
    IF fdtab[EpollFd] = Epoll THEN ready' = rest /\ UNCHANGED interest
                              ELSE ready' = <<>> /\ interest' = {}

Least(a, b) == IF a <= b THEN a ELSE b

Wake ==
    /\ MainAt("blocked") /\ ready # <<>>
    /\ LET n == Least(MaxEvents, Len(ready))
       IN  /\ batch' = SubSeq(ready, 1, n)
           /\ Leave(SubSeq(ready, n + 1, Len(ready)))
    /\ MainGoto("dispatch")
    /\ UNCHANGED <<fdtab, backlog, merged, peerVars, received, loop_terminal, queue,
                   workerVars, clientVars, histVars>>

\* Mutant: the events after the first are not looked at.
FirstOnly == <<>>

Rest == Tail(batch)

\* Mutant: the loop over the events runs past the last.
AdvanceTooFar == batch' = Rest /\ MainGoto("dispatch")

Advance == batch' = Rest /\ MainGoto(IF Rest = <<>> THEN "check" ELSE "dispatch")

\* One turn of the loop in handle_each_event, which reads data->fd.
Dispatch ==
    /\ MainAt("dispatch")
    /\ Head(batch) \in Clients => usrdata[Head(batch)] = "live"
    /\ queue' = Append(queue, Head(batch))
    /\ Advance
    /\ UNCHANGED <<sockVars, loop_terminal, workerVars, clientVars, histVars>>

\* The same turn with a usrdata that a worker has freed.
DispatchFreed ==
    /\ MainAt("dispatch") /\ Head(batch) \in Clients
    /\ usrdata[Head(batch)] = "freed"
    /\ uaf' = TRUE
    /\ \/ alive' = FALSE /\ UNCHANGED <<queue, mainpc, batch>>
       \/ queue' = Append(queue, Head(batch)) /\ Advance /\ UNCHANGED alive
    /\ UNCHANGED <<sockVars, loop_terminal, workerVars, clientVars, dropped, overlaps, faults>>

\* malloc fails: the loop ends.
DispatchNoMemory ==
    /\ MainAt("dispatch") /\ Fault
    /\ batch' = <<>>
    /\ MainGoto("close_epoll")
    /\ UNCHANGED <<sockVars, loop_terminal, queue, workerVars, clientVars, dropped, overlaps, alive, uaf>>

\* The pool refuses the job; nobody looks at the result.
DispatchRefused ==
    /\ MainAt("dispatch") /\ Fault
    /\ IF Head(batch) = Listen
       THEN merged' = merged + 1 /\ UNCHANGED dropped
       ELSE dropped' = dropped \union {Head(batch)} /\ UNCHANGED merged
    /\ Advance
    /\ UNCHANGED <<fdtab, epollVars, backlog, peerVars, received, loop_terminal, queue,
                   workerVars, clientVars, overlaps, alive, uaf>>

CloseEpoll ==
    /\ MainAt("close_epoll")
    /\ CloseNumber(EpollFd, FALSE)
    /\ MainGoto("close_server")
    /\ UNCHANGED <<backlog, merged, peerVars, received, batch, loop_terminal, queue,
                   workerVars, clientVars, histVars>>

CloseServer ==
    /\ MainAt("close_server")
    /\ CloseNumber(ServerFd, FALSE)
    /\ MainGoto("join")
    /\ UNCHANGED <<backlog, merged, peerVars, received, batch, loop_terminal, queue,
                   workerVars, clientVars, histVars>>

\* thdpool_release: the running jobs end; of the queued ones any number is run.
Join ==
    /\ MainAt("join") /\ \A w \in Workers : wpc[w] = "idle"
    /\ queue' = <<>>
    /\ MainGoto("done")
    /\ UNCHANGED <<sockVars, batch, loop_terminal, workerVars, clientVars, histVars>>

\* SIGINT, delivered to the main thread: ipv4_terminal_fn.  A blocked
\* epoll_wait returns EINTR, which leads back to the loop's condition.
Signal ==
    /\ alive /\ MaySignal /\ ~loop_terminal /\ mainpc # "done"
    /\ loop_terminal' = TRUE
    /\ IF mainpc = "blocked" THEN MainGoto("check") /\ Leave(ready)
                             ELSE UNCHANGED <<mainpc, epollVars>>
    /\ UNCHANGED <<fdtab, backlog, merged, peerVars, received, batch, queue,
                   workerVars, clientVars, histVars>>

Main == \/ Start \/ Check \/ Wait \/ Wake
        \/ Dispatch \/ DispatchFreed \/ DispatchNoMemory \/ DispatchRefused
        \/ CloseEpoll \/ CloseServer \/ Join

-----------------------------------------------------------------------------
(* A worker of the pool.                                                   *)

At(w, l)   == alive /\ wpc[w] = l
Goto(w, l) == wpc' = [wpc EXCEPT ![w] = l]

\* Mutant: the text of one job is still there in the next.
FinishKeepingText(w) ==
    /\ Goto(w, "idle")
    /\ job' = [job EXCEPT ![w] = NoJob]
    /\ UNCHANGED text

\* The job ends, on whichever path.
Finish(w) ==
    /\ Goto(w, "idle")
    /\ job' = [job EXCEPT ![w] = NoJob]
    /\ text' = [text EXCEPT ![w] = <<>>]

Continue(w, l) == Goto(w, l) /\ UNCHANGED <<job, text>>

\* Freed memory is used: the process dies, or the job comes to nothing.
Undefined(w) ==
    /\ uaf' = TRUE
    /\ \/ alive' = FALSE /\ UNCHANGED workerVars
       \/ UNCHANGED alive /\ Finish(w)

TakeJob(w) ==
    /\ At(w, "idle") /\ queue # <<>> /\ mainpc # "done"
    /\ job' = [job EXCEPT ![w] = Head(queue)]
    /\ Goto(w, IF Head(queue) = Listen THEN "accept" ELSE "read")
    /\ queue' = Tail(queue)
    /\ overlaps' = overlaps \union ({Head(queue)} \intersect Clients \intersect {job[v] : v \in Workers})
    /\ UNCHANGED <<sockVars, mainVars, text, clientVars, dropped, faults, alive, uaf>>

(* handle_server_fd: one turn of its loop, whose every path returns.       *)

\* Mutant: the result of accept() is tested the wrong way round.
AcceptFails(w) == FALSE

Accepting(w) == At(w, "accept") /\ fdtab[ServerFd] = Listen /\ backlog # <<>>

\* accept() and create_client_data.
Accept(w) ==
    /\ Accepting(w)
    /\ LET c == Head(backlog)
       IN  \E n \in Fds :
              /\ LowestFree(n)
              /\ fdtab' = [fdtab EXCEPT ![n] = c]
              /\ fd' = [fd EXCEPT ![c] = n]
              /\ usrdata' = [usrdata EXCEPT ![c] = "live"]
              /\ ctx' = [ctx EXCEPT ![c] = "parsing"]
              /\ job' = [job EXCEPT ![w] = c]
    /\ backlog' = Tail(backlog)
    /\ Goto(w, "register")
    /\ UNCHANGED <<epollVars, merged, peerVars, received, mainVars, queue, text,
                   fed, answered, histVars>>

\* create_client_data fails: the connection is closed.
AcceptNoMemory(w) ==
    /\ Accepting(w) /\ ~TableFull /\ Fault
    /\ backlog' = Tail(backlog)
    /\ Finish(w)
    /\ UNCHANGED <<fdtab, epollVars, merged, peerVars, received, mainVars, queue,
                   clientVars, dropped, overlaps, alive, uaf>>

\* EMFILE: the connection goes on waiting, and its event is used up.
AcceptFull(w) ==
    /\ Accepting(w) /\ TableFull
    /\ merged' = merged + 1
    /\ Finish(w)
    /\ UNCHANGED <<fdtab, epollVars, backlog, peerVars, received, mainVars, queue,
                   clientVars, histVars>>

\* EAGAIN, or the number is not the listening socket any more.
AcceptNothing(w) ==
    /\ At(w, "accept") /\ ~Accepting(w)
    /\ Finish(w)
    /\ UNCHANGED <<sockVars, mainVars, queue, clientVars, histVars>>

\* Mutant: EPOLLOUT is watched as well, and reported at once.
WatchOutput(c) == interest' = interest \union {c} /\ ready' = Append(ready, c)

Watch(c) == Add(c)

\* EPOLL_CTL_ADD; if it fails the socket is closed and usrdata leaked.
Register(w) ==
    /\ At(w, "register")
    /\ IF fdtab[EpollFd] = Epoll THEN Watch(job[w]) /\ UNCHANGED fdtab
                                 ELSE CloseNumber(fd[job[w]], FALSE)
    /\ Finish(w)
    /\ UNCHANGED <<backlog, merged, peerVars, received, mainVars, queue,
                   clientVars, histVars>>

(* handle_client_fd.                                                       *)

Uses(w, l) == At(w, l) /\ usrdata[job[w]] = "live"

\* Another job of the same client has freed usrdata.
UseFreed(w) ==
    /\ alive /\ wpc[w] \in {"read", "feed", "parse", "pop", "take", "unlink", "answer",
                            "del", "free"}
    /\ usrdata[job[w]] = "freed"
    /\ Undefined(w)
    /\ UNCHANGED <<sockVars, mainVars, queue, clientVars, dropped, overlaps, faults>>

\* The file that a read or a write of the job reaches.
Peer(w) == fdtab[fd[job[w]]]

\* Mutant: one read() per event.
ReadOnce(w) == "feed"

ReadAgain(w) == "read"

\* read() returns what fits into the buffer: the loop of read_client goes on.
Read(w) ==
    /\ Uses(w, "read") /\ Peer(w) \in Clients
    /\ \E k \in received[Peer(w)] + 1 .. sent[Peer(w)] :
          /\ text' = [text EXCEPT ![w] = @ \o Segments(Peer(w), received[Peer(w)], k)]
          /\ received' = [received EXCEPT ![Peer(w)] = k]
    /\ Goto(w, ReadAgain(w))
    /\ UNCHANGED <<fdtab, epollVars, backlog, merged, peerVars, mainVars, queue, job,
                   clientVars, histVars>>

\* read() returns 0 or an error: what this call has read is thrown away.
ReadEnd(w) ==
    /\ Uses(w, "read")
    /\ Peer(w) \in Clients => Peer(w) \in gone /\ received[Peer(w)] = sent[Peer(w)]
    /\ Continue(w, "del")
    /\ UNCHANGED <<sockVars, mainVars, queue, clientVars, histVars>>

\* Mutant: EAGAIN is an error like the others.
EagainIsError(w) == "del"

OnEagain(w) == "feed"

\* EAGAIN.
ReadEmpty(w) ==
    /\ Uses(w, "read") /\ Peer(w) \in Clients /\ ~Readable(Peer(w))
    /\ Continue(w, OnEagain(w))
    /\ UNCHANGED <<sockVars, mainVars, queue, clientVars, histVars>>

(* http_parse_feed on ctx_tail, and http_parse_pop_request_and_release on   *)
(* ctx_beg.                                                                *)

Feeding == {"feed", "parse"}
Popping == {"take", "unlink", "release"}

\* Another job of the same client is at one of these steps, or in the middle of it.
Meets(w, steps) == \E v \in Workers \ {w} : job[v] = job[w] /\ wpc[v] \in steps

\* ctx_beg still points to the context.
InChain(c) == ctx[c] \in {"parsing", "ended"}

\* Mutant: the last part of a request is not waited for.
WholeTooEarly(c, s) == Len(s) >= 1

Whole(c, s) == Len(s) >= Parts /\ SubSeq(s, 1, Parts) = Segments(c, 0, Parts)

\* string_append_view, called with whatever was read, be it nothing.  In a race
\* one of the texts may be lost.
Feed(w) ==
    /\ Uses(w, "feed") /\ ctx[job[w]] # "freed"
    /\ \/ fed' = [fed EXCEPT ![job[w]] = @ \o text[w]]
       \/ Meets(w, {"feed"}) /\ UNCHANGED fed
    /\ Continue(w, "parse")
    /\ UNCHANGED <<sockVars, mainVars, queue, usrdata, fd, ctx, answered, histVars>>

\* The labels of http_parse_feed.  A context that has ended stays as it is; in a
\* race wait_state is what either job has written.
Parse(w) ==
    /\ Uses(w, "parse") /\ ctx[job[w]] # "freed"
    /\ LET c == job[w]
       IN  \/ ctx' = [ctx EXCEPT ![c] = IF @ = "parsing" /\ Whole(c, fed[c]) THEN "ended" ELSE @]
          \/ /\ Meets(w, Feeding) /\ InChain(c)
             /\ \E s \in {"parsing", "ended"} : ctx' = [ctx EXCEPT ![c] = s]
    /\ Continue(w, "pop")
    /\ UNCHANGED <<sockVars, mainVars, queue, usrdata, fd, fed, answered, histVars>>

\* The text does not fit, or what is parsed of it: http_err_malloc is not
\* http_err_request_fatal.
FeedNoMemory(w) ==
    /\ Uses(w, "feed") \/ Uses(w, "parse")
    /\ ctx[job[w]] # "freed" /\ Fault
    /\ Continue(w, "pop")
    /\ UNCHANGED <<sockVars, mainVars, queue, clientVars, dropped, overlaps, alive, uaf>>

\* The test of *head and of its wait_state: with no finished request the job is
\* over.
Pop(w) ==
    /\ Uses(w, "pop")
    /\ IF ctx[job[w]] = "ended" THEN Continue(w, "take") ELSE Finish(w)
    /\ UNCHANGED <<sockVars, mainVars, queue, clientVars, histVars>>

\* *out_req = (*head)->http_request.
Take(w) ==
    /\ Uses(w, "take") /\ InChain(job[w])
    /\ Continue(w, "unlink")
    /\ UNCHANGED <<sockVars, mainVars, queue, clientVars, histVars>>

\* http_request and *head are cleared.  Another job that has taken the request
\* too may have done so before.
Unlink(w) ==
    /\ Uses(w, "unlink") /\ ctx[job[w]] # "freed"
    /\ ctx' = [ctx EXCEPT ![job[w]] = "popped"]
    /\ Continue(w, "release")
    /\ UNCHANGED <<sockVars, mainVars, queue, usrdata, fd, fed, answered, histVars>>

\* Mutant: *head still leads to the request.
ReleaseKeepingHead(w) ==
    /\ At(w, "release") /\ ctx[job[w]] = "popped"
    /\ ctx' = [ctx EXCEPT ![job[w]] = "ended"]
    /\ Continue(w, "answer")
    /\ UNCHANGED <<sockVars, mainVars, queue, usrdata, fd, fed, answered, histVars>>

\* http_parse_ctx_free_node, on a local of the function.
Release(w) ==
    /\ At(w, "release") /\ ctx[job[w]] = "popped"
    /\ ctx' = [ctx EXCEPT ![job[w]] = "freed"]
    /\ Continue(w, "answer")
    /\ UNCHANGED <<sockVars, mainVars, queue, usrdata, fd, fed, answered, histVars>>

\* ctx_tail was not updated when its context was popped, or another job has
\* freed the context in between.
ContextFreed(w) ==
    /\ \E l \in {"feed", "parse", "take", "unlink"} : Uses(w, l)
    /\ ctx[job[w]] = "freed"
    /\ Undefined(w)
    /\ UNCHANGED <<sockVars, mainVars, queue, clientVars, dropped, overlaps, faults>>

\* Two jobs have taken one request: its context is freed twice, and if that
\* goes well the request is answered twice.
DoubleFree(w) ==
    /\ At(w, "release") /\ ctx[job[w]] = "freed"
    /\ uaf' = TRUE
    /\ \/ alive' = FALSE /\ UNCHANGED workerVars
       \/ UNCHANGED alive /\ Continue(w, "answer")
    /\ UNCHANGED <<sockVars, mainVars, queue, clientVars, dropped, overlaps, faults>>

\* The race kills the process: a block that the other job has moved or freed, or
\* a *head or http_request that it has cleared.
RaceKills(w) ==
    /\ alive /\ wpc[w] \in Feeding \union Popping /\ Meets(w, Feeding \union Popping)
    /\ alive' = FALSE
    /\ UNCHANGED <<sockVars, mainVars, queue, workerVars, clientVars, dropped, overlaps, faults, uaf>>

\* A GET is answered by one write().
Answer(w) ==
    /\ Uses(w, "answer") /\ job[w] \in Gets /\ Peer(w) \in Clients
    /\ answered' = [answered EXCEPT ![Peer(w)] = @ + 1]
    /\ Continue(w, "pop")
    /\ UNCHANGED <<sockVars, mainVars, queue, usrdata, fd, ctx, fed, histVars>>

\* No response: the method is unknown, or the socket is gone.
AnswerError(w) ==
    /\ Uses(w, "answer") /\ (job[w] \notin Gets \/ Peer(w) \notin Clients)
    /\ Finish(w)
    /\ UNCHANGED <<sockVars, mainVars, queue, clientVars, histVars>>

\* The write is short, which passes for a success, or fails.
AnswerShort(w) ==
    /\ Uses(w, "answer") /\ job[w] \in Gets /\ Peer(w) \in Clients /\ Fault
    /\ Continue(w, "pop") \/ Finish(w)
    /\ UNCHANGED <<sockVars, mainVars, queue, clientVars, dropped, overlaps, alive, uaf>>

\* SIGPIPE, which is not ignored.
AnswerKilled(w) ==
    /\ Uses(w, "answer") /\ job[w] \in Gets /\ Peer(w) \in gone
    /\ alive' = FALSE
    /\ UNCHANGED <<sockVars, mainVars, queue, workerVars, clientVars, dropped, overlaps, faults, uaf>>

\* The handler fails, which nobody sees: its null response is read (Response
\* has the calls that may fail).
AnswerNull(w) ==
    /\ Uses(w, "answer") /\ job[w] \in Gets /\ Fault
    /\ alive' = FALSE
    /\ UNCHANGED <<sockVars, mainVars, queue, workerVars, clientVars, dropped, overlaps, uaf>>

\* The label closefd: EPOLL_CTL_DEL, whose error is only logged.
Del(w) ==
    /\ Uses(w, "del")
    /\ IF fdtab[EpollFd] = Epoll THEN Forget(Peer(w)) ELSE UNCHANGED epollVars
    /\ Continue(w, "close")
    /\ UNCHANGED <<fdtab, backlog, merged, peerVars, received, mainVars, queue,
                   clientVars, histVars>>

\* close(epoll_fd).
Close(w) ==
    /\ At(w, "close")
    /\ CloseNumber(EpollFd, mainpc = "blocked")
    /\ Continue(w, "free")
    /\ UNCHANGED <<backlog, merged, peerVars, received, mainVars, queue,
                   clientVars, histVars>>

\* client_data_free destroys the chain of contexts as well.
Free(w) ==
    /\ Uses(w, "free")
    /\ usrdata' = [usrdata EXCEPT ![job[w]] = "freed"]
    /\ ctx' = [ctx EXCEPT ![job[w]] = IF InChain(job[w]) THEN "freed" ELSE @]
    /\ Finish(w)
    /\ UNCHANGED <<sockVars, mainVars, queue, fd, fed, answered, histVars>>

ServerJob(w) == \/ Accept(w) \/ AcceptNoMemory(w) \/ AcceptFull(w)
                \/ AcceptNothing(w) \/ Register(w)

ClientJob(w) == \/ UseFreed(w) \/ Read(w) \/ ReadEnd(w) \/ ReadEmpty(w)
                \/ Feed(w) \/ Parse(w) \/ FeedNoMemory(w)
                \/ Pop(w) \/ Take(w) \/ Unlink(w) \/ Release(w)
                \/ ContextFreed(w) \/ DoubleFree(w) \/ RaceKills(w)
                \/ Answer(w) \/ AnswerError(w) \/ AnswerShort(w) \/ AnswerKilled(w)
                \/ AnswerNull(w)
                \/ Del(w) \/ Close(w) \/ Free(w)

Worker(w) == TakeJob(w) \/ ServerJob(w) \/ ClientJob(w)

Arrive(c) ==
    /\ alive /\ PeerStep(c)
    /\ UNCHANGED <<mainVars, queue, workerVars, clientVars, histVars>>

Next == \/ Main
        \/ Signal
        \/ \E c \in Clients : Arrive(c)
        \/ \E w \in Workers : Worker(w)

Spec == Init /\ [][Next]_vars

\* The system runs the main thread and every worker.  The peers and the signal
\* may never come.
FairSpec == /\ Spec
            /\ WF_vars(Main)
            /\ \A w \in Workers : WF_vars(Worker(w))

-----------------------------------------------------------------------------
(* Properties.                                                             *)

MainTypeOK ==
    /\ mainpc \in {"start", "check", "wait", "blocked", "dispatch",
                   "close_epoll", "close_server", "join", "done"}
    /\ batch \in Seq(Clients \union {Listen})
    /\ mainpc = "dispatch" <=> batch # <<>>
    /\ loop_terminal \in BOOLEAN
    /\ queue \in Seq(Clients \union {Listen})

WorkerTypeOK ==
    /\ wpc \in [Workers -> {"idle", "accept", "register", "read", "feed", "parse", "pop",
                            "take", "unlink", "release", "answer", "del", "close", "free"}]
    /\ job \in [Workers -> Clients \union {Listen, NoJob}]
    /\ text \in [Workers -> Seq(Clients \X (1 .. MaxSegments))]

ClientTypeOK ==
    /\ usrdata \in [Clients -> {"none", "live", "freed"}]
    /\ fd \in [Clients -> Fds]
    /\ ctx \in [Clients -> {"none", "parsing", "ended", "popped", "freed"}]
    /\ fed \in [Clients -> Seq(Clients \X (1 .. MaxSegments))]
    /\ answered \in [Clients -> Nat]

HistTypeOK ==
    /\ dropped \subseteq Clients /\ overlaps \subseteq Clients
    /\ faults \in 0 .. MaxFaults
    /\ alive \in BOOLEAN /\ uaf \in BOOLEAN

\* The type invariant.
TypeOK == SockTypeOK /\ MainTypeOK /\ WorkerTypeOK /\ ClientTypeOK /\ HistTypeOK

\* The server is working: the epoll instance is open and the loop runs.
Working == InLoop /\ fdtab[EpollFd] = Epoll /\ alive

\* Somebody will still look at the socket for what has arrived.
InFlight(i) == i \in ToSet(ready) \union ToSet(batch) \union ToSet(queue)

\* Edge triggered readiness loses nothing: as long as a registered client has
\* unread segments, or has closed, an event, a job or a reading worker of that
\* client is on its way.  (A use of freed memory, or a job that the pool
\* refused, voids it.)
UnreadIsScheduled ==
    Working /\ ~uaf =>
        \A c \in (interest \intersect Clients) \ dropped :
            Readable(c) => \/ InFlight(c)
                           \/ \E w \in Workers : job[w] = c /\ wpc[w] \in {"read", "del"}

CountIn(s) == Cardinality({i \in DOMAIN s : s[i] = Listen})

\* handle_server_fd accepts one connection per event, so a connection whose
\* arrival was merged with another's may wait for ever; but no more connections
\* are left waiting than arrivals were merged.
WaitingIsMerged ==
    Working => Len(backlog) <= merged + CountIn(ready) + CountIn(batch) + CountIn(queue)
                               + Cardinality({w \in Workers : wpc[w] = "accept"})

\* The segments of a client reach its parser in the order they were sent.
FedInOrder == \A c \in Clients : IsPrefix(fed[c], Stream(c))

\* The clients for whom nothing holds any more: two jobs of theirs have run at
\* once, without a lock; or freed memory has been used, whosever it was.
Spoilt == IF uaf THEN Clients ELSE overlaps

\* Only a client whose jobs overlapped, or a failing allocation, loses or
\* exchanges segments: the others' reach the parser in the order they were sent,
\* however many workers there are and whatever happens to their connections.
OrderLostInOverlap ==
    faults = 0 => \A c \in Clients \ Spoilt : IsPrefix(fed[c], Stream(c))

\* No freed client_data_t and no freed context is used.
NoUseAfterFree == ~uaf

\* The event loop ends only after SIGINT, a failing allocation, or the end of
\* some client's connection, which closes the epoll instance.
EndHasReason ==
    mainpc \in {"close_epoll", "close_server", "join", "done"} =>
        loop_terminal \/ faults > 0 \/ gone # {}

\* The socket of a client whose connection is over is closed.
SocketClosed == \A c \in Clients : usrdata[c] = "freed" => fdtab[fd[c]] # c

\* A registered client that has sent its whole request gets its response, while
\* the server works and he stays, unless two jobs of his ran at once.
RequestAnswered ==
    \A c \in Gets :
        (c \in interest /\ sent[c] >= Parts)
            ~> (answered[c] > 0 \/ ~Working \/ c \in gone \union Spoilt)

\* SIGINT ends the server when the next event of the listening socket arrives at
\* the latest: a signal between the loop's test and epoll_wait is noticed only
\* then.  (The event of a client may be withdrawn by a worker that ends the
\* connection, before epoll_wait has returned it.)
SignalEndsAtConnection ==
    (loop_terminal /\ Listen \in ToSet(ready)) ~> (mainpc = "done" \/ ~alive)

\* What a client may count on, and for how long: until two jobs of his have run
\* at once he gets one response at most, and only to a request that he has sent
\* whole, whatever happens to the connections of others.
Service == INSTANCE ClientService WITH
    asked   <- {c \in Clients : sent[c] >= Parts},
    replies <- answered,
    void    <- Spoilt

ServiceSafe == Service!Spec
=============================================================================
