------------------------------- MODULE Sockets -------------------------------
(***************************************************************************)
(* What the server sees of the kernel and of its peers: the table of file  *)
(* numbers, the queue of connections that wait for accept(), the received  *)
(* segments, and one edge triggered epoll instance.  None of it is code of *)
(* the repository: it is modelled from how src/src/core uses it.           *)
(***************************************************************************)
EXTENDS Integers, Sequences, FiniteSets

LOCAL INSTANCE SequencesExt

CONSTANTS
    Clients,       \* the peers; each connects once
    Listen,        \* the listening socket
    Epoll,         \* the epoll instance
    NoFile,        \* a file number that is not open
    Fds,           \* the file numbers
    ServerFd,      \* the number of the listening socket
    EpollFd,       \* the number of the epoll instance
    MaxSegments,   \* bound of the model: segments a peer sends
    MayClose       \* the peers that may close their side

ASSUME FilesDistinct == /\ Listen \notin Clients /\ Epoll \notin Clients /\ NoFile \notin Clients
                        /\ Listen # Epoll /\ Listen # NoFile /\ Epoll # NoFile
ASSUME FdsAssumption == Fds \subseteq Nat /\ ServerFd \in Fds /\ EpollFd \in Fds /\ ServerFd # EpollFd
ASSUME PeersAssumption == MaxSegments \in Nat /\ MayClose \subseteq Clients

VARIABLES
    fdtab,      \* file number -> the file it refers to
    interest,   \* the sockets registered with EPOLLIN | EPOLLET
    ready,      \* the events epoll_wait has not returned yet, oldest first
    backlog,    \* connections that accept() has not returned yet
    merged,     \* history: connections whose arrival made no event, or whose event was lost
    met,        \* the peers that have connected
    sent,       \* number of segments each peer has sent
    received,   \* number of segments of each peer that read() has returned
    gone        \* the peers that have closed their side

epollVars == <<interest, ready>>
peerVars  == <<met, sent, gone>>
sockVars  == <<fdtab, epollVars, backlog, merged, peerVars, received>>

SockInit ==
    /\ fdtab = [n \in Fds |-> IF n = ServerFd THEN Listen ELSE IF n = EpollFd THEN Epoll ELSE NoFile]
    /\ interest = {} /\ ready = <<>> /\ backlog = <<>> /\ merged = 0
    /\ met = {} /\ gone = {}
    /\ sent = [c \in Clients |-> 0]
    /\ received = [c \in Clients |-> 0]

Unused(n) == fdtab[n] = NoFile

\* The kernel gives out the least number; with none left a call fails with EMFILE.
LowestFree(n) == Unused(n) /\ \A k \in Fds : Unused(k) => n <= k
TableFull == \A n \in Fds : ~Unused(n)

\* Events without that of i, of which there is one at most.
Without(s, i) == IF i \in ToSet(s) THEN RemoveAt(s, CHOOSE k \in DOMAIN s : s[k] = i) ELSE s

\* What read() or accept() would find.
Readable(i) == IF i = Listen THEN backlog # <<>> ELSE received[i] < sent[i] \/ i \in gone

\* The segments after from, up to to, and all that a peer ever sends.
Segments(c, from, to) == [k \in 1 .. (to - from) |-> <<c, from + k>>]
Stream(c) == Segments(c, 0, MaxSegments)

\* An arrival: one event per socket waits at most.
Notify(i) == ready' = IF i \in interest /\ i \notin ToSet(ready) THEN Append(ready, i) ELSE ready

\* EPOLL_CTL_ADD reports what has already arrived.
Add(i) ==
    /\ interest' = interest \union {i}
    /\ ready' = IF Readable(i) /\ i \notin ToSet(ready) THEN Append(ready, i) ELSE ready

\* EPOLL_CTL_DEL, or the close of a socket.
Forget(i) == interest' = interest \ {i} /\ ready' = Without(ready, i)

\* close(n).  The epoll instance lives on while a thread waits in epoll_wait.
CloseNumber(n, waiting) ==
    /\ fdtab' = [fdtab EXCEPT ![n] = NoFile]
    /\ CASE fdtab[n] = Epoll /\ ~waiting -> interest' = {} /\ ready' = <<>>
         [] fdtab[n] = Epoll /\ waiting  -> UNCHANGED epollVars
         [] OTHER                        -> Forget(fdtab[n])

-----------------------------------------------------------------------------
(* The peers.                                                              *)

Connect(c) ==
    /\ c \notin met /\ fdtab[ServerFd] = Listen
    /\ met' = met \union {c}
    /\ backlog' = Append(backlog, c)
    /\ Notify(Listen)
    /\ merged' = IF ready' = ready /\ Listen \in interest THEN merged + 1 ELSE merged
    /\ UNCHANGED <<fdtab, interest, sent, received, gone>>

Send(c) ==
    /\ c \in met \ gone /\ sent[c] < MaxSegments
    /\ sent' = [sent EXCEPT ![c] = @ + 1]
    /\ Notify(c)
    /\ UNCHANGED <<fdtab, interest, backlog, merged, met, received, gone>>

Hang(c) ==
    /\ c \in (met \intersect MayClose) \ gone
    /\ gone' = gone \union {c}
    /\ Notify(c)
    /\ UNCHANGED <<fdtab, interest, backlog, merged, met, sent, received>>

PeerStep(c) == Connect(c) \/ Send(c) \/ Hang(c)

SockTypeOK ==
    /\ fdtab \in [Fds -> Clients \union {Listen, Epoll, NoFile}]
    /\ interest \subseteq Clients \union {Listen}
    /\ ready \in Seq(interest)
    /\ backlog \in Seq(Clients)
    /\ merged \in Nat
    /\ met \subseteq Clients
    /\ sent \in [Clients -> 0 .. MaxSegments]
    /\ received \in [Clients -> 0 .. MaxSegments]
    /\ gone \subseteq met
=============================================================================
