--------------------------- MODULE ConnectionProofs ---------------------------
(***************************************************************************)
(* What holds of one connection from its first segment to its last: when   *)
(* its bytes reach the parser in order, and when its memory is used only   *)
(* while it is its own.                                                    *)
(***************************************************************************)
EXTENDS ReactorProofs

LOCAL INSTANCE SequencesExt

-----------------------------------------------------------------------------
(* The order of the segments.  Two jobs of one client read its socket by   *)
(* turns and feed what they have read in any order: for the clients that   *)
(* were spared this, and while no allocation fails between a read and the  *)
(* feeding, nothing is lost or exchanged.                                  *)

\* s holds segments of c, those behind the first k.
Numbered(s, c, k) == \A i \in DOMAIN s : s[i] = <<c, k + i>>

\* The job of the worker w reads for c, or is about to feed what it has read.
Reading(w, c) == wpc[w] \in {"read", "feed"} /\ job[w] = c

\* Nothing will be fed for c any more.
Over(c) ==
    \/ usrdata[c] = "freed" \/ ctx[c] = "freed"
    \/ \E w \in Workers : wpc[w] \in {"del", "close", "free"} /\ job[w] = c

\* What has been fed, and what the one job that reads has read, are the
\* segments that read() has returned.
HeldInOrder(c) ==
    /\ \A w \in Workers : Reading(w, c) =>
          Numbered(text[w], c, Len(fed[c])) /\ Len(fed[c]) + Len(text[w]) = received[c]
    /\ (\A w \in Workers : ~Reading(w, c)) => Len(fed[c]) = received[c]

\* A job begins without the text of another.
Blank == \A w \in Workers : wpc[w] \in {"idle", "accept", "register"} => text[w] = <<>>

FedOrder(c) ==
    /\ Numbered(fed[c], c, 0) /\ Len(fed[c]) <= received[c]
    /\ Over(c) \/ HeldInOrder(c)

OrderInv == Blank /\ \A c \in Clients \ Spoilt : FedOrder(c)

LEMMA InitOrder == Init => OrderInv
<1> SUFFICES ASSUME Init PROVE OrderInv
    OBVIOUS
<1>1. ASSUME NEW c \in Clients
      PROVE  /\ fed[c] = <<>> /\ received[c] = 0 /\ \A w \in Workers : ~Reading(w, c)
    BY DEF Init, SockInit, Reading
<1>2. Blank
    BY DEF Init, Blank
<1>3. ASSUME NEW c \in Clients PROVE FedOrder(c)
    <2>1. Len(fed[c]) = 0
        BY <1>1
    <2>2. Numbered(<<>>, c, 0)
        BY DEF Numbered
    <2> QED BY <1>1, <2>1, <2>2 DEF FedOrder, HeldInOrder
<1> QED BY <1>2, <1>3 DEF OrderInv

\* A client of whom a step reads and feeds nothing.
LEMMA FedKept ==
    ASSUME NEW c \in Clients, FedOrder(c), fed'[c] = fed[c], received'[c] = received[c],
           Over(c) => Over(c)',
           \/ Over(c)'
           \/ \A w \in Workers : (Reading(w, c)' <=> Reading(w, c))
                                 /\ (Reading(w, c) => text'[w] = text[w])
           \/ \A w \in Workers : ~Reading(w, c) /\ (Reading(w, c)' => text'[w] = <<>>)
    PROVE  FedOrder(c)'
<1> SUFFICES ASSUME ~Over(c)' PROVE HeldInOrder(c)'
    BY DEF FedOrder, Numbered
<1>1. HeldInOrder(c)
    BY DEF FedOrder
<1>2. CASE \A w \in Workers : (Reading(w, c)' <=> Reading(w, c))
                              /\ (Reading(w, c) => text'[w] = text[w])
    BY <1>1, <1>2 DEF HeldInOrder, Numbered
<1>3. CASE \A w \in Workers : ~Reading(w, c) /\ (Reading(w, c)' => text'[w] = <<>>)
    <2>1. Len(fed[c]) = received[c]
        BY <1>1, <1>3 DEF HeldInOrder
    <2>2. ASSUME NEW w \in Workers, Reading(w, c)'
          PROVE  Numbered(text'[w], c, Len(fed'[c])) /\ Len(text'[w]) = 0
        BY <1>3, <2>2 DEF Numbered
    <2>3. Len(fed[c]) + 0 = received[c]
        BY <2>1 DEF FedOrder
    <2> QED BY <2>1, <2>2, <2>3 DEF HeldInOrder, Numbered
<1> QED BY <1>2, <1>3

\* Steps that neither read nor feed.
LEMMA OrderKept ==
    ASSUME OrderInv, Blank', UNCHANGED <<fed, received>>, Spoilt \subseteq Spoilt',
           \A c \in Clients : Over(c) => Over(c)',
           \A c \in Clients \ Spoilt' :
              \/ Over(c)'
              \/ \A w \in Workers : (Reading(w, c)' <=> Reading(w, c))
                                    /\ (Reading(w, c) => text'[w] = text[w])
              \/ \A w \in Workers : ~Reading(w, c) /\ (Reading(w, c)' => text'[w] = <<>>)
    PROVE  OrderInv'
BY FedKept DEF OrderInv

\* What is over stays over.
LEMMA OverStays ==
    ASSUME TypeInv, NEW w \in Workers, ClientJob(w)
    PROVE  /\ \A c \in Clients : Over(c) => Over(c)'
           /\ \A v \in Workers \ {w} : wpc'[v] = wpc[v] /\ job'[v] = job[v] /\ text'[v] = text[v]
<1> USE DEF At, Uses, TypeInv, WorkOK, WorkerTypeOK, ClientTypeOK
<1>0. wpc[w] \in ClientPc /\ job[w] \in Clients
    BY ClientStep
<1>1. \A v \in Workers \ {w} : wpc'[v] = wpc[v] /\ job'[v] = job[v] /\ text'[v] = text[v]
    BY DEF ClientJob, UseFreed, Read, ReadAgain, ReadEnd, ReadEmpty, OnEagain, Feed, Parse, FeedNoMemory,
           Pop, Take, Unlink, Release, ContextFreed, DoubleFree, RaceKills,
           Answer, AnswerError, AnswerShort, AnswerKilled, AnswerNull, Del, Close,
           Free, Undefined, Continue, Finish, Goto, workerVars
<1>2. \A c \in Clients : usrdata[c] = "freed" => usrdata'[c] = "freed"
    BY DEF ClientJob, UseFreed, Read, ReadEnd, ReadEmpty, Feed, Parse, FeedNoMemory, Pop, Take,
           Unlink, Release, ContextFreed, DoubleFree, RaceKills, Answer,
           AnswerError, AnswerShort, AnswerKilled, AnswerNull, Del, Close, Free, clientVars
<1>3. \A c \in Clients : ctx[c] = "freed" => ctx'[c] = "freed"
    <2>1. ctx' = ctx \/ Parse(w) \/ Unlink(w) \/ Release(w) \/ Free(w)
        BY DEF ClientJob, UseFreed, Read, ReadEnd, ReadEmpty, Feed, FeedNoMemory, Pop, Take,
               ContextFreed, DoubleFree, RaceKills, Answer,
               AnswerError, AnswerShort, AnswerKilled, AnswerNull, Del, Close, clientVars
    <2> QED BY <1>0, <2>1 DEF Parse, Unlink, Release, Free
<1>4. wpc[w] \in {"del", "close", "free"} =>
          \/ wpc'[w] \in {"del", "close", "free"} /\ job'[w] = job[w]
          \/ usrdata'[job[w]] = "freed"
    <2>1. CASE UseFreed(w)
        BY <1>0, <1>2, <2>1 DEF UseFreed
    <2>2. CASE ~UseFreed(w)
        BY <1>0, <2>2
           DEF ClientJob, Read, ReadEnd, ReadEmpty, Feed, Parse, FeedNoMemory, Pop, Take, Unlink,
               Release, ContextFreed, DoubleFree, RaceKills, Feeding, Popping, Answer,
               AnswerError, AnswerShort, AnswerKilled, AnswerNull, Del, Close, Free, Continue, Goto
    <2> QED BY <2>1, <2>2
<1>5. ASSUME NEW c \in Clients, Over(c) PROVE Over(c)'
    <2>1. CASE usrdata[c] = "freed" \/ ctx[c] = "freed"
        BY <1>2, <1>3, <2>1 DEF Over
    <2>2. ASSUME NEW v \in Workers, wpc[v] \in {"del", "close", "free"}, job[v] = c PROVE Over(c)'
        BY <1>1, <1>4, <2>2 DEF Over
    <2> QED BY <1>5, <2>1, <2>2 DEF Over
<1> QED BY <1>1, <1>5

\* Steps of the main thread and of the peers.
LEMMA OthersOrder ==
    ASSUME ConnInv, OrderInv, Main \/ Signal \/ \E c \in Clients : Arrive(c)
    PROVE  OrderInv'
<1>1. UNCHANGED <<wpc, job, text, usrdata, ctx, fed, received>>
    BY DEF Main, Signal, Start, Check, Wait, Wake, Dispatch, DispatchFreed, DispatchNoMemory,
           DispatchRefused, CloseEpoll, CloseServer, Join, Arrive, PeerStep, Connect, Send, Hang,
           sockVars, workerVars, clientVars
<1>2. Blank'
    BY <1>1 DEF OrderInv, Blank
<1>3. \A c \in Clients : (Over(c)' <=> Over(c)) /\ \A w \in Workers : Reading(w, c)' <=> Reading(w, c)
    BY <1>1 DEF Over, Reading
<1>4. Spoilt \subseteq Spoilt'
    BY NextConn, SpoiltStays DEF Next, ConnInv
<1> QED BY <1>1, <1>2, <1>3, <1>4, OrderKept

\* A job is taken, or a step of a job of the listening socket.
LEMMA ServerOrder ==
    ASSUME ConnInv, ServiceInv, OrderInv, NEW w \in Workers, TakeJob(w) \/ ServerJob(w)
    PROVE  OrderInv'
<1> USE DEF ConnInv, TypeInv, WorkOK, WorkerTypeOK, ClientTypeOK
<1>0. /\ UNCHANGED <<fed, received>> /\ wpc[w] \in {"idle", "accept", "register"}
      /\ text[w] = <<>>
    BY DEF TakeJob, ServerJob, Accept, AcceptNoMemory, AcceptFull, AcceptNothing, Register, Accepting,
           At, sockVars, clientVars, OrderInv, Blank
<1>1. \A v \in Workers \ {w} : wpc'[v] = wpc[v] /\ job'[v] = job[v] /\ text'[v] = text[v]
    BY DEF TakeJob, ServerJob, Accept, AcceptNoMemory, AcceptFull, AcceptNothing, Register, Finish, Goto
<1>2. text'[w] = <<>>
    BY <1>0 DEF TakeJob, ServerJob, Accept, AcceptNoMemory, AcceptFull, AcceptNothing, Register, Finish
<1>3. Blank'
    BY <1>1, <1>2 DEF OrderInv, Blank
<1>4. ASSUME NEW c \in Clients \ Spoilt'
      PROVE  \/ \A v \in Workers : (Reading(v, c)' <=> Reading(v, c))
                                   /\ (Reading(v, c) => text'[v] = text[v])
             \/ \A v \in Workers : ~Reading(v, c) /\ (Reading(v, c)' => text'[v] = <<>>)
    <2>1. ~Reading(w, c) /\ c \notin overlaps'
        BY <1>0, <1>4 DEF Reading, Spoilt
    <2>2. CASE Reading(w, c)'
        <3>1. TakeJob(w) /\ job'[w] = c
            BY <2>2 DEF Reading, ServerJob, Accept, AcceptNoMemory, AcceptFull, AcceptNothing, Register,
                        Finish, Goto
        <3>2. \A v \in Workers : job[v] # c
            BY <2>1, <3>1 DEF TakeJob
        <3>3. \A v \in Workers : ~Reading(v, c)
            BY <3>2 DEF Reading
        <3>4. \A v \in Workers \ {w} : ~Reading(v, c)'
            BY <1>1, <3>2 DEF Reading
        <3> QED BY <1>2, <3>3, <3>4
    <2>3. CASE ~Reading(w, c)'
        BY <1>1, <2>1, <2>3 DEF Reading
    <2> QED BY <2>2, <2>3
<1>5. ASSUME NEW c \in Clients, Over(c) PROVE Over(c)'
    <2>1. CASE \E v \in Workers : wpc[v] \in {"del", "close", "free"} /\ job[v] = c
        BY <1>0, <1>1, <2>1 DEF Over
    <2>2. CASE usrdata[c] = "freed" \/ ctx[c] = "freed"
        <3>1. CASE UNCHANGED <<usrdata, ctx>>
            BY <2>2, <3>1 DEF Over
        <3>2. CASE Accept(w)
            <4>1. PICK d : d = Head(backlog)
                OBVIOUS
            <4>2. /\ usrdata' = [usrdata EXCEPT ![d] = "live"] /\ ctx' = [ctx EXCEPT ![d] = "parsing"]
                  /\ backlog # <<>>
                BY <3>2, <4>1 DEF Accept, Accepting
            <4>3. usrdata[d] = "none" /\ d \in Clients
                <5>1. backlog \in Seq(Clients)
                    BY DEF SockOK, SockTypeOK
                <5> QED BY <4>1, <4>2, <5>1, TailOf DEF SocketsOK, BacklogOK
            <4>4. ctx[d] = "none"
                BY <4>3 DEF ServiceInv, ContextInv
            <4>5. c # d
                BY <2>2, <4>3, <4>4
            <4> QED BY <2>2, <4>2, <4>5 DEF Over
        <3>3. UNCHANGED <<usrdata, ctx>> \/ Accept(w)
            BY DEF TakeJob, ServerJob, AcceptNoMemory, AcceptFull, AcceptNothing, Register, clientVars
        <3> QED BY <3>1, <3>2, <3>3
    <2> QED BY <1>5, <2>1, <2>2 DEF Over
<1>6. Spoilt \subseteq Spoilt'
    BY NextConn, SpoiltStays DEF Next, Worker
<1> QED BY <1>0, <1>3, <1>4, <1>5, <1>6, OrderKept

\* Numbered segments followed by the next ones.
LEMMA NumberedJoined ==
    ASSUME NEW S, NEW s \in Seq(S), NEW t \in Seq(S), NEW c, NEW k \in Nat,
           Numbered(s, c, k), Numbered(t, c, k + Len(s))
    PROVE  Len(s \o t) = Len(s) + Len(t) /\ Numbered(s \o t, c, k)
<1>1. /\ Len(s) \in Nat /\ DOMAIN s = 1 .. Len(s)
      /\ Len(t) \in Nat /\ DOMAIN t = 1 .. Len(t)
    BY LenProperties
<1>2. /\ s \o t \in Seq(S) /\ Len(s \o t) = Len(s) + Len(t)
      /\ \A i \in 1 .. Len(s) + Len(t) :
            (s \o t)[i] = IF i <= Len(s) THEN s[i] ELSE t[i - Len(s)]
    BY ConcatProperties, Zenon
<1>3. DOMAIN (s \o t) = 1 .. Len(s) + Len(t)
    BY <1>2, LenProperties
<1>4. ASSUME NEW i \in 1 .. Len(s) + Len(t) PROVE (s \o t)[i] = <<c, k + i>>
    <2>1. CASE i <= Len(s)
        <3>1. i \in 1 .. Len(s)
            BY <1>1, <2>1
        <3>2. (s \o t)[i] = s[i]
            BY <1>2, <2>1
        <3> QED BY <1>1, <3>1, <3>2 DEF Numbered
    <2>2. CASE ~(i <= Len(s))
        <3>1. i - Len(s) \in 1 .. Len(t) /\ (k + Len(s)) + (i - Len(s)) = k + i
            BY <1>1, <2>2
        <3>2. (s \o t)[i] = t[i - Len(s)]
            BY <1>2, <2>2
        <3>3. t[i - Len(s)] = <<c, (k + Len(s)) + (i - Len(s))>>
            BY <1>1, <3>1 DEF Numbered
        <3> QED BY <3>1, <3>2, <3>3
    <2> QED BY <2>1, <2>2
<1> QED BY <1>2, <1>3, <1>4 DEF Numbered

\* One read goes on behind what the job has read before.
LEMMA ReadOrder ==
    ASSUME ConnInv, JobOnce, OrderInv, NEW w \in Workers, Read(w)
    PROVE  OrderInv'
<1> USE DEF ConnInv
<1>0. PICK c : c = job[w]
    OBVIOUS
<1>1. c \in Clients /\ wpc[w] = "read" /\ Peer(w) = c
    BY <1>0, JobIsClient
       DEF Read, Uses, At, TypeInv, ClientPc, SocketsOK, OwnSocket, Served, AtWork, Peer
<1>2. PICK k \in received[c] + 1 .. sent[c] :
          /\ text' = [text EXCEPT ![w] = @ \o Segments(c, received[c], k)]
          /\ received' = [received EXCEPT ![c] = k]
    BY <1>1 DEF Read
<1>3. UNCHANGED <<fed, usrdata, ctx, job, overlaps, uaf>> /\ wpc' = wpc
    BY <1>1 DEF Read, ReadAgain, Goto, clientVars, histVars, TypeInv, WorkOK, WorkerTypeOK
<1>4. /\ received[c] \in Nat /\ k \in received[c] .. MaxSegments /\ k \in Nat
      /\ received'[c] = k /\ \A d \in Clients \ {c} : received'[d] = received[d]
    BY <1>1, <1>2, PeersAssumption DEF TypeInv, SockOK, SockTypeOK
<1>5. \A v \in Workers \ {w} : text'[v] = text[v] /\ (c \notin Spoilt => job[v] # c)
    BY <1>0, <1>1, <1>2 DEF TypeInv, WorkOK, WorkerTypeOK, JobOnce, Spoilt
<1>6. (\A d \in Clients : Over(d)' <=> Over(d)) /\ Spoilt' = Spoilt
    BY <1>3 DEF Over, Spoilt
<1>7. Blank'
    BY <1>1, <1>3, <1>5 DEF OrderInv, Blank
<1>8. ASSUME NEW d \in Clients \ Spoilt
      PROVE  Numbered(fed'[d], d, 0) /\ Len(fed'[d]) <= received'[d]
    <2>1. Len(fed[d]) \in Nat /\ Numbered(fed[d], d, 0) /\ Len(fed[d]) <= received[d]
        BY LenProperties DEF OrderInv, FedOrder, TypeInv, ClientTypeOK
    <2> QED BY <1>3, <1>4, <2>1
<1>9. ASSUME NEW d \in Clients \ Spoilt, ~Over(d)' PROVE HeldInOrder(d)'
    <2>1. HeldInOrder(d)
        BY <1>6, <1>9 DEF OrderInv, FedOrder
    <2>2. CASE d # c
        <3>1. ~Reading(w, d) /\ \A v \in Workers : Reading(v, d)' <=> Reading(v, d)
            BY <1>0, <1>3, <2>2 DEF Reading
        <3>2. \A v \in Workers : Reading(v, d) => text'[v] = text[v]
            BY <1>5, <3>1
        <3> QED BY <1>3, <1>4, <2>1, <2>2, <3>1, <3>2 DEF HeldInOrder, Numbered
    <2>3. CASE d = c
        <3> DEFINE s == text[w]
                   t == Segments(c, received[c], k)
                   n == Len(fed[c])
        <3>1. Numbered(s, c, n) /\ n + Len(s) = received[c] /\ Reading(w, c)
            BY <1>0, <1>1, <2>1, <2>3 DEF HeldInOrder, Reading
        <3>2. s \in Seq(Clients \X (1 .. MaxSegments)) /\ n \in Nat
            BY <1>1, LenProperties DEF TypeInv, WorkOK, WorkerTypeOK, ClientTypeOK
        <3>3. /\ t \in Seq(Clients \X (1 .. MaxSegments)) /\ Len(t) = k - received[c]
              /\ \A i \in 1 .. k - received[c] : t[i] = <<c, received[c] + i>>
            <4>1. received[c] \in Nat /\ k \in received[c] .. MaxSegments
                BY <1>4
            <4> QED BY <1>1, <4>1, SegmentsOf
        <3>4. text'[w] = s \o t
            BY <1>2 DEF TypeInv, WorkOK, WorkerTypeOK
        <3>5. fed'[c] = fed[c]
            BY <1>3
        <3> HIDE DEF s, t, n
        <3>6. Len(s) \in Nat /\ Len(t) \in Nat
            BY <3>2, <3>3, LenProperties
        <3>7. Numbered(t, c, n + Len(s))
            <4>1. DOMAIN t = 1 .. k - received[c]
                BY <3>3, LenProperties
            <4> QED BY <3>1, <3>3, <4>1 DEF Numbered
        <3>8. Len(s \o t) = Len(s) + Len(t) /\ Numbered(s \o t, c, n)
            BY <3>1, <3>2, <3>3, <3>7, NumberedJoined
        <3>9. Numbered(text'[w], c, Len(fed'[c])) /\ Len(fed'[c]) + Len(text'[w]) = received'[c]
            <4>1. n + Len(s \o t) = k
                BY <1>4, <3>1, <3>2, <3>3, <3>6, <3>8
            <4> QED BY <1>4, <3>4, <3>5, <3>8, <4>1 DEF n
        <3>10. Reading(w, c)'
            BY <1>3, <3>1 DEF Reading
        <3>11. \A v \in Workers \ {w} : ~Reading(v, c)'
            BY <1>3, <1>5, <1>9, <2>3 DEF Reading
        <3> QED BY <2>3, <3>9, <3>10, <3>11 DEF HeldInOrder, Numbered
    <2> QED BY <2>2, <2>3
<1> QED BY <1>6, <1>7, <1>8, <1>9 DEF OrderInv, FedOrder, Numbered

\* What is fed goes behind what was fed before.
LEMMA FeedOrder ==
    ASSUME ConnInv, JobOnce, OrderInv, NEW w \in Workers, Feed(w)
    PROVE  OrderInv'
<1> USE DEF ConnInv
<1>0. PICK c : c = job[w]
    OBVIOUS
<1>1. /\ c \in Clients /\ wpc[w] = "feed" /\ usrdata[c] = "live" /\ ctx[c] # "freed"
      /\ UNCHANGED <<received, usrdata, ctx, job, text, overlaps, uaf>>
      /\ wpc' = [wpc EXCEPT ![w] = "parse"]
      /\ fed' = [fed EXCEPT ![c] = @ \o text[w]] \/ (fed' = fed /\ Meets(w, {"feed"}))
    BY <1>0, JobIsClient
       DEF Feed, Uses, At, Continue, Goto, TypeInv, ClientPc, sockVars, histVars
<1>2. Spoilt' = Spoilt /\ (c \notin Spoilt => \A v \in Workers \ {w} : job[v] # c)
    BY <1>0, <1>1 DEF JobOnce, Spoilt
<1>3. wpc'[w] = "parse" /\ \A v \in Workers \ {w} : wpc'[v] = wpc[v]
    BY <1>1 DEF TypeInv, WorkOK, WorkerTypeOK
<1>4. Blank'
    BY <1>1, <1>3 DEF OrderInv, Blank
<1>5. \A d \in Clients : Over(d) => Over(d)'
    BY OverStays DEF ClientJob
<1>6. \A d \in Clients \ {c} : fed'[d] = fed[d]
    BY <1>1 DEF TypeInv, ClientTypeOK
<1>7. ASSUME NEW d \in Clients \ Spoilt, d # c PROVE FedOrder(d)'
    <2>1. FedOrder(d)
        BY DEF OrderInv
    <2>2. \A v \in Workers : (Reading(v, d)' <=> Reading(v, d)) /\ text'[v] = text[v]
        BY <1>0, <1>1, <1>3, <1>7 DEF Reading
    <2>3. fed'[d] = fed[d] /\ received'[d] = received[d]
        BY <1>1, <1>6, <1>7
    <2> QED BY <1>5, <2>1, <2>2, <2>3, FedKept
<1>8. ASSUME c \notin Spoilt PROVE FedOrder(c)'
    <2>1. FedOrder(c)
        BY <1>1, <1>8 DEF OrderInv
    <2>2. ~Over(c)
        BY <1>0, <1>1, <1>2, <1>8 DEF Over
    <2>3. HeldInOrder(c) /\ Reading(w, c)
        BY <1>0, <1>1, <2>1, <2>2 DEF FedOrder, Reading
    <2>4. \A v \in Workers : ~Reading(v, c)'
        BY <1>1, <1>2, <1>3, <1>8 DEF Reading
    <2>5. ~Meets(w, {"feed"})
        BY <1>0, <1>2, <1>8 DEF Meets
    <2> DEFINE s == fed[c]
               t == text[w]
    <2>6. /\ s \in Seq(Clients \X (1 .. MaxSegments)) /\ t \in Seq(Clients \X (1 .. MaxSegments))
          /\ Numbered(s, c, 0) /\ Numbered(t, c, Len(s)) /\ Len(s) + Len(t) = received[c]
          /\ fed'[c] = s \o t
        BY <1>1, <2>1, <2>3, <2>5 DEF TypeInv, WorkOK, WorkerTypeOK, ClientTypeOK, FedOrder, HeldInOrder
    <2> HIDE DEF s, t
    <2>7. Len(s) \in Nat /\ 0 + Len(s) = Len(s)
        BY <2>6, LenProperties
    <2>8. Len(s \o t) = Len(s) + Len(t) /\ Numbered(s \o t, c, 0)
        BY <2>6, <2>7, NumberedJoined
    <2>9. Len(fed'[c]) = received'[c] /\ Numbered(fed'[c], c, 0)
        BY <1>1, <2>6, <2>8
    <2>10. received[c] \in Nat
        BY <1>1, PeersAssumption DEF TypeInv, SockOK, SockTypeOK
    <2> QED BY <1>1, <2>4, <2>9, <2>10 DEF FedOrder, HeldInOrder, Numbered
<1> QED BY <1>2, <1>4, <1>7, <1>8 DEF OrderInv

LEMMA ClientOrder ==
    ASSUME ConnInv, JobOnce, OrderInv, NEW w \in Workers, ClientJob(w), faults' = 0
    PROVE  OrderInv'
<1> USE DEF ConnInv, At, Uses
<1>0. wpc[w] \in ClientPc /\ job[w] \in Clients /\ ~Fault
    BY ClientStep DEF Fault, TypeInv, HistTypeOK
<1>1. /\ \A c \in Clients : Over(c) => Over(c)'
      /\ \A v \in Workers \ {w} : wpc'[v] = wpc[v] /\ job'[v] = job[v] /\ text'[v] = text[v]
    BY OverStays
<1>2. Spoilt \subseteq Spoilt' /\ overlaps \subseteq overlaps'
    BY NextConn, SpoiltStays, SpoiltGrows DEF Next, Worker
<1>3. CASE Read(w) \/ Feed(w)
    BY <1>3, ReadOrder, FeedOrder
<1>4. CASE ~(Read(w) \/ Feed(w))
    <2>1. UNCHANGED <<fed, received>>
        BY <1>4 DEF ClientJob, UseFreed, ReadEnd, ReadEmpty, Parse, FeedNoMemory, Pop, Take, Unlink,
                    Release, ContextFreed, DoubleFree, RaceKills, Answer,
                    AnswerError, AnswerShort, AnswerKilled, AnswerNull, Del, Close, Free,
                    sockVars, clientVars
    <2>2. Blank'
        <3>1. wpc'[w] \in {"idle", "accept", "register"} => text'[w] = <<>>
            <4>1. \/ UNCHANGED <<wpc, text>>
                  \/ text'[w] = <<>>
                  \/ wpc'[w] \notin {"idle", "accept", "register"}
                BY <1>4
                   DEF ClientJob, UseFreed, ReadEnd, ReadEmpty, OnEagain, Parse, FeedNoMemory, Pop, Take,
                       Unlink, Release, ContextFreed, DoubleFree, RaceKills,
                       Answer, AnswerError, AnswerShort, AnswerKilled, AnswerNull, Del, Close, Free,
                       Undefined, Continue, Finish, Goto, workerVars, TypeInv, WorkOK, WorkerTypeOK
            <4> QED BY <1>0, <4>1 DEF ClientPc
        <3> QED BY <1>1, <3>1 DEF OrderInv, Blank
    <2> PICK j : j = job[w]
        OBVIOUS
    <2>3. /\ \/ Over(j)' \/ uaf'
             \/ wpc'[w] \in {"read", "feed"} /\ wpc[w] \in {"read", "feed"} /\ UNCHANGED <<job, text>>
             \/ wpc'[w] \notin {"read", "feed"} /\ wpc[w] \notin {"read", "feed"}
          /\ job'[w] \in {j, NoJob}
        <3>1. CASE UseFreed(w) \/ ContextFreed(w) \/ DoubleFree(w)
            BY <1>0, <3>1
               DEF UseFreed, ContextFreed, DoubleFree, Undefined, Finish, Continue, workerVars, TypeInv,
                   WorkOK, WorkerTypeOK
        <3>2. CASE ReadEnd(w)
            BY <1>0, <3>2 DEF ReadEnd, Continue, Goto, Over, TypeInv, WorkOK, WorkerTypeOK
        <3>3. CASE ReadEmpty(w)
            BY <1>0, <3>3 DEF ReadEmpty, OnEagain, Continue, Goto, TypeInv, WorkOK, WorkerTypeOK
        <3>4. CASE Parse(w) \/ Pop(w) \/ Take(w) \/ Unlink(w) \/ Release(w)
            BY <1>0, <3>4
               DEF Parse, Pop, Take, Unlink, Release, Continue, Finish, Goto, TypeInv, WorkOK,
                   WorkerTypeOK
        <3>5. CASE Answer(w) \/ AnswerError(w) \/ Del(w) \/ Close(w) \/ Free(w)
            BY <1>0, <3>5
               DEF Answer, AnswerError, Del, Close, Free, Continue, Finish, Goto, TypeInv, WorkOK,
                   WorkerTypeOK
        <3>6. CASE AnswerKilled(w) \/ RaceKills(w)
            BY <1>0, <3>6 DEF AnswerKilled, RaceKills, workerVars
        <3> QED BY <1>0, <1>4, <3>1, <3>2, <3>3, <3>4, <3>5, <3>6
                DEF ClientJob, FeedNoMemory, AnswerShort, AnswerNull
    <2>4. NoJob \notin Clients
        BY SourcesDistinct
    <2>5. ASSUME NEW c \in Clients \ Spoilt'
          PROVE  \/ Over(c)'
                 \/ \A v \in Workers : (Reading(v, c)' <=> Reading(v, c))
                                       /\ (Reading(v, c) => text'[v] = text[v])
                 \/ \A v \in Workers : ~Reading(v, c) /\ (Reading(v, c)' => text'[v] = <<>>)
        <3>1. CASE c # j
            BY <1>1, <2>3, <2>4, <3>1 DEF Reading
        <3>2. CASE c = j /\ ~Over(c)'
            <4>1. ~uaf' /\ \A v \in Workers \ {w} : job[v] # c
                BY <1>2, <2>5, <3>2 DEF JobOnce, Spoilt
            <4>2. CASE wpc'[w] \in {"read", "feed"} /\ wpc[w] \in {"read", "feed"} /\ UNCHANGED <<job, text>>
                BY <1>1, <4>2 DEF Reading
            <4>3. CASE wpc'[w] \notin {"read", "feed"} /\ wpc[w] \notin {"read", "feed"}
                BY <1>1, <4>3 DEF Reading
            <4> QED BY <2>3, <3>2, <4>1, <4>2, <4>3
        <3> QED BY <3>1, <3>2
    <2> QED BY <1>1, <1>2, <2>1, <2>2, <2>5, OrderKept
<1> QED BY <1>3, <1>4

\* Faults are counted, and never forgotten.
LEMMA NoFaultBefore ==
    ASSUME TypeInv, [Next]_vars, faults' = 0
    PROVE  faults = 0
<1>1. CASE Main \/ Signal \/ \E c \in Clients : Arrive(c)
    <2>1. faults' = faults \/ Fault
        BY <1>1 DEF Main, Signal, Start, Check, Wait, Wake, Dispatch, DispatchFreed,
           DispatchNoMemory, DispatchRefused, CloseEpoll, CloseServer, Join, Arrive, histVars
    <2> QED BY <2>1 DEF Fault, TypeInv, HistTypeOK
<1>2. ASSUME NEW w \in Workers, Worker(w) PROVE faults = 0
    <2>1. faults' = faults \/ Fault
        BY <1>2 DEF Worker, TakeJob, ServerJob, Accept, AcceptNoMemory, AcceptFull, AcceptNothing,
           Register, ClientJob, UseFreed, Read, ReadEnd, ReadEmpty, Feed, Parse, FeedNoMemory,
           Pop, Take, Unlink, Release, ContextFreed, DoubleFree, RaceKills, Answer, AnswerError, AnswerShort, AnswerKilled, AnswerNull, Del, Close, Free, histVars
    <2> QED BY <2>1 DEF Fault, TypeInv, HistTypeOK
<1> QED BY <1>1, <1>2 DEF Next, vars, histVars

\* As long as no allocation has failed between a read and the feeding, the segments
\* of every client whose jobs have not overlapped reach its parser in the order
\* they were sent, however many workers there are and whatever the peers and the
\* other connections do, one that two workers race for included.
THEOREM FedAlwaysInOrder == Spec => []OrderLostInOverlap
<1> DEFINE Inv == faults = 0 => OrderInv
<1>1. ConnInv /\ ServiceInv /\ JobOnce /\ Inv /\ [Next]_vars => Inv'
    <2> SUFFICES ASSUME ConnInv, ServiceInv, JobOnce, Inv, [Next]_vars, faults' = 0 PROVE OrderInv'
        OBVIOUS
    <2>0. OrderInv
        BY NoFaultBefore DEF ConnInv
    <2>1. CASE UNCHANGED vars
        <3>1. UNCHANGED <<wpc, job, text, usrdata, ctx, fed, received>> /\ Spoilt' = Spoilt
            BY <2>1 DEF vars, sockVars, workerVars, clientVars, histVars, Spoilt
        <3>2. Blank' /\ \A c \in Clients : /\ Over(c)' <=> Over(c)
                                           /\ \A w \in Workers : Reading(w, c)' <=> Reading(w, c)
            BY <2>0, <3>1 DEF OrderInv, Blank, Over, Reading
        <3> QED BY <2>0, <3>1, <3>2, OrderKept
    <2> QED BY <2>0, <2>1, OthersOrder, ServerOrder, ClientOrder DEF Next, Worker
<1>2. ASSUME ConnInv, OrderInv, NEW c \in Clients \ Spoilt PROVE IsPrefix(fed[c], Stream(c))
    <2> DEFINE s == fed[c]
               t == Stream(c)
    <2>1. /\ s \in Seq(Clients \X (1 .. MaxSegments)) /\ Numbered(s, c, 0)
          /\ Len(s) <= received[c] /\ received[c] \in 0 .. MaxSegments
        BY <1>2 DEF OrderInv, FedOrder, ConnInv, TypeInv, ClientTypeOK, SockOK, SockTypeOK
    <2>2. /\ t \in Seq(Clients \X (1 .. MaxSegments)) /\ Len(t) = MaxSegments
          /\ \A i \in 1 .. MaxSegments : t[i] = <<c, 0 + i>>
        <3>1. 0 \in Nat /\ MaxSegments \in 0 .. MaxSegments /\ MaxSegments - 0 = MaxSegments
            BY PeersAssumption
        <3> QED BY <3>1, SegmentsOf DEF Stream
    <2> HIDE DEF s, t
    <2>3. Len(s) \in Nat /\ Len(s) <= Len(t) /\ DOMAIN s = 1 .. Len(s) /\ MaxSegments \in Nat
        BY <2>1, <2>2, LenProperties, PeersAssumption
    <2>4. \A i \in 1 .. Len(s) : s[i] = t[i]
        <3> SUFFICES ASSUME NEW i \in 1 .. Len(s) PROVE s[i] = t[i]
            OBVIOUS
        <3>1. s[i] = <<c, 0 + i>>
            BY <2>1, <2>3 DEF Numbered
        <3>2. i \in 1 .. MaxSegments
            BY <2>2, <2>3
        <3> QED BY <2>2, <3>1, <3>2
    <2>5. SubSeq(s, 1, Len(s)) = SubSeq(t, 1, Len(s))
        <3> DEFINE a == SubSeq(s, 1, Len(s))
                   b == SubSeq(t, 1, Len(s))
        <3>1. /\ 1 \in 1 .. Len(s) + 1 /\ Len(s) \in 1 - 1 .. Len(s)
              /\ 1 \in 1 .. Len(t) + 1 /\ Len(s) \in 1 - 1 .. Len(t)
              /\ Len(s) - 1 + 1 = Len(s) /\ \A i \in 1 .. Len(s) : 1 + i - 1 = i
            BY <2>2, <2>3
        <3>2. /\ a \in Seq(Clients \X (1 .. MaxSegments)) /\ Len(a) = Len(s) - 1 + 1
              /\ \A i \in 1 .. Len(s) - 1 + 1 : a[i] = s[1 + i - 1]
            BY <2>1, <3>1, PartOf
        <3>3. /\ b \in Seq(Clients \X (1 .. MaxSegments)) /\ Len(b) = Len(s) - 1 + 1
              /\ \A i \in 1 .. Len(s) - 1 + 1 : b[i] = t[1 + i - 1]
            BY <2>2, <3>1, PartOf
        <3> HIDE DEF a, b
        <3>4. Len(a) = Len(b) /\ \A i \in 1 .. Len(a) : a[i] = b[i]
            BY <2>4, <3>1, <3>2, <3>3
        <3>5. a = b
            BY <3>2, <3>3, <3>4, SeqEqual
        <3> QED BY <3>5 DEF a, b
    <2> QED BY <2>3, <2>5 DEF IsPrefix, s, t
<1>3. Init => Inv
    BY InitOrder
<1>4. ConnInv /\ Inv => OrderLostInOverlap
    BY <1>2 DEF OrderLostInOverlap
<1> QED BY <1>1, <1>3, <1>4, ConnAlways, ServiceInvAlways, JobOnceAlways, PTL DEF Spec

-----------------------------------------------------------------------------
(* Memory.  A client_data_t is freed at the label closefd, to which only a *)
(* peer that closes leads; a context is freed when its request is popped,  *)
(* and a second job of the client would feed it.  As an event is made for  *)
(* an arrival, and a client's first segment is one arrival whenever its    *)
(* socket is registered, one segment makes one job.                        *)

\* Nobody has closed, and nobody has sent a second segment.
Brief == gone = {} /\ \A c \in Clients : sent[c] <= 1

\* No client is in s twice.
ClientsOnce(s) == \A i, j \in DOMAIN s : s[i] = s[j] /\ s[i] \in Clients => i = j

\* There is one event or job of a client at most.
OneJob ==
    /\ ClientsOnce(batch) /\ ClientsOnce(queue)
    /\ \A v, w \in Workers : wpc[v] \in ClientPc /\ wpc[w] \in ClientPc /\ job[v] = job[w] => v = w
    /\ \A c \in Clients :
          /\ c \in ToSet(batch) => c \notin ToSet(ready)
          /\ c \in ToSet(queue) => c \notin ToSet(ready) \union ToSet(batch)
          /\ AtWork(c) => ~InFlight(c)

\* The worker's job will use the context, or is about to free it.
Needing(w) == wpc[w] \in {"read", "feed", "parse"} \union Popping

Feeds(c) == \E w \in Workers : Needing(w) /\ job[w] = c

\* A context is freed by the job that the one segment has made.
Unspent ==
    \A c \in Clients :
        /\ InFlight(c) \/ Feeds(c) => ctx[c] # "freed"
        /\ \A w \in Workers : Registering(w) /\ job[w] = c => ctx[c] # "freed"
        /\ sent[c] = 0 => ~InFlight(c) /\ ~AtWork(c) /\ ctx[c] # "freed"

Unfreed ==
    /\ ~uaf /\ \A c \in Clients : usrdata[c] # "freed"
    /\ \A w \in Workers : wpc[w] \notin {"del", "close", "free"}

BriefInv == Brief => Unfreed /\ OneJob /\ Unspent

\* A sequence that grows by a client that is not in it, or loses its first.
LEMMA OnceOf ==
    ASSUME NEW S, NEW s \in Seq(S), ClientsOnce(s)
    PROVE  /\ \A x \in S : (x \in Clients => x \notin ToSet(s)) => ClientsOnce(Append(s, x))
           /\ s # <<>> => /\ ClientsOnce(Tail(s))
                          /\ Head(s) \in Clients => Head(s) \notin ToSet(Tail(s))
<1>1. DOMAIN s = 1 .. Len(s) /\ Len(s) \in Nat
    BY LenProperties
<1>2. ASSUME NEW x \in S, x \in Clients => x \notin ToSet(s) PROVE ClientsOnce(Append(s, x))
    <2>1. /\ Append(s, x) \in Seq(S) /\ Len(Append(s, x)) = Len(s) + 1
          /\ \A i \in 1 .. Len(s) : Append(s, x)[i] = s[i]
          /\ Append(s, x)[Len(s) + 1] = x
        BY AppendProperties
    <2>2. DOMAIN Append(s, x) = 1 .. (Len(s) + 1)
        BY <2>1, LenProperties
    <2> QED BY <1>1, <1>2, <2>1, <2>2 DEF ClientsOnce, ToSet
<1>3. ASSUME s # <<>>
      PROVE  ClientsOnce(Tail(s)) /\ (Head(s) \in Clients => Head(s) \notin ToSet(Tail(s)))
    <2>1. /\ Tail(s) \in Seq(S) /\ Len(Tail(s)) = Len(s) - 1 /\ Head(s) = s[1]
          /\ \A i \in 1 .. Len(Tail(s)) : Tail(s)[i] = s[i + 1]
        BY <1>3, HeadTailProperties
    <2>2. DOMAIN Tail(s) = 1 .. (Len(s) - 1) /\ Len(s) \in Nat \ {0}
        BY <1>1, <1>3, <2>1, LenProperties, EmptySeq
    <2>3. \A i \in DOMAIN Tail(s) : Tail(s)[i] = s[i + 1] /\ i + 1 \in DOMAIN s /\ i + 1 # 1
        BY <1>1, <2>1, <2>2
    <2>4. ClientsOnce(Tail(s))
        BY <2>2, <2>3 DEF ClientsOnce
    <2>5. 1 \in DOMAIN s
        BY <1>1, <2>2
    <2> QED BY <2>1, <2>3, <2>4, <2>5 DEF ClientsOnce, ToSet
<1> QED BY <1>2, <1>3

LEMMA OnceEmpty == ClientsOnce(<<>>) /\ \A s : NoRepeat(s) => ClientsOnce(s)
BY DEF ClientsOnce, NoRepeat

LEMMA BriefBefore ==
    ASSUME TypeInv, Next, Brief'
    PROVE  Brief /\ gone' = gone
<1>1. gone \subseteq gone'
    BY DEF Next, Main, Signal, Start, Check, Wait, Wake, Dispatch, DispatchFreed, DispatchNoMemory,
           DispatchRefused, CloseEpoll, CloseServer, Join, Arrive, PeerStep, Connect, Send, Hang,
           Worker, TakeJob, ServerJob, Accept, AcceptNoMemory, AcceptFull, AcceptNothing, Register,
           ClientJob, UseFreed, Read, ReadEnd, ReadEmpty, Feed, Parse, FeedNoMemory, Pop, Take,
           Unlink, Release, ContextFreed, DoubleFree, RaceKills, Answer,
           AnswerError, AnswerShort, AnswerKilled, AnswerNull, Del, Close, Free, sockVars, peerVars
<1>2. sent' = sent \/ \E c \in Clients : Send(c)
    BY DEF Next, Main, Signal, Start, Check, Wait, Wake, Dispatch, DispatchFreed, DispatchNoMemory,
           DispatchRefused, CloseEpoll, CloseServer, Join, Arrive, PeerStep, Connect, Hang,
           Worker, TakeJob, ServerJob, Accept, AcceptNoMemory, AcceptFull, AcceptNothing, Register,
           ClientJob, UseFreed, Read, ReadEnd, ReadEmpty, Feed, Parse, FeedNoMemory, Pop, Take,
           Unlink, Release, ContextFreed, DoubleFree, RaceKills, Answer,
           AnswerError, AnswerShort, AnswerKilled, AnswerNull, Del, Close, Free, sockVars, peerVars
<1>3. \A c \in Clients : sent[c] <= sent'[c] /\ sent[c] \in Nat /\ sent'[c] \in Nat
    <2>1. \A c \in Clients : sent[c] \in Nat
        BY PeersAssumption DEF TypeInv, SockOK, SockTypeOK
    <2>2. DOMAIN sent = Clients
        BY DEF TypeInv, SockOK, SockTypeOK
    <2>3. ASSUME NEW d \in Clients, Send(d), NEW c \in Clients
          PROVE  sent'[c] = sent[c] \/ sent'[c] = sent[c] + 1
        <3>1. sent' = [sent EXCEPT ![d] = @ + 1]
            BY <2>3 DEF Send
        <3> QED BY <2>2, <3>1
    <2> QED BY <1>2, <2>1, <2>3
<1> QED BY <1>1, <1>3 DEF Brief

\* Steps that make no event and no job.
LEMMA JobsShrink ==
    ASSUME OneJob, ClientsOnce(batch'), ClientsOnce(queue'),
           \A c \in Clients : /\ c \in ToSet(ready') => c \in ToSet(ready)
                              /\ c \in ToSet(batch') => c \in ToSet(batch)
                              /\ c \in ToSet(queue') => c \in ToSet(queue),
           \A w \in Workers : wpc'[w] \in ClientPc => wpc[w] \in ClientPc /\ job'[w] = job[w]
    PROVE  OneJob'
BY DEF OneJob, InFlight, AtWork

LEMMA MainBrief ==
    ASSUME ConnInv, BriefInv, Brief, Brief', Main \/ Signal
    PROVE  BriefInv'
<1> USE SockIsEpoll DEF ConnInv, MainAt, MainGoto
<1>0. Unfreed /\ OneJob /\ Unspent
    BY DEF BriefInv
<1>1. /\ UNCHANGED <<wpc, job, usrdata, ctx, sent>> /\ ~DispatchFreed /\ uaf' = uaf
    <2>1. ~DispatchFreed
        BY <1>0 DEF Unfreed, DispatchFreed
    <2> QED BY <2>1 DEF Main, Signal, Start, Check, Wait, Wake, Dispatch, DispatchNoMemory,
               DispatchRefused, CloseEpoll, CloseServer, Join, sockVars, peerVars, workerVars,
               clientVars, histVars
<1>2. Unfreed'
    BY <1>0, <1>1 DEF Unfreed
<1>3. OneJob' /\ \A c \in Clients : InFlight(c)' => InFlight(c)
    <2>1. CASE Wake
        <3>1. PICK rest \in Seq(interest) :
                  /\ NoRepeat(batch') /\ Leave(rest) /\ NoRepeat(rest)
                  /\ ToSet(ready) = ToSet(batch') \union ToSet(rest)
                  /\ ToSet(batch') \intersect ToSet(rest) = {}
            BY <2>1, WakeSplit DEF TypeInv
        <3>2. ToSet(ready') \subseteq ToSet(rest) /\ queue' = queue
            BY <2>1, <3>1, LeaveKeeps DEF Wake, TypeInv
        <3>3. ClientsOnce(batch')
            BY <3>1, OnceEmpty
        <3> QED BY <1>0, <1>1, <3>1, <3>2, <3>3 DEF OneJob, InFlight, AtWork
    <2>2. CASE Dispatch
        <3>1. /\ ToSet(batch) = {Head(batch)} \union ToSet(Rest)
              /\ queue' = Append(queue, Head(batch)) /\ batch' = Rest /\ ready' = ready
              /\ batch \in Seq(Sources) /\ batch # <<>> /\ queue \in Seq(Sources)
              /\ Head(batch) \in Sources
            BY <2>2, BatchOf DEF Dispatch, Advance, TypeInv, MainTypeOK, Sources, sockVars, epollVars
        <3>2. ClientsOnce(batch') /\ (Head(batch) \in Clients => Head(batch) \notin ToSet(batch'))
            BY <1>0, <3>1, OnceOf DEF OneJob, Rest
        <3>3. ToSet(queue') = ToSet(queue) \union {Head(batch)}
            BY <3>1, AppendOf
        <3>4. ClientsOnce(queue')
            <4>1. Head(batch) \in Clients => Head(batch) \notin ToSet(queue)
                BY <1>0, <3>1 DEF OneJob
            <4>2. ClientsOnce(queue)
                BY <1>0 DEF OneJob
            <4> QED BY <3>1, <4>1, <4>2, OnceOf
        <3> QED BY <1>0, <1>1, <3>1, <3>2, <3>3, <3>4 DEF OneJob, InFlight, AtWork
    <2>3. CASE ~Wake /\ ~Dispatch
        <3>1. \A c \in Clients : c \in ToSet(ready') => c \in ToSet(ready)
            <4>1. CASE Start
                BY <4>1, AddKeeps, SourcesDistinct DEF Start, TypeInv, Sources
            <4>2. CASE CloseEpoll \/ CloseServer
                <5>1. EpollFd \in Fds /\ ServerFd \in Fds /\ FALSE \in BOOLEAN
                    BY FdsAssumption
                <5> QED BY <4>2, <5>1, CloseKeeps DEF CloseEpoll, CloseServer, TypeInv
            <4>3. CASE Signal
                <5>1. ready \in Seq(interest) /\ NoRepeat(ready)
                    BY DEF TypeInv, SockOK, SockTypeOK
                <5> QED BY <4>3, <5>1, LeaveKeeps DEF Signal, TypeInv, epollVars
            <4> QED BY <1>1, <2>3, <4>1, <4>2, <4>3
                    DEF Main, Check, Wait, DispatchNoMemory, DispatchRefused, Join, sockVars, epollVars
        <3>2. batch' = batch \/ batch' = <<>> \/ (mainpc = "dispatch" /\ batch' = Rest)
            BY <1>1, <2>3 DEF Main, Signal, Start, Check, Wait, DispatchNoMemory, DispatchRefused,
                   Advance, CloseEpoll, CloseServer, Join
        <3>3. queue' = queue \/ queue' = <<>>
            BY <1>1, <2>3 DEF Main, Signal, Start, Check, Wait, DispatchNoMemory, DispatchRefused,
                   CloseEpoll, CloseServer, Join
        <3>4. ClientsOnce(batch') /\ \A c \in Clients : c \in ToSet(batch') => c \in ToSet(batch)
            <4>1. CASE mainpc = "dispatch" /\ batch' = Rest
                <5>1. batch \in Seq(Sources) /\ batch # <<>>
                    BY <4>1 DEF TypeInv, MainTypeOK, Sources
                <5> QED BY <1>0, <4>1, <5>1, OnceOf, BatchOf DEF OneJob, Rest, TypeInv
            <4> QED BY <1>0, <3>2, <4>1, OnceEmpty, EmptyOf DEF OneJob
        <3>5. ClientsOnce(queue') /\ \A c \in Clients : c \in ToSet(queue') => c \in ToSet(queue)
            BY <1>0, <3>3, OnceEmpty, EmptyOf DEF OneJob
        <3> QED BY <1>0, <1>1, <3>1, <3>4, <3>5, JobsShrink DEF InFlight
    <2> QED BY <2>1, <2>2, <2>3
<1>4. Unspent'
    BY <1>0, <1>1, <1>3 DEF Unspent, Feeds, Needing, Registering, AtWork
<1> QED BY <1>2, <1>3, <1>4 DEF BriefInv

LEMMA ArriveBrief ==
    ASSUME ConnInv, BriefInv, Brief, Brief', NEW d \in Clients, Arrive(d)
    PROVE  BriefInv'
<1> USE DEF ConnInv
<1>0. Unfreed /\ OneJob /\ Unspent
    BY DEF BriefInv
<1>1. UNCHANGED <<wpc, job, usrdata, ctx, uaf, batch, queue, interest>>
    BY DEF Arrive, PeerStep, Connect, Send, Hang, workerVars, clientVars, histVars, mainVars
<1>2. ~Hang(d)
    BY DEF Hang, Brief
<1>3. CASE Connect(d)
    <2>1. sent' = sent /\ Notify(Listen)
        BY <1>3 DEF Connect
    <2>2. \A c \in Clients : c \in ToSet(ready') => c \in ToSet(ready)
        BY <1>1, <2>1, NotifyKeeps, SockIsEpoll, SourcesDistinct DEF TypeInv
    <2>3. OneJob'
        BY <1>0, <1>1, <2>2, JobsShrink DEF OneJob
    <2>4. Unspent'
        BY <1>0, <1>1, <2>1, <2>2 DEF Unspent, InFlight, Feeds, Needing, Registering, AtWork
    <2>5. Unfreed'
        BY <1>0, <1>1 DEF Unfreed
    <2> QED BY <2>3, <2>4, <2>5 DEF BriefInv
<1>4. CASE Send(d)
    <2>1. sent' = [sent EXCEPT ![d] = @ + 1] /\ Notify(d)
        BY <1>4 DEF Send
    <2>2. sent \in [Clients -> Nat]
        BY PeersAssumption DEF TypeInv, SockOK, SockTypeOK
    <2>3. sent[d] = 0 /\ sent'[d] = 1 /\ \A c \in Clients \ {d} : sent'[c] = sent[c]
        <3>1. sent'[d] = sent[d] + 1 /\ sent'[d] <= 1 /\ sent[d] \in Nat
            BY <2>1, <2>2 DEF Brief
        <3> QED BY <2>1, <2>2, <3>1
    <2>4. \A c \in Clients \ {d} : c \in ToSet(ready') => c \in ToSet(ready)
        BY <1>1, <2>1, NotifyKeeps, SockIsEpoll DEF TypeInv
    <2>5. ~InFlight(d) /\ ~AtWork(d) /\ ctx[d] # "freed"
        BY <1>0, <2>3 DEF Unspent
    <2>6. OneJob'
        BY <1>0, <1>1, <2>4, <2>5 DEF OneJob, InFlight, AtWork
    <2>7. Unspent'
        BY <1>0, <1>1, <2>3, <2>4, <2>5 DEF Unspent, InFlight, Feeds, Needing, Registering, AtWork
    <2>8. Unfreed'
        BY <1>0, <1>1 DEF Unfreed
    <2> QED BY <2>6, <2>7, <2>8 DEF BriefInv
<1> QED BY <1>2, <1>3, <1>4 DEF Arrive, PeerStep

LEMMA TakeJobBrief ==
    ASSUME ConnInv, BriefInv, Brief, NEW w \in Workers, TakeJob(w)
    PROVE  BriefInv'
<1> USE DEF ConnInv
<1>0. Unfreed /\ OneJob /\ Unspent
    BY DEF BriefInv
<1>1. UNCHANGED <<ready, batch, usrdata, ctx, sent, uaf>>
    BY DEF TakeJob, sockVars, epollVars, peerVars, mainVars, clientVars, histVars
<1>2. /\ queue \in Seq(Sources) /\ queue # <<>> /\ queue' = Tail(queue) /\ wpc[w] = "idle"
      /\ job'[w] = Head(queue) /\ wpc'[w] = IF Head(queue) = Listen THEN "accept" ELSE "read"
      /\ \A v \in Workers \ {w} : job'[v] = job[v] /\ wpc'[v] = wpc[v]
    BY DEF TakeJob, At, Goto, TypeInv, MainTypeOK, WorkOK, WorkerTypeOK, Sources
<1>3. /\ Head(queue) \in Sources /\ ToSet(queue) = {Head(queue)} \union ToSet(queue')
      /\ ClientsOnce(queue') /\ (Head(queue) \in Clients => Head(queue) \notin ToSet(queue'))
    BY <1>0, <1>2, TailOf, OnceOf DEF OneJob
<1>4. \A c \in Clients : c = Head(queue) => ~AtWork(c) /\ c \notin ToSet(ready) \union ToSet(batch)
    BY <1>0, <1>3 DEF OneJob, InFlight
<1>5. Unfreed'
    BY <1>0, <1>1, <1>2 DEF Unfreed
<1>6. CASE Head(queue) = Listen
    <2>1. wpc'[w] \notin ClientPc /\ ~Registering(w)' /\ ~Needing(w)'
        BY <1>2, <1>6 DEF ClientPc, Registering, Needing, Popping
    <2>2. OneJob'
        BY <1>0, <1>1, <1>2, <1>3, <2>1, JobsShrink DEF OneJob
    <2>3. \A c \in Clients : /\ InFlight(c)' => InFlight(c)
                             /\ Feeds(c)' => Feeds(c)
                             /\ AtWork(c)' => AtWork(c)
        BY <1>1, <1>2, <1>3, <2>1 DEF InFlight, Feeds, Needing, AtWork
    <2>4. Unspent'
        BY <1>0, <1>1, <1>2, <2>1, <2>3 DEF Unspent, Registering
    <2> QED BY <1>5, <2>2, <2>4 DEF BriefInv
<1>7. CASE Head(queue) \in Clients
    <2> PICK d \in Clients : d = Head(queue)
        BY <1>7
    <2>1. wpc'[w] = "read" /\ job'[w] = d /\ wpc'[w] \in ClientPc /\ ~Registering(w)'
        BY <1>2, SourcesDistinct DEF ClientPc, Registering
    <2>2. /\ InFlight(d) /\ ~InFlight(d)' /\ ~AtWork(d)
          /\ \A c \in Clients \ {d} : /\ InFlight(c)' <=> InFlight(c)
                                      /\ Feeds(c)' => Feeds(c)
                                      /\ AtWork(c)' => AtWork(c)
        BY <1>1, <1>2, <1>3, <1>4, <2>1 DEF InFlight, Feeds, Needing, AtWork
    <2>3. OneJob'
        <3>1. \A v, u \in Workers : wpc'[v] \in ClientPc /\ wpc'[u] \in ClientPc
                                    /\ job'[v] = job'[u] => v = u
            BY <1>0, <1>2, <2>1, <2>2 DEF OneJob, AtWork
        <3>2. \A c \in Clients : AtWork(c)' => ~InFlight(c)'
            BY <1>0, <2>2 DEF OneJob
        <3> QED BY <1>0, <1>1, <1>3, <3>1, <3>2 DEF OneJob
    <2>4. Unspent'
        BY <1>0, <1>1, <1>2, <2>1, <2>2 DEF Unspent, Registering
    <2> QED BY <1>5, <2>3, <2>4 DEF BriefInv
<1> QED BY <1>3, <1>6, <1>7 DEF Sources

LEMMA ServerBrief ==
    ASSUME ConnInv, ServiceInv, BriefInv, Brief, NEW w \in Workers, ServerJob(w)
    PROVE  BriefInv'
<1> USE DEF ConnInv, At
<1>0. Unfreed /\ OneJob /\ Unspent
    BY DEF BriefInv
<1>1. UNCHANGED <<batch, queue, sent, received, gone, uaf>> /\ wpc[w] \in {"accept", "register"}
    BY DEF ServerJob, Accept, AcceptNoMemory, AcceptFull, AcceptNothing, Register, Accepting,
           sockVars, peerVars, mainVars, histVars
<1>2. /\ wpc'[w] \in {"idle", "register"}
      /\ \A v \in Workers \ {w} : wpc'[v] = wpc[v] /\ job'[v] = job[v]
    BY DEF ServerJob, Accept, AcceptNoMemory, AcceptFull, AcceptNothing, Register, Finish, Goto,
           TypeInv, WorkOK, WorkerTypeOK
<1>3. \A v \in Workers : wpc'[v] \in ClientPc => wpc[v] \in ClientPc /\ job'[v] = job[v]
    BY <1>2 DEF ClientPc
<1>4. \A c \in Clients : (Feeds(c)' => Feeds(c)) /\ (AtWork(c)' => AtWork(c))
    BY <1>2 DEF Feeds, Needing, Popping, AtWork, ClientPc
<1>5. CASE Accept(w)
    <2> PICK d : d = Head(backlog)
        OBVIOUS
    <2>1. /\ usrdata' = [usrdata EXCEPT ![d] = "live"] /\ ctx' = [ctx EXCEPT ![d] = "parsing"]
          /\ job' = [job EXCEPT ![w] = d] /\ backlog # <<>> /\ ready' = ready
        BY <1>5 DEF Accept, Accepting, epollVars
    <2>2. d \in Clients /\ usrdata[d] = "none"
        <3>1. backlog \in Seq(Clients)
            BY DEF SockOK, SockTypeOK, TypeInv
        <3> QED BY <2>1, <3>1, TailOf DEF SocketsOK, BacklogOK
    <2>3. /\ ctx'[d] = "parsing" /\ \A c \in Clients \ {d} : ctx'[c] = ctx[c]
          /\ usrdata'[d] = "live" /\ \A c \in Clients \ {d} : usrdata'[c] = usrdata[c]
          /\ job'[w] = d
        BY <2>1, <2>2 DEF TypeInv, ClientTypeOK, WorkOK, WorkerTypeOK
    <2>4. OneJob'
        BY <1>0, <1>1, <1>3, <2>1, JobsShrink DEF OneJob
    <2>5. \A c \in Clients : InFlight(c)' <=> InFlight(c)
        BY <1>1, <2>1 DEF InFlight
    <2>6. Unspent'
        BY <1>0, <1>1, <1>2, <1>4, <2>3, <2>5 DEF Unspent, Registering
    <2>7. Unfreed'
        BY <1>0, <1>1, <1>2, <2>3 DEF Unfreed
    <2> QED BY <2>4, <2>6, <2>7 DEF BriefInv
<1>6. CASE ~Accept(w)
    <2>1. UNCHANGED <<usrdata, ctx>> /\ wpc'[w] = "idle"
        BY <1>6 DEF ServerJob, AcceptNoMemory, AcceptFull, AcceptNothing, Register, clientVars,
               Finish, Goto, TypeInv, WorkOK, WorkerTypeOK
    <2>2. Unfreed'
        BY <1>0, <1>1, <1>2, <2>1 DEF Unfreed
    <2>3. CASE \A c \in Clients : c \in ToSet(ready') => c \in ToSet(ready)
        <3>1. OneJob'
            BY <1>0, <1>1, <1>3, <2>3, JobsShrink DEF OneJob
        <3>2. Unspent'
            BY <1>0, <1>1, <1>2, <1>4, <2>1, <2>3 DEF Unspent, Registering, InFlight
        <3> QED BY <2>2, <3>1, <3>2 DEF BriefInv
    <2>4. CASE Register(w) /\ Add(job[w])
        <3> PICK d : d = job[w]
            OBVIOUS
        <3>1. d \in Clients /\ wpc[w] = "register"
            BY <2>4, JobIsClient DEF Register, TypeInv
        <3>2. ~Served(d) /\ ctx[d] # "freed"
            BY <1>0, <3>1 DEF SocketsOK, RegisterOK, Unspent, Registering
        <3>3. \A c \in Clients \ {d} : c \in ToSet(ready') => c \in ToSet(ready)
            BY <2>4, <3>1, AddKeeps, SockIsEpoll DEF Sources, TypeInv
        <3>4. d \in ToSet(ready') => sent[d] # 0
            <4>1. d \in ToSet(ready') => Readable(d)
                BY <2>4, <3>2 DEF Add, Served, InFlight
            <4>2. received[d] \in Nat /\ sent[d] \in Nat /\ Readable(d) => received[d] < sent[d]
                BY <3>1, PeersAssumption, SourcesDistinct
                   DEF Readable, Brief, TypeInv, SockOK, SockTypeOK
            <4> QED BY <3>1, <4>1, <4>2, PeersAssumption DEF TypeInv, SockOK, SockTypeOK
        <3>5. ~AtWork(d) /\ ~InFlight(d)
            BY <3>2 DEF Served
        <3>6. OneJob'
            <4>1. \A v, u \in Workers : wpc'[v] \in ClientPc /\ wpc'[u] \in ClientPc
                                        /\ job'[v] = job'[u] => v = u
                BY <1>0, <1>3 DEF OneJob
            <4>2. \A c \in Clients : AtWork(c)' => ~InFlight(c)'
                BY <1>0, <1>1, <1>4, <3>3, <3>5 DEF OneJob, InFlight
            <4> QED BY <1>0, <1>1, <3>3, <3>5, <4>1, <4>2 DEF OneJob, InFlight
        <3>7. \A c \in Clients \ {d} : InFlight(c)' => InFlight(c)
            BY <1>1, <3>3 DEF InFlight
        <3>8. InFlight(d)' => sent[d] # 0
            BY <1>1, <3>4, <3>5 DEF InFlight
        <3>9. ~Registering(w)' /\ \A v \in Workers : Registering(v)' => Registering(v) /\ job'[v] = job[v]
            BY <1>2, <2>1 DEF Registering
        <3>10. Unspent'
            BY <1>0, <1>1, <1>4, <2>1, <3>2, <3>5, <3>7, <3>8, <3>9 DEF Unspent
        <3> QED BY <2>2, <3>6, <3>10 DEF BriefInv
    <2>5. (\A c \in Clients : c \in ToSet(ready') => c \in ToSet(ready)) \/ (Register(w) /\ Add(job[w]))
        <3>1. CASE Register(w) /\ fdtab[EpollFd] # Epoll
            <4>1. CloseNumber(fd[job[w]], FALSE) /\ job[w] \in Clients
                BY <3>1, JobIsClient DEF Register, TypeInv
            <4>2. fd[job[w]] \in Fds /\ FALSE \in BOOLEAN
                BY <4>1 DEF TypeInv, ClientTypeOK
            <4> QED BY <4>1, <4>2, CloseKeeps, SockIsEpoll DEF TypeInv
        <3>2. CASE Register(w) /\ fdtab[EpollFd] = Epoll
            BY <3>2 DEF Register, Watch
        <3>3. CASE ~Register(w)
            BY <1>6, <3>3 DEF ServerJob, AcceptNoMemory, AcceptFull, AcceptNothing, sockVars, epollVars
        <3> QED BY <3>1, <3>2, <3>3
    <2> QED BY <2>3, <2>4, <2>5
<1> QED BY <1>5, <1>6

LEMMA ClientBrief ==
    ASSUME ConnInv, BriefInv, Brief, NEW w \in Workers, ClientJob(w)
    PROVE  BriefInv'
<1> USE DEF ConnInv, At, Uses
<1>0. Unfreed /\ OneJob /\ Unspent
    BY DEF BriefInv
<1> PICK d : d = job[w]
    OBVIOUS
<1>1. wpc[w] \in ClientPc /\ d \in Clients /\ Proceeds(w) /\ UNCHANGED <<batch, queue, sent>>
    BY ClientStep DEF mainVars, peerVars
<1>2. ~UseFreed(w) /\ ~ContextFreed(w) /\ ~DoubleFree(w) /\ ~Del(w) /\ ~Close(w) /\ ~Free(w)
    <2>1. Needing(w) => ctx[d] # "freed"
        BY <1>0, <1>1 DEF Unspent, Feeds
    <2>2. ~ContextFreed(w) /\ ~DoubleFree(w)
        BY <2>1 DEF ContextFreed, DoubleFree, Needing, Popping
    <2> QED BY <1>0, <1>1, <2>2 DEF Unfreed, UseFreed, Del, Close, Free
<1>3. ~ReadEnd(w)
    <2>1. Peer(w) = d
        BY <1>1 DEF SocketsOK, OwnSocket, Served, AtWork, Peer
    <2> QED BY <1>1, <2>1 DEF ReadEnd, Brief
<1>4. UNCHANGED <<usrdata, uaf, epollVars>>
    BY <1>2, <1>3 DEF ClientJob, Read, ReadEmpty, Feed, Parse, FeedNoMemory, Pop, Take, Unlink, Release,
           RaceKills, Answer, AnswerError, AnswerShort, AnswerKilled, AnswerNull, sockVars, clientVars,
           histVars
<1> DEFINE Labels == {"read", "feed", "parse", "pop", "take", "unlink", "release", "answer"}
<1>5. /\ \A v \in Workers \ {w} : wpc'[v] = wpc[v] /\ job'[v] = job[v]
      /\ \/ wpc'[w] \in Labels /\ job'[w] = d
         \/ wpc'[w] = "idle"
    <2>1. \/ UNCHANGED <<wpc, job>>
          \/ UNCHANGED job /\ \E l \in Labels : wpc' = [wpc EXCEPT ![w] = l]
          \/ job' = [job EXCEPT ![w] = NoJob] /\ wpc' = [wpc EXCEPT ![w] = "idle"]
        BY <1>2, <1>3 DEF ClientJob, Read, ReadEmpty, Feed, Parse, FeedNoMemory, Pop, Take, Unlink,
               Release, RaceKills, Answer, AnswerError, AnswerShort, AnswerKilled, AnswerNull, Finish,
               Continue, Goto, ReadAgain, OnEagain, workerVars
    <2>2. wpc[w] \in Labels
        BY <1>0, <1>1 DEF Unfreed, ClientPc
    <2> QED BY <2>1, <2>2 DEF TypeInv, WorkOK, WorkerTypeOK
<1>6. Unfreed'
    BY <1>0, <1>4, <1>5 DEF Unfreed
<1>7. OneJob'
    <2>1. \A v \in Workers : wpc'[v] \in ClientPc => wpc[v] \in ClientPc /\ job'[v] = job[v]
        BY <1>1, <1>5 DEF ClientPc
    <2> QED BY <1>0, <1>1, <1>4, <2>1, JobsShrink DEF OneJob, epollVars
<1>8. /\ \A c \in Clients : (InFlight(c)' <=> InFlight(c)) /\ (AtWork(c)' => AtWork(c))
      /\ \A v \in Workers : Registering(v)' => Registering(v) /\ job'[v] = job[v]
    BY <1>1, <1>4, ProceedsQuiet DEF InFlight, epollVars, TypeInv
<1>9. \A c \in Clients : Feeds(c)' => Feeds(c) \/ (c = d /\ ctx[d] = "ended" /\ ctx' = ctx)
    <2>1. Needing(w)' => (Needing(w) /\ job'[w] = job[w]) \/ (ctx[d] = "ended" /\ ctx' = ctx)
        <3>1. CASE Pop(w)
            BY <3>1 DEF Pop, Continue, Finish, Goto, Needing, Popping, TypeInv, WorkOK, WorkerTypeOK,
                        clientVars
        <3>2. CASE ~Pop(w)
            BY <1>2, <1>3, <1>5, <3>2
               DEF ClientJob, Read, ReadEmpty, Feed, Parse, FeedNoMemory, Take, Unlink, Release,
                   RaceKills, Answer, AnswerError, AnswerShort, AnswerKilled, AnswerNull, Finish,
                   Continue, Goto, workerVars, Needing, Popping, TypeInv, WorkOK, WorkerTypeOK
        <3> QED BY <3>1, <3>2
    <2>2. \A v \in Workers \ {w} : Needing(v)' <=> Needing(v)
        BY <1>5 DEF Needing
    <2>3. job'[w] = d \/ ~Needing(w)'
        BY <1>5 DEF Needing, Popping
    <2> QED BY <1>5, <2>1, <2>2, <2>3 DEF Feeds
<1>10. CASE \A c \in Clients : ctx'[c] = "freed" => ctx[c] = "freed"
    <2>1. Unspent'
        BY <1>0, <1>1, <1>8, <1>9, <1>10 DEF Unspent
    <2> QED BY <1>6, <1>7, <2>1 DEF BriefInv
<1>11. CASE Release(w)
    <2>1. ctx' = [ctx EXCEPT ![d] = "freed"] /\ wpc' = [wpc EXCEPT ![w] = "answer"]
        BY <1>11 DEF Release, Continue, Goto
    <2>2. wpc'[w] = "answer" /\ \A c \in Clients \ {d} : ctx'[c] = ctx[c]
        BY <2>1 DEF TypeInv, ClientTypeOK, WorkOK, WorkerTypeOK
    <2>3. AtWork(d) /\ ~InFlight(d) /\ sent[d] # 0
        BY <1>0, <1>1 DEF OneJob, Unspent, AtWork
    <2>4. ~Feeds(d)'
        BY <1>0, <1>1, <1>5, <2>2 DEF OneJob, Feeds, Needing, Popping, ClientPc
    <2>5. \A v \in Workers : Registering(v)' => job'[v] # d
        BY <1>8, <2>3 DEF SocketsOK, RegisterOK, Served
    <2>6. \A c \in Clients \ {d} : Feeds(c)' => Feeds(c)
        BY <1>9
    <2>7. Unspent'
        BY <1>0, <1>1, <1>8, <2>2, <2>3, <2>4, <2>5, <2>6 DEF Unspent
    <2> QED BY <1>6, <1>7, <2>7 DEF BriefInv
<1>12. Release(w) \/ \A c \in Clients : ctx'[c] = "freed" => ctx[c] = "freed"
    <2>1. CASE Parse(w) \/ Unlink(w)
        <3>1. \E x \in {"parsing", "ended", "popped", ctx[d]} : ctx' = [ctx EXCEPT ![d] = x]
            BY <2>1 DEF Parse, Unlink
        <3> QED BY <1>1, <3>1 DEF TypeInv, ClientTypeOK
    <2>2. CASE ~Parse(w) /\ ~Unlink(w)
        BY <1>2, <1>3, <2>2 DEF ClientJob, Read, ReadEmpty, Feed, FeedNoMemory, Pop, Take, RaceKills,
               Answer, AnswerError, AnswerShort, AnswerKilled, AnswerNull, clientVars
    <2> QED BY <2>1, <2>2
<1> QED BY <1>10, <1>11, <1>12

\* As long as no client has closed its connection or sent a second segment, no
\* freed memory is used, whatever the number of clients and workers, and
\* whichever allocations and writes fail.  (After that it may be: the runs
\* reactor_keepalive and reactor_close show how.)
THEOREM BriefUsesNoFreed == Spec => [](Brief => NoUseAfterFree)
<1>1. Init => BriefInv
    <2> SUFFICES ASSUME Init PROVE Unfreed /\ OneJob /\ Unspent
        BY DEF BriefInv
    <2>1. batch = <<>> /\ queue = <<>> /\ ready = <<>> /\ \A w \in Workers : wpc[w] = "idle"
        BY DEF Init, SockInit
    <2>2. \A c \in Clients : ~InFlight(c) /\ ~AtWork(c) /\ ~Feeds(c)
        BY <2>1, EmptyOf DEF InFlight, AtWork, Feeds, Needing, Popping, ClientPc
    <2>3. OneJob
        BY <2>1, <2>2, EmptyOf, OnceEmpty DEF OneJob, ClientPc
    <2>4. Unspent
        BY <2>1, <2>2 DEF Unspent, Registering, Init
    <2>5. Unfreed
        BY <2>1 DEF Unfreed, Init
    <2> QED BY <2>3, <2>4, <2>5
<1>2. ConnInv /\ ServiceInv /\ BriefInv /\ [Next]_vars => BriefInv'
    <2> SUFFICES ASSUME ConnInv, ServiceInv, BriefInv, [Next]_vars, Brief' PROVE BriefInv'
        BY DEF BriefInv
    <2>1. CASE UNCHANGED vars
        <3>1. UNCHANGED <<batch, queue, ready, wpc, job, usrdata, ctx, sent, gone, uaf>>
            BY <2>1 DEF vars, sockVars, epollVars, peerVars, mainVars, workerVars, clientVars, histVars
        <3>2. Brief /\ \A c \in Clients : /\ InFlight(c)' <=> InFlight(c)
                                          /\ AtWork(c)' <=> AtWork(c)
                                          /\ Feeds(c)' <=> Feeds(c)
            BY <3>1 DEF Brief, InFlight, AtWork, Feeds, Needing
        <3>3. Unfreed' /\ OneJob' /\ Unspent'
            BY <3>1, <3>2 DEF BriefInv, Unfreed, OneJob, ClientsOnce, Unspent, Registering
        <3> QED BY <3>3 DEF BriefInv
    <2>2. CASE Next
        <3>1. Brief
            BY <2>2, BriefBefore DEF ConnInv
        <3> QED BY <2>2, <3>1, MainBrief, ArriveBrief, TakeJobBrief, ServerBrief, ClientBrief
                DEF Next, Worker
    <2> QED BY <2>1, <2>2
<1>3. BriefInv => (Brief => NoUseAfterFree)
    BY DEF BriefInv, Unfreed, NoUseAfterFree
<1> QED BY <1>1, <1>2, <1>3, ConnAlways, ServiceInvAlways, PTL DEF Spec
=============================================================================
