---------------------------- MODULE ServerProofs ----------------------------
(***************************************************************************)
(* What holds of the process for every configuration, every sequence of    *)
(* requests, every set of files and any number of failing calls.           *)
(***************************************************************************)
EXTENDS Server, LeastNumbers, SequenceTheorems, TLAPS

LOCAL INSTANCE SequencesExt

-----------------------------------------------------------------------------
(* The invariant.                                                          *)

FaultsOK == faults \in Nat

\* The appends of get_absolue_path that are left, and how many have failed at
\* least while the path is still in its inner buffer.
PathBuilt ==
    pc = "append" =>
        \/ todo = PathPieces(request.path)
        \/ /\ todo = <<Add(Base), Push("/"), Add(request.path)>>
           /\ data # "heap" => faults >= 1
        \/ /\ todo = <<Push("/"), Add(request.path)>>
           /\ data # "heap" => faults >= 2
        \/ /\ todo = <<Add(request.path)>>
           /\ data # "heap" => faults >= 3
        \/ /\ todo = <<>>
           /\ data # "heap" => faults >= 4

KeyKept == dangling => faults >= 4
KeyInv  == FaultsOK /\ PathBuilt /\ KeyKept

\* The lists of appends, as they become shorter.
LEMMA FourPieces ==
    ASSUME NEW a, NEW b, NEW c, NEW d
    PROVE  /\ Tail(<<a, b, c, d>>) = <<b, c, d>> /\ Tail(<<b, c, d>>) = <<c, d>>
           /\ Tail(<<c, d>>) = <<d>> /\ Tail(<<d>>) = <<>>
           /\ <<a, b, c, d>> # <<>> /\ <<b, c, d>> # <<>> /\ <<c, d>> # <<>> /\ <<d>> # <<>>
  OBVIOUS

\* An append moves the text into a block, or a call has failed.
LEMMA AppendMoves ==
    ASSUME FaultsOK, Build
    PROVE  data' = "heap" \/ (data' = data /\ faults' = faults + 1)
  BY DEF Build, Counted, FaultsOK, Str!PushBack, Str!AppendText, Str!Appended, Str!InBlock,
         Str!NoMemory, Str!bufVars

\* The count of failing calls never goes back.
LEMMA FaultsGrow ==
    ASSUME FaultsOK, [Next]_vars
    PROVE  FaultsOK' /\ faults' >= faults
  <1>1. CASE Main(pc = "idle")
    BY <1>1 DEF FaultsOK, Main, Releasing, ParseConfigFile, ConfigLog, ConfigServer, ConfigCore,
        CreatePool, CreateTable, OpenSocket, SetSignal, Signal, LoopEnds, CloseSocket, JoinPool,
        CloseConfig, FreeTable, MainReturns, Fault
  <1>2. CASE Pop \/ InitPath \/ Build \/ BuildUnmapped \/ Lookup
    BY <1>2 DEF FaultsOK, Pop, InitPath, Build, BuildUnmapped, Lookup, Counted, Fault
  <1>4. CASE NewResponse \/ AddType \/ AddLength
    <2>1. UNCHANGED faults \/ Fault
      BY <1>4 DEF NewResponse, AddType, AddLength
    <2>q. QED BY <2>1 DEF FaultsOK, Fault
  <1>5. CASE Send \/ SendNull \/ InitPost \/ Write
    BY <1>5 DEF FaultsOK, Send, SendNull, InitPost, Write, Fault
  <1>3. CASE MisuseContext \/ UNCHANGED vars
    BY <1>3 DEF FaultsOK, MisuseContext, vars
  <1>q. QED BY <1>1, <1>2, <1>3, <1>4, <1>5 DEF Next, Job

\* The invariant is one.
LEMMA KeyInvInit == Init => KeyInv
  BY DEF Init, MainInit, JobInit, KeyInv, FaultsOK, PathBuilt, KeyKept

LEMMA KeyInvStep == KeyInv /\ [Next]_vars => KeyInv'
  <1> SUFFICES ASSUME KeyInv, [Next]_vars PROVE KeyInv'
    OBVIOUS
  <1>f. FaultsOK /\ FaultsOK' /\ faults' >= faults
    BY FaultsGrow DEF KeyInv
  <1> USE DEF KeyInv, FaultsOK, PathBuilt, KeyKept
  <1>1. CASE Main(pc = "idle") /\ UNCHANGED <<stringVars, jobVars>>
    BY <1>1, <1>f DEF stringVars, jobVars, reqVars, histVars
  <1>2. ASSUME Job PROVE KeyInv'
    <2>1. CASE InitPath
      BY <2>1, <1>f DEF InitPath, HandlerFails, Goto, reqVars, histVars
    <2>2. CASE Build
      <3>1. pc' = pc /\ request' = request /\ dangling' = dangling /\ todo' = Tail(todo) /\ todo # <<>>
        BY <2>2 DEF Build, reqVars, histVars
      <3>2. data' = "heap" \/ (data' = data /\ faults' = faults + 1)
        BY <2>2, <1>f, AppendMoves
      <3>3. CASE pc # "append"
        BY <3>1, <3>3, <1>f
      <3>4. CASE pc = "append" /\ todo = PathPieces(request.path)
        BY <3>1, <3>2, <3>4, <1>f, FourPieces DEF PathPieces
      <3>5. CASE pc = "append" /\ todo = <<Add(Base), Push("/"), Add(request.path)>>
        BY <3>1, <3>2, <3>5, <1>f, FourPieces DEF PathPieces
      <3>6. CASE pc = "append" /\ todo = <<Push("/"), Add(request.path)>>
        BY <3>1, <3>2, <3>6, <1>f, FourPieces DEF PathPieces
      <3>7. CASE pc = "append" /\ todo = <<Add(request.path)>>
        BY <3>1, <3>2, <3>7, <1>f, FourPieces DEF PathPieces
      <3>q. QED BY <3>1, <3>3, <3>4, <3>5, <3>6, <3>7
    <2>3. CASE Lookup
      <3>1. pc' \in {"null", "new"} /\ pc = "append" /\ todo = <<>>
        BY <2>3 DEF Lookup, At, HandlerFails, Goto
      <3>2. data # "heap" => faults >= 4
        BY <3>1, FourPieces DEF PathPieces
      <3>3. dangling' => dangling \/ data # "heap"
        BY <2>3 DEF Lookup
      <3>q. QED BY <3>1, <3>2, <3>3, <1>f
    <2>4. CASE Pop
      BY <2>4, <1>f DEF Pop, Goto, Dispatched, histVars
    <2>5. CASE NewResponse \/ AddType \/ AddLength
      <3>1. pc' # "append" /\ dangling' = dangling
        BY <2>5 DEF NewResponse, AddType, AddLength, At, Goto, HandlerFails, histVars
      <3>q. QED BY <3>1, <1>f
    <2>6. CASE Send \/ SendNull \/ InitPost \/ BuildUnmapped \/ Write
      <3>1. pc' # "append" /\ dangling' = dangling
        BY <2>6 DEF Send, SendNull, InitPost, BuildUnmapped, Write, At, Goto, jobVars, histVars
      <3>q. QED BY <3>1, <1>f
    <2>q. QED BY <1>2, <2>1, <2>2, <2>3, <2>4, <2>5, <2>6 DEF Job
  <1>3. CASE UNCHANGED vars
    BY <1>3, <1>f DEF vars, stringVars, jobVars, reqVars, histVars
  <1>4. CASE MisuseContext
    BY <1>4, <1>f DEF MisuseContext, stringVars, reqVars
  <1>q. QED BY <1>1, <1>2, <1>3, <1>4 DEF Next

\* A key of the path table dangles only after four failing calls, whatever the
\* configuration, the requests and the files, as long as no context is misused.
THEOREM KeyOutlives == Spec => []KeyOutlivesHandler
  <1>1. KeyInv => KeyOutlivesHandler
    BY DEF KeyInv, KeyKept, KeyOutlivesHandler
  <1>q. QED BY KeyInvInit, KeyInvStep, <1>1, PTL DEF Spec

-----------------------------------------------------------------------------
(* What a job uses, and what kills the process.                            *)

ConfigKeys == {"host", "port", "base_dir", "handle_threads", "listen_que", "max_events"}

Serving   == {"loop", "close", "join"}
WithPool  == Serving \union {"table", "socket", "signal"}
WithTable == Serving \union {"socket", "signal", "config", "cache", "return"}
WithLog   == WithPool \union {"server", "core", "pool", "config"}
WithCore  == WithPool \union {"pool", "config", "cache", "return"}

\* What each part of main() has done before the next begins.
LifeInv ==
    /\ config \in [ConfigKeys -> {"unset", "given", "default"}]
    /\ alive =>
        /\ phase \in WithLog => logger = "open"
        /\ pool \in {"none", "running"}
        /\ pool = "running" => phase \in WithPool
        /\ table = "freed" => phase = "return"
        /\ phase \in WithCore \union {"core"} =>
              \A k \in {"host", "port", "base_dir"} : config[k] # "unset"
        /\ phase \in WithCore =>
              \A k \in {"handle_threads", "listen_que", "max_events"} : config[k] # "unset"
        /\ pc # "idle" => pool = "running" /\ phase \in Serving

LEMMA LifeInvInit == Init => LifeInv
  BY DEF Init, MainInit, JobInit, LifeInv, ConfigKeys, WithLog, WithPool, WithCore, Serving

LEMMA LifeInvStep == LifeInv /\ [Next]_vars => LifeInv'
  <1> SUFFICES ASSUME LifeInv, [Next]_vars PROVE LifeInv'
    OBVIOUS
  <1> USE DEF LifeInv, ConfigKeys, WithLog, WithPool, WithCore, Serving
  <1>1. ASSUME Main(pc = "idle"), UNCHANGED pc PROVE LifeInv'
    <2> USE DEF In, Advance, Following, Ends
    <2>1. CASE ParseConfigFile \/ ConfigLog
      BY <1>1, <2>1 DEF ParseConfigFile, ConfigLog
    <2>v. \A k : Value(k) \in {"given", "default"}
      BY DEF Value
    <2>2. CASE ConfigServer
      <3>1. /\ config' \in [ConfigKeys -> {"unset", "given", "default"}]
            /\ alive' => phase = "server" /\ phase' = "core" /\ alive
            /\ alive' => \A k \in {"host", "port", "base_dir"} : config'[k] # "unset"
        <4>1. CASE Has("server")
          <5> DEFINE base == IF Has("base_dir") THEN "given" ELSE "unset"
          <5>1. config' = [config EXCEPT !.host = Value("host"), !.port = Value("port"),
                                         !.base_dir = base]
            BY <2>2, <4>1 DEF ConfigServer
          <5>2. phase = "server" /\ (alive' => Has("base_dir") /\ phase' = "core" /\ alive)
            BY <2>2, <4>1 DEF ConfigServer
          <5>3. base \in {"given", "unset"} /\ (Has("base_dir") => base = "given")
            OBVIOUS
          <5> HIDE DEF base
          <5>q. QED BY <2>v, <5>1, <5>2, <5>3
        <4>2. CASE ~Has("server")
          BY <2>2, <4>2 DEF ConfigServer
        <4>q. QED BY <4>1, <4>2
      <3>2. UNCHANGED <<logger, pool, table>>
        BY <2>2 DEF ConfigServer
      <3>q. QED BY <1>1, <3>1, <3>2
    <2>3. CASE ConfigCore
      <3>1. CASE alive'
        <4>1. phase = "core" /\ phase' = "pool" /\ alive
          BY <2>3, <3>1 DEF ConfigCore
        <4>2. /\ config' \in [ConfigKeys -> {"unset", "given", "default"}]
              /\ \A k \in {"handle_threads", "listen_que", "max_events"} : config'[k] # "unset"
              /\ \A k \in {"host", "port", "base_dir"} : config'[k] = config[k]
          <5>1. config' = [config EXCEPT !.handle_threads = Value("handle_threads"),
                                         !.listen_que = Value("listen_que"),
                                         !.max_events = Value("listen_que")]
            BY <2>3, <3>1 DEF ConfigCore
          <5>q. QED BY <2>v, <5>1
        <4>3. UNCHANGED <<logger, pool, table>>
          BY <2>3 DEF ConfigCore
        <4>q. QED BY <1>1, <4>1, <4>2, <4>3
      <3>2. CASE ~alive'
        BY <2>3, <3>2 DEF ConfigCore, Has, Value
      <3>q. QED BY <3>1, <3>2
    <2>4. CASE CreatePool
      BY <1>1, <2>4 DEF CreatePool
    <2>5. CASE CreateTable
      BY <1>1, <2>5 DEF CreateTable
    <2>6. CASE OpenSocket \/ SetSignal
      BY <1>1, <2>6 DEF OpenSocket, SetSignal
    <2>7. CASE Signal
      BY <1>1, <2>7 DEF Signal
    <2>8. CASE LoopEnds \/ CloseSocket
      BY <1>1, <2>8 DEF LoopEnds, CloseSocket
    <2>9. CASE JoinPool(pc = "idle")
      BY <1>1, <2>9 DEF JoinPool
    <2>10. CASE CloseConfig
      BY <1>1, <2>10 DEF CloseConfig
    <2>11. CASE FreeTable \/ MainReturns
      BY <1>1, <2>11 DEF FreeTable, MainReturns
    <2>q. QED BY <1>1, <2>1, <2>2, <2>3, <2>4, <2>5, <2>6, <2>7, <2>8, <2>9, <2>10, <2>11
              DEF Main, Releasing
  <1>2. ASSUME Job, UNCHANGED mainVars PROVE LifeInv'
    <2>1. UNCHANGED <<phase, config, logger, pool, table>>
      BY <1>2 DEF mainVars
    <2>2. alive' => alive
      BY <1>2 DEF Job, Pop, InitPath, Build, BuildUnmapped, Lookup, NewResponse, AddType,
          AddLength, Send, SendNull, InitPost, Write, At
    <2>3. alive /\ (pc # "idle" \/ (pool = "running" /\ Handled))
      BY <1>2 DEF Job, Pop, InitPath, Build, BuildUnmapped, Lookup, NewResponse, AddType,
          AddLength, Send, SendNull, InitPost, Write, At
    <2>q. QED BY <2>1, <2>2, <2>3 DEF Handled
  <1>3. CASE UNCHANGED vars
    BY <1>3 DEF vars, mainVars, jobVars
  <1>4. ASSUME MisuseContext, UNCHANGED mainVars PROVE LifeInv'
    <2>1. UNCHANGED <<phase, config, logger, pool, table, pc>> /\ alive
      BY <1>4 DEF mainVars, MisuseContext
    <2>q. QED BY <2>1
  <1>q. QED BY <1>1, <1>2, <1>3, <1>4 DEF Next, jobVars

\* Each job finds the pool, the logger, the table and the whole configuration, as
\* long as no context is misused.
THEOREM ServesAlive == Spec => []ServesWithinLife
  <1>1. LifeInv => ServesWithinLife
    BY DEF LifeInv, ServesWithinLife, ConfigKeys, WithLog, WithPool, WithCore, Serving
  <1>q. QED BY LifeInvInit, LifeInvStep, <1>1, PTL DEF Spec

\* A call has failed before a job meets a null response, a missing table or
\* bytes that are not mapped.
DeathInv ==
    /\ FaultsOK
    /\ alive /\ phase \in WithTable /\ table = "none" => faults > 0
    /\ pc = "null" => faults > 0
    /\ html_post = Unmapped => faults > 0
    /\ DeathHasCause

LEMMA DeathInvInit == Init => DeathInv
  BY DEF Init, MainInit, JobInit, DeathInv, FaultsOK, WithTable, Serving, DeathHasCause, Unmapped

\* A misuse is not forgotten.
LEMMA MisuseStays == ASSUME [Next]_vars, misused PROVE misused'
  <1>1. CASE Main(pc = "idle") /\ UNCHANGED <<stringVars, jobVars>>
    BY <1>1 DEF jobVars, histVars
  <1>2. CASE Pop \/ InitPath \/ Build \/ BuildUnmapped \/ Lookup \/ NewResponse \/ AddType
    BY <1>2 DEF Pop, InitPath, Build, BuildUnmapped, Lookup, NewResponse, AddType, jobVars, histVars
  <1>3. CASE AddLength \/ Send \/ SendNull \/ InitPost \/ Write
    BY <1>3 DEF AddLength, Send, SendNull, InitPost, Write, jobVars, histVars
  <1>4. CASE MisuseContext
    BY <1>4 DEF MisuseContext
  <1>5. CASE UNCHANGED vars
    BY <1>5 DEF vars, jobVars, histVars
  <1>q. QED BY <1>1, <1>2, <1>3, <1>4, <1>5 DEF Next, Job

LEMMA DeathInvStep == LifeInv /\ DeathInv /\ [Next]_vars => DeathInv'
  <1> SUFFICES ASSUME LifeInv, DeathInv, [Next]_vars PROVE DeathInv'
    OBVIOUS
  <1>f. FaultsOK /\ FaultsOK' /\ faults' >= faults
    BY FaultsGrow DEF DeathInv
  <1>m. misused => misused'
    BY MisuseStays
  <1> USE DEF DeathInv, FaultsOK, DeathHasCause
  <1>1. ASSUME Main(pc = "idle"), UNCHANGED <<pc, html_post>> PROVE DeathInv'
    <2> USE DEF In, Advance, Following, Ends, WithTable, Serving
    <2>1. CASE ParseConfigFile \/ ConfigLog \/ ConfigServer \/ ConfigCore
      BY <1>1, <1>f, <1>m, <2>1 DEF ParseConfigFile, ConfigLog, ConfigServer, ConfigCore
    <2>2. CASE CreatePool
      BY <1>1, <1>f, <1>m, <2>2 DEF CreatePool
    <2>3. CASE CreateTable
      BY <1>1, <1>f, <1>m, <2>3 DEF CreateTable, Fault
    <2>4. CASE OpenSocket \/ SetSignal
      BY <1>1, <1>f, <1>m, <2>4 DEF OpenSocket, SetSignal
    <2>5. CASE Signal
      BY <1>1, <1>f, <1>m, <2>5 DEF Signal
    <2>6. CASE LoopEnds \/ Releasing(pc = "idle")
      BY <1>1, <1>f, <1>m, <2>6 DEF LoopEnds, Releasing, CloseSocket, JoinPool, CloseConfig, FreeTable,
          MainReturns
    <2>q. QED BY <1>1, <2>1, <2>2, <2>3, <2>4, <2>5, <2>6 DEF Main
  <1>2. ASSUME Job, UNCHANGED mainVars PROVE DeathInv'
    <2>1. UNCHANGED <<phase, table, status>>
      BY <1>2 DEF mainVars
    <2>2. CASE Pop
      BY <2>1, <2>2, <1>f, <1>m DEF Pop, At, Goto, Dispatched, Unmapped
    <2>3. CASE InitPath
      <3>1. pc' = "null" => faults' > 0
        <4>1. CASE HandlerFails /\ Fault
          BY <4>1, <1>f, <1>m DEF Fault
        <4>2. ASSUME Str!InitFrom(Cwd), result' => Goto("append"), ~failed'
              PROVE  pc' # "null"
          <5>1. result'
            BY <4>2 DEF Str!InitFrom, Str!Return
          <5>q. QED BY <4>2, <5>1 DEF Goto
        <4>3. CASE Counted /\ failed'
          BY <4>3, <1>f, <1>m DEF Counted
        <4>q. QED BY <2>3, <4>1, <4>2, <4>3 DEF InitPath
      <3>2. UNCHANGED <<html_post, alive>>
        BY <2>3 DEF InitPath
      <3>q. QED BY <2>1, <3>1, <3>2, <1>f, <1>m
    <2>9. CASE Build
      BY <2>1, <2>9, <1>f, <1>m DEF Build
    <2>4. CASE Lookup
      <3>1. table = "none" => faults > 0
        BY <2>4 DEF Lookup, At, LifeInv, WithTable, Serving
      <3>2. html_post' = Unmapped => faults' > 0
        BY <2>4, <1>f, <1>m, FilesAssumption DEF Lookup, Fault, Unmapped
      <3>3. pc' = "null" => table = "none"
        BY <2>4 DEF Lookup, Goto
      <3>q. QED BY <2>1, <2>4, <3>1, <3>2, <3>3, <1>f, <1>m DEF Lookup
    <2>5. CASE NewResponse
      <3>1. pc' # "null" /\ html_post' = html_post
        BY <2>5 DEF NewResponse, At, Goto
      <3>2. UNCHANGED alive \/ faults' > 0
        BY <2>5, <1>f, <1>m DEF NewResponse, Fault
      <3>q. QED BY <2>1, <3>1, <3>2, <1>f, <1>m
    <2>6. CASE AddType
      BY <2>1, <2>6, <1>f, <1>m DEF AddType, At, Goto, HandlerFails, Fault
    <2>7. CASE AddLength \/ Send \/ InitPost \/ Write
      <3>1. pc' # "null" /\ UNCHANGED <<html_post, alive>>
        BY <2>7 DEF AddLength, Send, InitPost, Write, Goto
      <3>q. QED BY <2>1, <3>1, <1>f, <1>m
    <2>8. CASE SendNull \/ BuildUnmapped
      BY <2>1, <2>8, <1>f, <1>m DEF SendNull, BuildUnmapped, At, ReadsUnmapped, jobVars
    <2>q. QED BY <1>2, <2>2, <2>3, <2>4, <2>5, <2>6, <2>7, <2>8, <2>9 DEF Job
  <1>3. CASE UNCHANGED vars
    BY <1>3, <1>f, <1>m DEF vars, mainVars, jobVars, histVars
  <1>4. ASSUME MisuseContext, UNCHANGED mainVars PROVE DeathInv'
    <2>1. misused'
      BY <1>4 DEF MisuseContext
    <2>2. UNCHANGED <<phase, table, pc, html_post, faults>> /\ alive
      BY <1>4 DEF mainVars, MisuseContext
    <2>q. QED BY <2>1, <2>2, <1>f, <1>m
  <1>q. QED BY <1>1, <1>2, <1>3, <1>4 DEF Next, jobVars

\* A missing file, an unknown method, a missing key of the configuration or a
\* slow peer never kills the process: only a call that failed does, or a context
\* that a job uses although it is freed or another job has it.
THEOREM DiesForCause == Spec => []DeathHasCause
  <1>1. DeathInv => DeathHasCause
    BY DEF DeathInv
  <1>q. QED BY LifeInvInit, LifeInvStep, DeathInvInit, DeathInvStep, <1>1, PTL DEF Spec

-----------------------------------------------------------------------------
(* The client that reads the responses.  Its recursive function meets its  *)
(* own equation, since what is left of a stream is shorter than the stream.*)

Cells   == Str!Cells
Streams == Seq(Cells)

\* The body of the recursion, with f for what is read of the rest.
Reading(f, s) ==
    IF s # <<>> /\ Head(s) = "CRLF" THEN f[Tail(s)]
    ELSE LET k == HeadEnd(s)
             n == Declared(SubSeq(s, 1, k))
         IN  IF k = 0 \/ k + 1 + n > Len(s) THEN <<>>
             ELSE <<SubSeq(s, k + 2, k + 1 + n)>> \o f[SubSeq(s, k + 2 + n, Len(s))]

\* The first place of a test in a sequence.
LEMMA FirstPlace ==
    ASSUME NEW I, I \subseteq Nat, I # {}
    PROVE  Min(I) \in I /\ \A i \in I : Min(I) <= i
  <1>1. \E x \in I : \A y \in I : x <= y
    BY NatMin
  <1>q. QED BY <1>1 DEF Min

\* The least number with a property, however it is found.
LEMMA LeastIs ==
    ASSUME NEW I, I \subseteq Nat, NEW m \in I, \A i \in I : m <= i
    PROVE  Min(I) = m
  <1>1. Min(I) \in I /\ Min(I) <= m
    BY FirstPlace
  <1>2. m <= Min(I) /\ Min(I) \in Nat /\ m \in Nat
    BY <1>1
  <1>q. QED BY <1>1, <1>2

EmptyLines(s) == {k \in 1 .. Len(s) - 1 : s[k] = "CRLF" /\ s[k + 1] = "CRLF"}

\* Where the client sees the end of a head: the first empty line.
LEMMA HeadEndOf ==
    ASSUME NEW s \in Streams
    PROVE  \/ HeadEnd(s) = 0 /\ EmptyLines(s) = {}
           \/ HeadEnd(s) \in EmptyLines(s) /\ \A k \in EmptyLines(s) : HeadEnd(s) <= k
  <1> DEFINE b == [k \in 1 .. Len(s) - 1 |-> s[k] = "CRLF" /\ s[k + 1] = "CRLF"]
             I == {i \in 1 .. Len(b) : b[i]}
  <1>1. HeadEnd(s) = IF I # {} THEN Min(I) ELSE 0
    BY DEF HeadEnd, SelectInSeq
  <1>2. I = EmptyLines(s)
    <2>1. CASE Len(s) > 0
      <3>1. Len(s) - 1 \in Nat
        BY <2>1 DEF Streams
      <3>2. b \in Seq(BOOLEAN)
        BY <3>1
      <3>3. DOMAIN b = 1 .. Len(s) - 1 /\ DOMAIN b = 1 .. Len(b) /\ Len(b) \in Nat
        BY <3>2, LenProperties
      <3>4. Len(b) = Len(s) - 1
        BY <3>1, <3>3
      <3>5. \A k \in 1 .. Len(s) - 1 : b[k] <=> s[k] = "CRLF" /\ s[k + 1] = "CRLF"
        OBVIOUS
      <3> HIDE DEF b
      <3>q. QED BY <3>4, <3>5 DEF EmptyLines
    <2>2. CASE Len(s) = 0
      <3>1. 1 .. Len(s) - 1 = {} /\ Len(b) = 0
        BY <2>2
      <3> HIDE DEF b
      <3>2. I = {} /\ EmptyLines(s) = {}
        BY <3>1 DEF EmptyLines
      <3>q. QED BY <3>2
    <2>3. Len(s) > 0 \/ Len(s) = 0
      BY LenProperties DEF Streams
    <2>q. QED BY <2>1, <2>2, <2>3
  <1> HIDE DEF I
  <1>3. EmptyLines(s) \subseteq Nat
    BY DEF EmptyLines
  <1>q. QED BY <1>1, <1>2, <1>3, FirstPlace

\* A declared length that is unknown passes for -1.
LEMMA DeclaredOf ==
    ASSUME NEW h \in Streams
    PROVE  Declared(h) \in Int /\ Declared(h) >= -1
  <1> DEFINE k == SelectInSeq(h, LAMBDA w : w = "Content-Length")
             I == {i \in 1 .. Len(Number) : Number[i] = <<h[k + 2]>>}
  <1>1. Declared(h) = IF k = 0 \/ k + 2 > Len(h) THEN 0 ELSE (IF I # {} THEN Min(I) ELSE 0) - 1
    BY DEF Declared, SelectInSeq
  <1> HIDE DEF k
  <1>2. I \subseteq Nat
    OBVIOUS
  <1> HIDE DEF I
  <1>3. I # {} => Min(I) \in Nat
    BY <1>2, FirstPlace
  <1>q. QED BY <1>1, <1>3

\* What is left of a stream is shorter.
LEMMA TailShorter ==
    ASSUME NEW s \in Streams, s # <<>>
    PROVE  Tail(s) \in Streams /\ Len(Tail(s)) < Len(s)
  BY DEF Streams

\* What is left behind a body that has arrived is shorter.
LEMMA RestShorter ==
    ASSUME NEW s \in Streams, NEW k, k = HeadEnd(s), k # 0,
           NEW n, n = Declared(SubSeq(s, 1, k)), k + 1 + n <= Len(s)
    PROVE  /\ SubSeq(s, k + 2, k + 1 + n) \in Streams
           /\ SubSeq(s, k + 2 + n, Len(s)) \in Streams
           /\ Len(SubSeq(s, k + 2 + n, Len(s))) < Len(s)
  <1>1. k \in 1 .. Len(s) - 1 /\ Len(s) \in Nat
    BY HeadEndOf DEF EmptyLines, Streams
  <1>2. n \in Int /\ n >= -1
    <2>1. SubSeq(s, 1, k) \in Streams
      BY <1>1 DEF Streams
    <2>q. QED BY <2>1, DeclaredOf
  <1>3. /\ k + 2 \in Int /\ k + 2 > 0 /\ k + 1 + n \in Int /\ k + 2 + n \in Int /\ k + 2 + n > 1
    BY <1>1, <1>2
  <1>4. SubSeq(s, k + 2, k + 1 + n) \in Streams
    <2> DEFINE from == k + 2
               to == k + 1 + n
    <2>0. from \in Int /\ from > 1 /\ to \in Int /\ to <= Len(s) /\ Len(s) \in Int
      BY <1>1, <1>2, <1>3
    <2> HIDE DEF from, to
    <2>1. \A i \in from .. to : s[i] \in Cells
      BY <2>0, ElementOfSeq DEF Streams
    <2>2. SubSeq(s, from, to) \in Seq(Cells)
      BY <2>0, <2>1, SubSeqProperties
    <2>q. QED BY <2>2 DEF from, to, Streams
  <1>5. SubSeq(s, k + 2 + n, Len(s)) \in Streams /\ Len(SubSeq(s, k + 2 + n, Len(s))) < Len(s)
    <2> DEFINE from == k + 2 + n
    <2>0. from \in Int /\ from > 1 /\ Len(s) \in Int
      BY <1>1, <1>3
    <2> HIDE DEF from
    <2>1. \A i \in from .. Len(s) : s[i] \in Cells
      BY <2>0, ElementOfSeq DEF Streams
    <2>2. /\ SubSeq(s, from, Len(s)) \in Seq(Cells)
          /\ Len(SubSeq(s, from, Len(s))) = IF from <= Len(s) THEN Len(s) - from + 1 ELSE 0
      BY <2>0, <2>1, SubSeqProperties
    <2>3. Len(s) > 0
      BY <1>1
    <2>q. QED BY <2>0, <2>2, <2>3 DEF from, Streams
  <1>q. QED BY <1>4, <1>5

\* One step of the reading, whose result is a list of bodies and depends on what
\* is read of shorter streams only.
LEMMA ReadingOf ==
    ASSUME NEW s \in Streams, NEW f, NEW g,
           \A t \in Streams : Len(t) < Len(s) => f[t] \in Seq(Streams) /\ f[t] = g[t]
    PROVE  Reading(f, s) \in Seq(Streams) /\ Reading(f, s) = Reading(g, s)
  <1>1. CASE s # <<>> /\ Head(s) = "CRLF"
    <2>1. Tail(s) \in Streams /\ Len(Tail(s)) < Len(s)
      BY <1>1, TailShorter
    <2>2. \A h : Reading(h, s) = h[Tail(s)]
      BY <1>1 DEF Reading
    <2>q. QED BY <2>1, <2>2
  <1>2. CASE ~(s # <<>> /\ Head(s) = "CRLF")
    <2> DEFINE k == HeadEnd(s)
               n == Declared(SubSeq(s, 1, k))
               body == SubSeq(s, k + 2, k + 1 + n)
               left == SubSeq(s, k + 2 + n, Len(s))
    <2>1. \A h : Reading(h, s) = IF k = 0 \/ k + 1 + n > Len(s) THEN <<>> ELSE <<body>> \o h[left]
      BY <1>2 DEF Reading
    <2>2. k \in Int /\ n \in Int /\ Len(s) \in Int
      <3>1. k \in 0 .. Len(s) - 1 \/ k = 0
        BY HeadEndOf DEF EmptyLines
      <3>2. Len(s) \in Nat
        BY LenProperties DEF Streams
      <3>3. k \in Int /\ k <= Len(s)
        BY <3>1, <3>2
      <3> HIDE DEF k
      <3>4. \A i \in 1 .. k : s[i] \in Cells
        BY <3>2, <3>3, ElementOfSeq DEF Streams
      <3>5. SubSeq(s, 1, k) \in Streams
        BY <3>3, <3>4, SubSeqProperties DEF Streams
      <3>6. n \in Int
        BY <3>5, DeclaredOf
      <3>q. QED BY <3>2, <3>3, <3>6
    <2>3. CASE k = 0 \/ k + 1 + n > Len(s)
      <3> HIDE DEF k, n, body, left
      <3>1. Reading(f, s) = <<>> /\ Reading(g, s) = <<>>
        BY <2>1, <2>3
      <3>2. <<>> \in Seq(Streams)
        BY EmptySeq
      <3>q. QED BY <3>1, <3>2
    <2>4. CASE ~(k = 0 \/ k + 1 + n > Len(s))
      <3>1. k # 0 /\ k + 1 + n <= Len(s)
        BY <2>2, <2>4
      <3>2. body \in Streams /\ left \in Streams /\ Len(left) < Len(s)
        BY <3>1, RestShorter
      <3> HIDE DEF k, n, body, left
      <3>3. f[left] \in Seq(Streams) /\ f[left] = g[left] /\ <<body>> \in Seq(Streams)
        BY <3>2
      <3>4. <<body>> \o f[left] \in Seq(Streams)
        BY <3>3, ConcatProperties
      <3>q. QED BY <2>1, <2>4, <3>3, <3>4
    <2>q. QED BY <2>3, <2>4
  <1>q. QED BY <1>1, <1>2

-----------------------------------------------------------------------------
(* The recursion, by approximations for streams of bounded length.         *)

Shorter(n) == {s \in Streams : Len(s) < n}

Approximates(f, n) ==
    \A s \in Shorter(n) : f[s] \in Seq(Streams) /\ f[s] = Reading(f, s)

\* A function that reads the streams shorter than n exists for each n.  If
\* not, the least n without one has a predecessor with one, which is extended.
LEMMA Approximated ==
    ASSUME NEW n \in Nat
    PROVE  \E f : Approximates(f, n)
  <1> DEFINE T == {m \in Nat : ~\E f : Approximates(f, m)}
  <1> SUFFICES ASSUME T # {} PROVE FALSE
    OBVIOUS
  <1>1. PICK m \in T : \A k \in T : m <= k
    BY NatMin
  <1>2. m # 0
    <2>1. Shorter(0) = {}
      BY LenProperties DEF Shorter, Streams
    <2>2. \E f : Approximates(f, 0)
      BY <2>1 DEF Approximates
    <2>q. QED BY <2>2
  <1>3. m - 1 \in Nat /\ m - 1 \notin T
    BY <1>1, <1>2
  <1>4. PICK f : Approximates(f, m - 1)
    BY <1>3
  <1> DEFINE g == [s \in Shorter(m) |-> Reading(f, s)]
  <1>5. ASSUME NEW s \in Shorter(m)
        PROVE  g[s] \in Seq(Streams) /\ g[s] = Reading(g, s)
    <2>0. s \in Streams /\ Len(s) < m /\ Len(s) \in Nat /\ m \in Nat
      BY LenProperties DEF Shorter, Streams
    <2>1. ASSUME NEW t \in Streams, Len(t) < Len(s)
          PROVE  f[t] \in Seq(Streams) /\ f[t] = g[t]
      <3>1. Len(t) \in Nat
        BY LenProperties DEF Streams
      <3>2. t \in Shorter(m - 1) /\ t \in Shorter(m)
        BY <2>0, <2>1, <3>1 DEF Shorter
      <3>3. f[t] \in Seq(Streams) /\ f[t] = Reading(f, t)
        BY <1>4, <3>2 DEF Approximates
      <3>q. QED BY <3>2, <3>3
    <2>2. g[s] = Reading(f, s)
      OBVIOUS
    <2> HIDE DEF g
    <2>3. Reading(f, s) \in Seq(Streams) /\ Reading(f, s) = Reading(g, s)
      BY <2>0, <2>1, ReadingOf
    <2>q. QED BY <2>2, <2>3
  <1>6. Approximates(g, m)
    <2> HIDE DEF g
    <2>q. QED BY <1>5 DEF Approximates
  <1>q. QED BY <1>1, <1>6

\* Two of them agree where both are defined: there is no shortest stream
\* that they read differently.
LEMMA ApproximationsAgree ==
    ASSUME NEW m \in Nat, NEW n \in Nat, NEW f, NEW g, Approximates(f, m),
           \A t \in Shorter(n) : g[t] = Reading(g, t),
           NEW s \in Streams, Len(s) < m, Len(s) < n
    PROVE  f[s] = g[s]
  <1> DEFINE B == {t \in Shorter(m) \cap Shorter(n) : f[t] # g[t]}
             T == {Len(t) : t \in B}
  <1>0. \A t \in Streams : Len(t) \in Nat
    BY LenProperties DEF Streams
  <1> SUFFICES ASSUME s \in B PROVE FALSE
    BY DEF Shorter
  <1>1. PICK l \in T : \A k \in T : l <= k
    <2>1. T \subseteq Nat /\ T # {}
      BY <1>0 DEF Shorter
    <2>q. QED BY <2>1, NatMin
  <1>2. PICK t \in B : Len(t) = l
    OBVIOUS
  <1>3. t \in Streams /\ Len(t) < m /\ Len(t) < n /\ Len(t) \in Nat
    BY <1>0, <1>2 DEF Shorter
  <1>4. ASSUME NEW u \in Streams, Len(u) < Len(t)
        PROVE  f[u] \in Seq(Streams) /\ f[u] = g[u]
    <2>1. Len(u) \in Nat /\ u \in Shorter(m) /\ u \in Shorter(n)
      BY <1>0, <1>3, <1>4 DEF Shorter
    <2>2. u \notin B
      BY <1>1, <1>2, <1>3, <1>4, <2>1
    <2>q. QED BY <2>1, <2>2 DEF Approximates
  <1>5. Reading(f, t) = Reading(g, t)
    BY <1>3, <1>4, ReadingOf
  <1>6. f[t] = g[t]
    BY <1>2, <1>5 DEF Approximates
  <1>q. QED BY <1>2, <1>6

\* The client's function meets its equation, and gives a list of bodies.
LEMMA BodiesEquation ==
    ASSUME NEW s \in Streams
    PROVE  Bodies[s] \in Seq(Streams) /\ Bodies[s] = Reading(Bodies, s)
  <1> DEFINE A(t) == CHOOSE f : Approximates(f, Len(t) + 1)
             F == [t \in Streams |-> A(t)[t]]
  <1>0. \A t \in Streams : Len(t) \in Nat
    BY LenProperties DEF Streams
  <1>1. ASSUME NEW t \in Streams PROVE Approximates(A(t), Len(t) + 1)
    <2>1. Len(t) + 1 \in Nat
      BY <1>0
    <2>2. \E f : Approximates(f, Len(t) + 1)
      BY <2>1, Approximated
    <2>q. QED BY <2>2
  <1>2. ASSUME NEW t \in Streams PROVE F[t] \in Seq(Streams) /\ F[t] = Reading(F, t)
    <2> DEFINE f == A(t)
    <2>1. Approximates(f, Len(t) + 1)
      BY <1>1
    <2>2. F[t] = f[t]
      OBVIOUS
    <2>3. ASSUME NEW u \in Streams, Len(u) < Len(t)
          PROVE  f[u] \in Seq(Streams) /\ f[u] = F[u]
      <3> DEFINE g == A(u)
      <3>1. Approximates(g, Len(u) + 1) /\ F[u] = g[u]
        BY <1>1
      <3> HIDE DEF f, g, F
      <3>2. /\ Len(u) + 1 \in Nat /\ Len(t) + 1 \in Nat
            /\ Len(u) < Len(u) + 1 /\ Len(u) < Len(t) + 1
        BY <1>0, <2>3
      <3>3. f[u] = g[u]
        <4>1. \A v \in Shorter(Len(u) + 1) : g[v] = Reading(g, v)
          BY <3>1 DEF Approximates
        <4>q. QED BY <2>1, <3>2, <4>1, ApproximationsAgree
      <3>4. u \in Shorter(Len(t) + 1)
        BY <3>2 DEF Shorter
      <3>q. QED BY <2>1, <3>1, <3>3, <3>4 DEF Approximates
    <2> HIDE DEF f, F
    <2>4. t \in Shorter(Len(t) + 1)
      BY <1>0 DEF Shorter
    <2>5. f[t] \in Seq(Streams) /\ f[t] = Reading(f, t)
      BY <2>1, <2>4 DEF Approximates
    <2>6. Reading(f, t) = Reading(F, t)
      BY <2>3, ReadingOf
    <2>q. QED BY <2>2, <2>5, <2>6
  <1>3. F = [t \in Streams |-> Reading(F, t)]
    <2>1. F = [t \in Streams |-> F[t]]
      OBVIOUS
    <2> HIDE DEF F
    <2>q. QED BY <1>2, <2>1
  <1> HIDE DEF F
  <1>4. Bodies = CHOOSE f : f = [t \in Streams |-> Reading(f, t)]
    BY DEF Bodies, Reading, Streams, Cells
  <1>5. Bodies = [t \in Streams |-> Reading(Bodies, t)]
    BY <1>3, <1>4
  <1>6. \A t \in Streams : Bodies[t] = Reading(Bodies, t)
    BY <1>5
  <1>7. F[s] = Bodies[s]
    <2>1. Approximates(F, Len(s) + 1) /\ \A t \in Shorter(Len(s) + 1) : Bodies[t] = Reading(Bodies, t)
      BY <1>2, <1>6 DEF Approximates, Shorter
    <2>2. Len(s) + 1 \in Nat /\ Len(s) < Len(s) + 1
      BY <1>0
    <2>q. QED BY <2>1, <2>2, ApproximationsAgree
  <1>q. QED BY <1>2, <1>6, <1>7

-----------------------------------------------------------------------------
(* The response to a request that nothing has gone wrong with.             *)

Pages == {b \in Seq(DOMAIN Code) : Len(b) < Len(Number)}

LengthWord(b) == LengthText(b)[1]

HeadWord(b, i) ==
    CASE i = 1 -> "HTTP/1.0"
      [] i = 3 -> "200"
      [] i = 5 -> "OK"
      [] i = 7 -> "Content-Type"
      [] i = 9 -> "html"
      [] i = 11 -> "Content-Length"
      [] i = 13 -> LengthWord(b)
      [] i \in {2, 4} -> " "
      [] i \in {8, 12} -> ": "
      [] i \in {6, 10, 14, 15} -> "CRLF"

HeadOf(b) == [i \in 1 .. 15 |-> HeadWord(b, i)]

AnswerOf(b) == HeadOf(b) \o b \o <<"CRLF">>

\* The text of a body's length, and that no other length has it.
LEMMA LengthWordOf ==
    ASSUME NEW b \in Pages
    PROVE  /\ LengthText(b) = <<LengthWord(b)>>
           /\ LengthWord(b) \in Cells /\ LengthWord(b) # "CRLF"
           /\ Len(b) + 1 \in 1 .. Len(Number)
           /\ \A i \in 1 .. Len(Number) : Number[i] = <<LengthWord(b)>> <=> i = Len(b) + 1
  <1> DEFINE S == {<<w>> : w \in DOMAIN Code \ {"CRLF"}}
  <1>1. Len(b) \in Nat /\ Len(b) < Len(Number) /\ Len(Number) \in Nat /\ DOMAIN Number = 1 .. Len(Number)
    BY NumberAssumption, LenProperties DEF Pages
  <1>2. Len(b) + 1 \in 1 .. Len(Number)
    BY <1>1
  <1>3. LengthText(b) \in S
    <2>1. Number \in Seq(S)
      BY NumberAssumption
    <2> HIDE DEF S
    <2>q. QED BY <1>2, <2>1, ElementOfSeq DEF LengthText
  <1>4. PICK w \in DOMAIN Code \ {"CRLF"} : LengthText(b) = <<w>>
    BY <1>3
  <1>5. LengthWord(b) = w
    BY <1>4 DEF LengthWord
  <1>6. ASSUME NEW i \in 1 .. Len(Number) PROVE Number[i] = <<w>> <=> i = Len(b) + 1
    <2>1. Number[Len(b) + 1] = <<w>>
      BY <1>4 DEF LengthText
    <2>q. QED BY <1>1, <1>2, <2>1, NumberAssumption
  <1>q. QED BY <1>2, <1>4, <1>5, <1>6 DEF Cells, Str!Cells

\* The words of a response are cells of a string.
LEMMA WordsAreCells ==
    /\ "HTTP/1.0" \in Cells /\ " " \in Cells /\ "200" \in Cells /\ "OK" \in Cells
    /\ "CRLF" \in Cells /\ "Content-Type" \in Cells /\ ": " \in Cells /\ "html" \in Cells
    /\ "Content-Length" \in Cells /\ "/" \in Cells
  <1>1. DOMAIN Code \subseteq Cells
    BY DEF Cells, Str!Cells
  <1>q. QED BY <1>1, WordsAssumption

\* The places of two streams, one behind the other.
LEMMA JoinPlaces ==
    ASSUME NEW s \in Streams, NEW t \in Streams
    PROVE  /\ s \o t \in Streams /\ Len(s \o t) = Len(s) + Len(t)
           /\ Len(s) \in Nat /\ Len(t) \in Nat
           /\ \A i \in 1 .. Len(s) : (s \o t)[i] = s[i]
           /\ \A i \in 1 .. Len(t) : (s \o t)[Len(s) + i] = t[i]
  <1>0. Len(s) \in Nat /\ Len(t) \in Nat
    BY LenProperties DEF Streams
  <1>1. /\ s \o t \in Streams /\ Len(s \o t) = Len(s) + Len(t)
        /\ \A i \in 1 .. Len(s) + Len(t) :
                (s \o t)[i] = IF i <= Len(s) THEN s[i] ELSE t[i - Len(s)]
    BY ConcatProperties DEF Streams
  <1>2. \A i \in 1 .. Len(s) : (s \o t)[i] = s[i]
    BY <1>0, <1>1
  <1>3. ASSUME NEW i \in 1 .. Len(t) PROVE (s \o t)[Len(s) + i] = t[i]
    <2>1. Len(s) + i \in 1 .. Len(s) + Len(t) /\ ~(Len(s) + i <= Len(s)) /\ (Len(s) + i) - Len(s) = i
      BY <1>0
    <2>q. QED BY <1>1, <2>1
  <1>q. QED BY <1>0, <1>1, <1>2, <1>3

\* A word on its own.
LEMMA WordIsStream ==
    ASSUME NEW w \in Cells
    PROVE  <<w>> \in Streams
  BY DEF Streams

\* The empty line.
LEMMA Line == <<"CRLF">> \in Streams /\ Len(<<"CRLF">>) = 1 /\ <<"CRLF">>[1] = "CRLF"
  <1>1. "CRLF" \in Cells
    BY WordsAreCells
  <1>q. QED BY <1>1 DEF Streams

\* The words of the head, one by one.
HeadIs(h, w) ==
    /\ h[1] = "HTTP/1.0" /\ h[2] = " " /\ h[3] = "200" /\ h[4] = " " /\ h[5] = "OK"
    /\ h[6] = "CRLF" /\ h[7] = "Content-Type" /\ h[8] = ": " /\ h[9] = "html"
    /\ h[10] = "CRLF" /\ h[11] = "Content-Length" /\ h[12] = ": " /\ h[13] = w
    /\ h[14] = "CRLF" /\ h[15] = "CRLF"

\* The head, word by word.
LEMMA HeadWords ==
    ASSUME NEW b
    PROVE  HeadIs(HeadOf(b), LengthWord(b))
  BY DEF HeadIs, HeadWord, HeadOf

\* It is a stream of 15 words.
LEMMA HeadOfIs ==
    ASSUME NEW b \in Pages
    PROVE  HeadOf(b) \in Streams /\ Len(HeadOf(b)) = 15
  <1>1. LengthWord(b) \in Cells
    BY LengthWordOf
  <1>2. ASSUME NEW i \in 1 .. 15 PROVE HeadOf(b)[i] \in Cells
    <2>1. i \in {1, 2, 3, 4, 5, 6, 7, 8, 9, 10, 11, 12, 13, 14, 15}
      OBVIOUS
    <2>2. HeadIs(HeadOf(b), LengthWord(b))
      BY HeadWords
    <2>q. QED BY <1>1, <2>1, <2>2, WordsAreCells DEF HeadIs
  <1>3. HeadOf(b) = [i \in 1 .. 15 |-> HeadOf(b)[i]]
    BY DEF HeadOf
  <1>q. QED BY <1>2, <1>3 DEF Streams

\* A body is a stream.
LEMMA PageIsStream == Pages \subseteq Streams
  BY DEF Pages, Streams, Cells, Str!Cells

\* A stream that begins with a response to b and goes on with s.
Begins(x, b, s) ==
    /\ x \in Streams /\ Len(x) = 16 + Len(b) + Len(s)
    /\ \A i \in 1 .. 15 : x[i] = HeadOf(b)[i]
    /\ \A i \in 1 .. Len(b) : x[15 + i] = b[i]
    /\ x[16 + Len(b)] = "CRLF"
    /\ \A i \in 1 .. Len(s) : x[16 + Len(b) + i] = s[i]

\* The places of a stream that begins with a response.
LEMMA AnswerPlaces ==
    ASSUME NEW b \in Pages, NEW s \in Streams
    PROVE  /\ AnswerOf(b) \in Streams /\ HeadOf(b) \o b \in Streams
           /\ Begins(AnswerOf(b) \o s, b, s)
  <1> DEFINE h == HeadOf(b)
             e == <<"CRLF">>
             hb == h \o b
             a == hb \o e
             x == a \o s
  <1>1. h \in Streams /\ Len(h) = 15 /\ b \in Streams
    BY HeadOfIs, PageIsStream
  <1>2. e \in Streams /\ Len(e) = 1 /\ e[1] = "CRLF"
    BY Line
  <1>3. AnswerOf(b) = a
    BY DEF AnswerOf
  <1> HIDE DEF h, e
  <1>5. /\ hb \in Streams /\ Len(hb) = Len(h) + Len(b) /\ Len(b) \in Nat
        /\ \A i \in 1 .. Len(h) : hb[i] = h[i]
        /\ \A i \in 1 .. Len(b) : hb[Len(h) + i] = b[i]
    BY <1>1, JoinPlaces
  <1> HIDE DEF hb
  <1>6. /\ a \in Streams /\ Len(a) = Len(hb) + Len(e)
        /\ \A i \in 1 .. Len(hb) : a[i] = hb[i]
        /\ \A i \in 1 .. Len(e) : a[Len(hb) + i] = e[i]
    BY <1>2, <1>5, JoinPlaces
  <1> HIDE DEF a
  <1>7. /\ x \in Streams /\ Len(x) = Len(a) + Len(s) /\ Len(s) \in Nat
        /\ \A i \in 1 .. Len(a) : x[i] = a[i]
        /\ \A i \in 1 .. Len(s) : x[Len(a) + i] = s[i]
    BY <1>6, JoinPlaces
  <1> HIDE DEF x
  <1>8. Len(hb) = 15 + Len(b) /\ Len(a) = 16 + Len(b) /\ Len(x) = 16 + Len(b) + Len(s)
    BY <1>1, <1>2, <1>5, <1>6, <1>7
  <1>9. ASSUME NEW i \in 1 .. 15 PROVE x[i] = HeadOf(b)[i]
    <2>1. i \in 1 .. Len(h) /\ i \in 1 .. Len(hb) /\ i \in 1 .. Len(a)
      BY <1>1, <1>5, <1>8
    <2>q. QED BY <1>5, <1>6, <1>7, <2>1 DEF h
  <1>a. ASSUME NEW i \in 1 .. Len(b) PROVE x[15 + i] = b[i]
    <2>1. 15 + i \in 1 .. Len(hb) /\ 15 + i \in 1 .. Len(a)
      BY <1>5, <1>8
    <2>2. hb[15 + i] = b[i]
      BY <1>1, <1>5
    <2>q. QED BY <1>6, <1>7, <2>1, <2>2
  <1>b. x[16 + Len(b)] = "CRLF"
    <2>1. 16 + Len(b) \in 1 .. Len(a) /\ 16 + Len(b) = Len(hb) + 1 /\ 1 \in 1 .. Len(e)
      BY <1>2, <1>5, <1>8
    <2>2. a[Len(hb) + 1] = "CRLF"
      BY <1>2, <1>6, <2>1
    <2>q. QED BY <1>7, <2>1, <2>2
  <1>c. ASSUME NEW i \in 1 .. Len(s) PROVE x[16 + Len(b) + i] = s[i]
    BY <1>7, <1>8
  <1>d. Begins(x, b, s)
    BY <1>7, <1>8, <1>9, <1>a, <1>b, <1>c DEF Begins
  <1>q. QED BY <1>3, <1>5, <1>6, <1>d DEF x, hb, h

\* What the client makes of it.
LEMMA AnswerHead ==
    ASSUME NEW b \in Pages, NEW s \in Streams, NEW x, Begins(x, b, s)
    PROVE  /\ x # <<>> /\ Head(x) # "CRLF" /\ HeadEnd(x) = 14
           /\ Declared(SubSeq(x, 1, 14)) = Len(b)
           /\ Len(x) = 16 + Len(b) + Len(s) /\ Len(b) \in Nat /\ Len(s) \in Nat
  <1>0. x \in Streams /\ Len(x) = 16 + Len(b) + Len(s) /\ Len(b) \in Nat /\ Len(s) \in Nat
    <2>1. b \in Streams
      BY PageIsStream
    <2>q. QED BY <2>1, LenProperties DEF Streams, Begins
  <1>1. \A i \in 1 .. 15 : x[i] = HeadOf(b)[i]
    BY DEF Begins
  <1>h. HeadIs(x, LengthWord(b))
    <2>1. HeadIs(HeadOf(b), LengthWord(b))
      BY HeadWords
    <2>2. /\ x[1] = HeadOf(b)[1] /\ x[2] = HeadOf(b)[2] /\ x[3] = HeadOf(b)[3]
          /\ x[4] = HeadOf(b)[4] /\ x[5] = HeadOf(b)[5] /\ x[6] = HeadOf(b)[6]
          /\ x[7] = HeadOf(b)[7] /\ x[8] = HeadOf(b)[8] /\ x[9] = HeadOf(b)[9]
          /\ x[10] = HeadOf(b)[10] /\ x[11] = HeadOf(b)[11] /\ x[12] = HeadOf(b)[12]
          /\ x[13] = HeadOf(b)[13] /\ x[14] = HeadOf(b)[14] /\ x[15] = HeadOf(b)[15]
      BY <1>1
    <2>3. /\ x[1] = "HTTP/1.0" /\ x[2] = " " /\ x[3] = "200" /\ x[4] = " " /\ x[5] = "OK"
          /\ x[6] = "CRLF"
      BY <2>1, <2>2, Zenon DEF HeadIs
    <2>4. /\ x[7] = "Content-Type" /\ x[8] = ": " /\ x[9] = "html" /\ x[10] = "CRLF"
      BY <2>1, <2>2, Zenon DEF HeadIs
    <2>5. /\ x[11] = "Content-Length" /\ x[12] = ": " /\ x[13] = LengthWord(b) /\ x[14] = "CRLF"
          /\ x[15] = "CRLF"
      BY <2>1, <2>2, Zenon DEF HeadIs
    <2>q. QED BY <2>3, <2>4, <2>5, Zenon DEF HeadIs
  <1>w. LengthWord(b) # "CRLF"
    BY LengthWordOf
  <1>2. x # <<>> /\ Head(x) # "CRLF"
    <2>1. x[1] # "CRLF"
      BY <1>h DEF HeadIs
    <2>q. QED BY <1>0, <2>1 DEF Streams
  <1>3. 14 \in EmptyLines(x) /\ \A k \in EmptyLines(x) : 14 <= k
    <2>1. 14 \in EmptyLines(x)
      <3>1. x[14] = "CRLF" /\ x[15] = "CRLF"
        BY <1>h DEF HeadIs
      <3>q. QED BY <1>0, <3>1 DEF EmptyLines
    <2>2. ASSUME NEW k \in EmptyLines(x), k < 14 PROVE FALSE
      <3>1. k \in 1 .. 13 /\ x[k] = "CRLF" /\ x[k + 1] = "CRLF"
        BY <1>0, <2>2 DEF EmptyLines
      <3>2. k \in {1, 2, 3, 4, 5, 6, 7, 8, 9, 10, 11, 12, 13}
        BY <3>1
      <3>3. k \in {6, 10}
        BY <1>h, <1>w, <3>1, <3>2 DEF HeadIs
      <3>4. k + 1 \in {7, 11}
        BY <3>3
      <3>5. x[7] # "CRLF" /\ x[11] # "CRLF"
        BY <1>h DEF HeadIs
      <3>q. QED BY <3>1, <3>4, <3>5
    <2>q. QED BY <1>0, <2>1, <2>2 DEF EmptyLines
  <1>4. HeadEnd(x) = 14
    <2>1. HeadEnd(x) \in EmptyLines(x) /\ \A k \in EmptyLines(x) : HeadEnd(x) <= k
      BY <1>0, <1>3, HeadEndOf
    <2>2. HeadEnd(x) \in Int
      BY <2>1 DEF EmptyLines
    <2>q. QED BY <1>3, <2>1, <2>2
  <1>5. Declared(SubSeq(x, 1, 14)) = Len(b)
    <2> DEFINE h == SubSeq(x, 1, 14)
               I == {i \in 1 .. Len(h) : h[i] = "Content-Length"}
               J == {i \in 1 .. Len(Number) : Number[i] = <<h[13]>>}
               k == SelectInSeq(h, LAMBDA w : w = "Content-Length")
               n == SelectInSeq(Number, LAMBDA w : w = <<h[k + 2]>>)
    <2>1. Len(h) = 14 /\ \A i \in 1 .. 14 : h[i] = x[i]
      <3>1. \A i \in 1 .. 14 : x[i] \in Cells
        BY <1>0, ElementOfSeq DEF Streams
      <3>q. QED BY <1>0, <3>1, SubSeqProperties DEF Streams
    <2>2. k = IF I # {} THEN Min(I) ELSE 0
      BY DEF SelectInSeq
    <2>3. Declared(h) = IF k = 0 \/ k + 2 > Len(h) THEN 0 ELSE n - 1
      BY DEF Declared
    <2>4. n = IF {i \in 1 .. Len(Number) : Number[i] = <<h[k + 2]>>} # {}
              THEN Min({i \in 1 .. Len(Number) : Number[i] = <<h[k + 2]>>}) ELSE 0
      BY DEF SelectInSeq
    <2> HIDE DEF h, k, n
    <2>5. 11 \in I /\ \A i \in I : 11 <= i
      <3>1. ASSUME NEW i \in I, i < 11 PROVE FALSE
        <4>1. i \in {1, 2, 3, 4, 5, 6, 7, 8, 9, 10} /\ x[i] = "Content-Length"
          BY <2>1, <3>1
        <4>q. QED BY <1>h, <4>1 DEF HeadIs
      <3>2. x[11] = "Content-Length"
        BY <1>h DEF HeadIs
      <3>q. QED BY <3>1, <3>2, <2>1
    <2>6. J = {Len(b) + 1}
      <3>1. h[13] = x[13]
        BY <2>1
      <3>2. x[13] = LengthWord(b)
        BY <1>h DEF HeadIs
      <3>q. QED BY LengthWordOf, <3>1, <3>2
    <2>7. Min({Len(b) + 1}) = Len(b) + 1
      <3> DEFINE K == {Len(b) + 1}
      <3>1. K \subseteq Nat /\ K # {}
        BY <1>0
      <3> HIDE DEF K
      <3>2. Min(K) \in K
        BY <3>1, FirstPlace
      <3>q. QED BY <3>2 DEF K
    <2>8. k = 11
      <3>1. I \subseteq Nat
        OBVIOUS
      <3> HIDE DEF I
      <3>2. Min(I) = 11
        BY <2>5, <3>1, LeastIs
      <3>q. QED BY <2>2, <2>5, <3>2
    <2>9. n = Len(b) + 1
      <3>1. n = IF J # {} THEN Min(J) ELSE 0
        BY <2>4, <2>8
      <3> HIDE DEF J
      <3>q. QED BY <3>1, <2>6, <2>7
    <2>a. Declared(h) = n - 1
      BY <2>1, <2>3, <2>8
    <2>q. QED BY <1>0, <2>9, <2>a DEF h
  <1>q. QED BY <1>0, <1>2, <1>4, <1>5

\* Nothing is read of an empty stream.
LEMMA NothingRead == <<>> \in Streams /\ Bodies[<<>>] = <<>>
  <1>1. <<>> \in Streams /\ Len(<<>>) = 0
    BY EmptySeq DEF Streams
  <1>2. EmptyLines(<<>>) = {}
    BY <1>1 DEF EmptyLines
  <1>3. HeadEnd(<<>>) = 0
    BY <1>1, <1>2, HeadEndOf
  <1>4. Bodies[<<>>] = Reading(Bodies, <<>>)
    BY <1>1, BodiesEquation
  <1>5. Reading(Bodies, <<>>) = <<>>
    BY <1>3 DEF Reading
  <1>q. QED BY <1>1, <1>4, <1>5

\* An empty line before a response is passed over.
LEMMA BlankRead ==
    ASSUME NEW s \in Streams, NEW y \in Streams, Len(y) = 1 + Len(s), y[1] = "CRLF",
           \A i \in 1 .. Len(s) : y[1 + i] = s[i]
    PROVE  Bodies[y] = Bodies[s]
  <1>0. Len(s) \in Nat
    BY LenProperties DEF Streams
  <1>1. y # <<>>
    BY <1>0, EmptySeq
  <1>2. Head(y) = "CRLF"
    BY <1>0 DEF Streams
  <1>3. Tail(y) = s
    <2>1. /\ Tail(y) \in Streams /\ Len(Tail(y)) = Len(s)
          /\ \A i \in 1 .. Len(Tail(y)) : Tail(y)[i] = y[i + 1]
      BY <1>0, <1>1, HeadTailProperties DEF Streams
    <2>2. ASSUME NEW i \in 1 .. Len(s) PROVE Tail(y)[i] = s[i]
      <3>1. Tail(y)[i] = y[i + 1] /\ i + 1 = 1 + i
        BY <1>0, <2>1
      <3>q. QED BY <3>1
    <2>q. QED BY <2>1, <2>2, SeqEqual DEF Streams
  <1>4. Bodies[y] = Reading(Bodies, y)
    BY BodiesEquation
  <1>5. Reading(Bodies, y) = Bodies[s]
    BY <1>1, <1>2, <1>3 DEF Reading
  <1>q. QED BY <1>4, <1>5

\* A response is read as its body, and what is behind it as if it stood alone.
LEMMA AnswerRead ==
    ASSUME NEW b \in Pages, NEW s \in Streams
    PROVE  Bodies[AnswerOf(b) \o s] = <<b>> \o Bodies[s]
  <1> DEFINE x == AnswerOf(b) \o s
             body == SubSeq(x, 16, 15 + Len(b))
             left == SubSeq(x, 16 + Len(b), Len(x))
  <1>1. Begins(x, b, s)
    BY AnswerPlaces
  <1> HIDE DEF x
  <1>2. /\ x # <<>> /\ Head(x) # "CRLF" /\ HeadEnd(x) = 14
        /\ Declared(SubSeq(x, 1, 14)) = Len(b)
        /\ Len(x) = 16 + Len(b) + Len(s) /\ Len(b) \in Nat /\ Len(s) \in Nat
    BY <1>1, AnswerHead
  <1>3. x \in Streams /\ b \in Streams
    BY <1>1, PageIsStream DEF Begins
  <1>4. \A i \in Int : i \in 1 .. Len(x) => x[i] \in Cells
    BY <1>3, ElementOfSeq DEF Streams
  <1>5. body = b
    <2>1. \A i \in 16 .. 15 + Len(b) : x[i] \in Cells
      BY <1>2, <1>4
    <2>2. 15 + Len(b) \in Int /\ (15 + Len(b)) - 16 + 1 = Len(b) /\ (16 <= 15 + Len(b) <=> Len(b) # 0)
      BY <1>2
    <2>3. /\ body \in Streams
          /\ Len(body) = IF 16 <= 15 + Len(b) THEN (15 + Len(b)) - 16 + 1 ELSE 0
          /\ \A i \in 1 .. (15 + Len(b)) - 16 + 1 : body[i] = x[16 + i - 1]
      BY <2>1, <2>2, SubSeqProperties DEF Streams
    <2>4. Len(body) = Len(b)
      BY <2>2, <2>3
    <2>5. ASSUME NEW i \in 1 .. Len(b) PROVE body[i] = b[i]
      <3>1. 16 + i - 1 = 15 + i
        BY <1>2
      <3>2. body[i] = x[15 + i]
        BY <2>2, <2>3, <3>1
      <3>q. QED BY <1>1, <3>2 DEF Begins
    <2> HIDE DEF body
    <2>q. QED BY <1>3, <2>3, <2>4, <2>5, SeqEqual DEF Streams
  <1>6. Bodies[left] = Bodies[s]
    <2> DEFINE m == 16 + Len(b)
               l == Len(x)
    <2>0. m \in Int /\ l \in Int /\ m <= l /\ l - m + 1 = 1 + Len(s) /\ m > 0
      BY <1>2
    <2>1. \A i \in m .. l : x[i] \in Cells
      BY <1>4, <2>0
    <2>2. /\ left \in Streams
          /\ Len(left) = 1 + Len(s)
          /\ \A i \in 1 .. 1 + Len(s) : left[i] = x[m + i - 1]
      <3>1. left = SubSeq(x, m, l)
        OBVIOUS
      <3> HIDE DEF m, l
      <3>2. /\ SubSeq(x, m, l) \in Streams
            /\ Len(SubSeq(x, m, l)) = IF m <= l THEN l - m + 1 ELSE 0
            /\ \A i \in 1 .. l - m + 1 : SubSeq(x, m, l)[i] = x[m + i - 1]
        BY <2>0, <2>1, SubSeqProperties DEF Streams
      <3> HIDE DEF left
      <3>q. QED BY <2>0, <3>1, <3>2
    <2> HIDE DEF left, l
    <2>3. left[1] = "CRLF"
      <3>1. 1 \in 1 .. 1 + Len(s) /\ m + 1 - 1 = m
        BY <1>2
      <3>2. left[1] = x[m]
        BY <2>2, <3>1
      <3>q. QED BY <1>1, <3>2 DEF Begins
    <2>4. ASSUME NEW i \in 1 .. Len(s) PROVE left[1 + i] = s[i]
      <3>1. 1 + i \in 1 .. 1 + Len(s) /\ m + (1 + i) - 1 = 16 + Len(b) + i
        BY <1>2
      <3>2. left[1 + i] = x[16 + Len(b) + i]
        BY <2>2, <3>1
      <3>q. QED BY <1>1, <3>2 DEF Begins
    <2>q. QED BY <2>2, <2>3, <2>4, BlankRead
  <1>7. Bodies[x] = Reading(Bodies, x)
    BY <1>3, BodiesEquation
  <1>8. Reading(Bodies, x) = <<body>> \o Bodies[left]
    <2> DEFINE k == HeadEnd(x)
               n == Declared(SubSeq(x, 1, k))
    <2>1. Reading(Bodies, x) = IF k = 0 \/ k + 1 + n > Len(x) THEN <<>>
                               ELSE <<SubSeq(x, k + 2, k + 1 + n)>> \o Bodies[SubSeq(x, k + 2 + n, Len(x))]
      BY <1>2 DEF Reading
    <2>2. k = 14 /\ n = Len(b)
      BY <1>2
    <2> HIDE DEF k, n
    <2>3. k + 2 = 16 /\ k + 1 + n = 15 + Len(b) /\ k + 2 + n = 16 + Len(b) /\ ~(k + 1 + n > Len(x)) /\ k # 0
      BY <1>2, <2>2
    <2>q. QED BY <2>1, <2>3
  <1> HIDE DEF body, left
  <1>q. QED BY <1>5, <1>6, <1>7, <1>8 DEF x
-----------------------------------------------------------------------------
(* The pieces of a response.                                               *)

Pieces(b) == {Add(t) : t \in Streams \cup {b}} \cup {Push(c) : c \in Cells}

TypeHeader      == [field |-> "Content-Type", value |-> <<"html">>]
LengthHeader(v) == [field |-> "Content-Length", value |-> v]
Headers         == {<<TypeHeader>>} \cup {<<TypeHeader, LengthHeader(v)>> : v \in Streams}
Rep(h, b)       == [version |-> 0, headers |-> h, body |-> b]

\* Four appends for each header.
LEMMA HeaderPiecesAre ==
    ASSUME NEW b, NEW h \in Headers
    PROVE  HeaderPieces(h) \in Seq(Pieces(b)) /\ Len(HeaderPieces(h)) = 4 * Len(h)
  <1>1. Len(h) \in {1, 2} /\ \A i \in 1 .. Len(h) : h[i].field \in Cells /\ h[i].value \in Streams
    <2>1. TypeHeader.field \in Cells /\ TypeHeader.value \in Streams
      BY WordsAreCells, WordIsStream DEF TypeHeader
    <2>2. \A v \in Streams : LengthHeader(v).field \in Cells /\ LengthHeader(v).value \in Streams
      BY WordsAreCells DEF LengthHeader
    <2>q. QED BY <2>1, <2>2 DEF Headers
  <1>2. <<": ">> \in Streams /\ <<"CRLF">> \in Streams
    BY WordsAreCells, WordIsStream
  <1>3. ASSUME NEW k \in 1 .. 4 * Len(h)
        PROVE  HeaderPieces(h)[k] \in Pieces(b)
    <2> DEFINE i == (k + 3) \div 4
               w == h[i]
               m == 1 + ((k - 1) % 4)
    <2>1. i \in 1 .. Len(h) /\ m \in {1, 2, 3, 4}
      BY <1>1
    <2>2. w.field \in Cells /\ w.value \in Streams /\ <<w.field>> \in Streams
      BY <1>1, <2>1, WordIsStream
    <2>3. HeaderPieces(h)[k] =
            <<Add(<<w.field>>), Add(<<": ">>), Add(w.value), Add(<<"CRLF">>)>>[m]
      BY DEF HeaderPieces
    <2> HIDE DEF w, i, m
    <2>4. HeaderPieces(h)[k] \in {Add(<<w.field>>), Add(<<": ">>), Add(w.value), Add(<<"CRLF">>)}
      <3>1. m = 1 \/ m = 2 \/ m = 3 \/ m = 4
        BY <2>1
      <3>2. CASE m = 1
        BY <2>3, <3>2
      <3>3. CASE m = 2
        BY <2>3, <3>3
      <3>4. CASE m = 3
        BY <2>3, <3>4
      <3>5. CASE m = 4
        BY <2>3, <3>5
      <3>q. QED BY <3>1, <3>2, <3>3, <3>4, <3>5
    <2>5. \A t \in Streams : Add(t) \in Pieces(b)
      BY DEF Pieces
    <2>q. QED BY <1>2, <2>2, <2>4, <2>5
  <1>4. HeaderPieces(h) = [k \in 1 .. 4 * Len(h) |-> HeaderPieces(h)[k]]
    BY DEF HeaderPieces
  <1>5. 4 * Len(h) \in Nat
    BY <1>1
  <1>q. QED BY <1>3, <1>4, <1>5
\* The pieces before the headers, and those behind them.
StartPieces ==
    <<Add(<<"HTTP/1.0">>), Push(" "), Add(<<"200">>), Push(" "), Add(<<"OK">>), Add(<<"CRLF">>)>>
EndPieces(b) == <<Add(<<"CRLF">>), Add(b), Add(<<"CRLF">>)>>

\* Tuples as sequences.
LEMMA SixInSeq ==
    ASSUME NEW S, NEW a \in S, NEW b \in S, NEW c \in S, NEW d \in S, NEW e \in S, NEW f \in S
    PROVE  /\ <<a, b, c, d, e, f>> \in Seq(S) /\ Len(<<a, b, c, d, e, f>>) = 6
           /\ <<a, b, c>> \in Seq(S) /\ Len(<<a, b, c>>) = 3
  OBVIOUS

\* The appends of http_response_to_string, by their places.
LEMMA ResponsePiecesAre ==
    ASSUME NEW b, NEW h \in Headers
    PROVE  LET p == ResponsePieces(Rep(h, b))
           IN  /\ p \in Seq(Pieces(b)) /\ Len(p) = 9 + 4 * Len(h)
               /\ \A i \in 1 .. 6 : p[i] = StartPieces[i]
               /\ \A i \in 1 .. 4 * Len(h) : p[6 + i] = HeaderPieces(h)[i]
               /\ \A i \in 1 .. 3 : p[6 + 4 * Len(h) + i] = EndPieces(b)[i]
  <1> DEFINE S == Pieces(b)
             s == StartPieces
             m == HeaderPieces(h)
             e == EndPieces(b)
             sm == s \o m
             p == sm \o e
  <1>1. ResponsePieces(Rep(h, b)) = p
    <2>1. Rep(h, b).version = 0 /\ Rep(h, b).headers = h /\ Rep(h, b).body = b
      BY DEF Rep
    <2>2. VersionSv[0 + 1] = "HTTP/1.0"
      BY DEF VersionSv
    <2>q. QED BY <2>1, <2>2 DEF ResponsePieces, StartPieces, EndPieces
  <1>2. m \in Seq(S) /\ Len(m) = 4 * Len(h) /\ Len(m) \in Nat
    BY HeaderPiecesAre, LenProperties
  <1>3. /\ \A t \in Streams : Add(t) \in S
        /\ Add(b) \in S /\ \A c \in Cells : Push(c) \in S
    BY DEF Pieces
  <1>4. /\ Add(<<"HTTP/1.0">>) \in S /\ Push(" ") \in S /\ Add(<<"200">>) \in S
        /\ Add(<<"OK">>) \in S /\ Add(<<"CRLF">>) \in S
    BY <1>3, WordsAreCells, WordIsStream
  <1> HIDE DEF S, m
  <1>5. s \in Seq(S) /\ Len(s) = 6
    BY <1>4, SixInSeq, Zenon DEF StartPieces
  <1>6. e \in Seq(S) /\ Len(e) = 3
    BY <1>3, <1>4, SixInSeq, Zenon DEF EndPieces
  <1> HIDE DEF s, e
  <1>7. /\ sm \in Seq(S) /\ Len(sm) = 6 + Len(m)
        /\ \A i \in 1 .. 6 + Len(m) : sm[i] = IF i <= 6 THEN s[i] ELSE m[i - 6]
    <2>1. /\ sm \in Seq(S) /\ Len(sm) = Len(s) + Len(m)
          /\ \A i \in 1 .. Len(s) + Len(m) : sm[i] = IF i <= Len(s) THEN s[i] ELSE m[i - Len(s)]
      BY <1>2, <1>5, ConcatProperties
    <2> HIDE DEF sm
    <2>q. QED BY <1>5, <2>1
  <1> HIDE DEF sm
  <1>8. /\ p \in Seq(S) /\ Len(p) = 9 + Len(m)
        /\ \A i \in 1 .. 9 + Len(m) : p[i] = IF i <= 6 + Len(m) THEN sm[i] ELSE e[i - (6 + Len(m))]
    <2>1. /\ p \in Seq(S) /\ Len(p) = Len(sm) + Len(e)
          /\ \A i \in 1 .. Len(sm) + Len(e) : p[i] = IF i <= Len(sm) THEN sm[i] ELSE e[i - Len(sm)]
      BY <1>6, <1>7, ConcatProperties
    <2>2. Len(sm) = 6 + Len(m) /\ Len(sm) + Len(e) = 9 + Len(m)
      BY <1>2, <1>6, <1>7
    <2> HIDE DEF p
    <2>q. QED BY <2>1, <2>2
  <1> HIDE DEF p
  <1>9. ASSUME NEW i \in 1 .. 6 PROVE p[i] = s[i]
    <2>1. i \in 1 .. 9 + Len(m) /\ i <= 6 + Len(m) /\ i \in 1 .. 6 + Len(m) /\ i <= 6
      BY <1>2
    <2>q. QED BY <1>7, <1>8, <2>1
  <1>a. ASSUME NEW i \in 1 .. Len(m) PROVE p[6 + i] = m[i]
    <2> DEFINE k == 6 + i
    <2>1. k \in 1 .. 9 + Len(m) /\ k <= 6 + Len(m) /\ k \in 1 .. 6 + Len(m) /\ ~(k <= 6) /\ k - 6 = i
      BY <1>2
    <2> HIDE DEF k
    <2>2. p[k] = m[i]
      BY <1>7, <1>8, <2>1
    <2>q. QED BY <2>2 DEF k
  <1>b. ASSUME NEW i \in 1 .. 3 PROVE p[6 + Len(m) + i] = e[i]
    <2> DEFINE k == 6 + Len(m) + i
    <2>1. k \in 1 .. 9 + Len(m) /\ ~(k <= 6 + Len(m)) /\ k - (6 + Len(m)) = i
      BY <1>2
    <2> HIDE DEF k
    <2>2. p[k] = e[i]
      BY <1>8, <2>1
    <2>q. QED BY <2>2 DEF k
  <1>c. p \in Seq(S) /\ Len(p) = 9 + 4 * Len(h)
    BY <1>2, <1>8
  <1>d. \A i \in 1 .. 4 * Len(h) : p[6 + i] = m[i]
    BY <1>2, <1>a
  <1>e. \A i \in 1 .. 3 : p[6 + 4 * Len(h) + i] = e[i]
    BY <1>2, <1>b
  <1>q. QED BY <1>1, <1>9, <1>c, <1>d, <1>e DEF S, s, m, e

\* The headers of a response that nothing has gone wrong with.
Both(b) == <<TypeHeader, LengthHeader(LengthText(b))>>

\* Both headers are there.
LEMMA BothAreHeaders ==
    ASSUME NEW b \in Pages
    PROVE  Both(b) \in Headers /\ Len(Both(b)) = 2
  <1>1. LengthText(b) \in Streams
    BY LengthWordOf, WordIsStream
  <1>q. QED BY <1>1 DEF Both, Headers

\* The appends of one header.
LEMMA HeaderPiecesOf ==
    ASSUME NEW h, Len(h) \in Nat, NEW i \in 1 .. Len(h)
    PROVE  /\ HeaderPieces(h)[4 * i - 3] = Add(<<h[i].field>>)
           /\ HeaderPieces(h)[4 * i - 2] = Add(<<": ">>)
           /\ HeaderPieces(h)[4 * i - 1] = Add(h[i].value)
           /\ HeaderPieces(h)[4 * i] = Add(<<"CRLF">>)
  <1> DEFINE q == <<Add(<<h[i].field>>), Add(<<": ">>), Add(h[i].value), Add(<<"CRLF">>)>>
  <1>1. ASSUME NEW n \in 1 .. 4 PROVE HeaderPieces(h)[4 * i - 4 + n] = q[n]
    <2> DEFINE k == 4 * i - 4 + n
    <2>1. k \in 1 .. 4 * Len(h) /\ (k + 3) \div 4 = i /\ 1 + ((k - 1) % 4) = n
      OBVIOUS
    <2>2. HeaderPieces(h)[k] = <<Add(<<h[(k + 3) \div 4].field>>), Add(<<": ">>),
              Add(h[(k + 3) \div 4].value), Add(<<"CRLF">>)>>[1 + ((k - 1) % 4)]
      BY <2>1 DEF HeaderPieces
    <2>q. QED BY <2>1, <2>2
  <1> HIDE DEF q
  <1>2. /\ HeaderPieces(h)[4 * i - 4 + 1] = q[1] /\ HeaderPieces(h)[4 * i - 4 + 2] = q[2]
        /\ HeaderPieces(h)[4 * i - 4 + 3] = q[3] /\ HeaderPieces(h)[4 * i - 4 + 4] = q[4]
    BY <1>1
  <1>3. /\ 4 * i - 4 + 1 = 4 * i - 3 /\ 4 * i - 4 + 2 = 4 * i - 2
        /\ 4 * i - 4 + 3 = 4 * i - 1 /\ 4 * i - 4 + 4 = 4 * i
    OBVIOUS
  <1>q. QED BY <1>2, <1>3 DEF q

\* What an append adds.
LEMMA TextOf ==
    /\ \A t : Add(t).text = t
    /\ \A c : Push(c).text = <<c>>
  BY DEF Add, Push

\* What each piece of such a response adds to the text.
LEMMA AnswerPieces ==
    ASSUME NEW b \in Pages
    PROVE  LET p == ResponsePieces(Rep(Both(b), b))
           IN  /\ Len(p) = 17
               /\ \A j \in 1 .. 15 : p[j].text = <<HeadOf(b)[j]>>
               /\ p[16].text = b /\ p[17].text = <<"CRLF">>
  <1> DEFINE h == Both(b)
             m == HeaderPieces(h)
             p == ResponsePieces(Rep(h, b))
             w == LengthWord(b)
  <1>1. /\ Len(p) = 17
        /\ \A i \in 1 .. 6 : p[i] = StartPieces[i]
        /\ \A i \in 1 .. 8 : p[6 + i] = m[i]
        /\ \A i \in 1 .. 3 : p[14 + i] = EndPieces(b)[i]
    <2>1. h \in Headers /\ Len(h) = 2
      BY BothAreHeaders
    <2>2. /\ Len(p) = 9 + 4 * Len(h)
          /\ \A i \in 1 .. 6 : p[i] = StartPieces[i]
          /\ \A i \in 1 .. 4 * Len(h) : p[6 + i] = m[i]
          /\ \A i \in 1 .. 3 : p[6 + 4 * Len(h) + i] = EndPieces(b)[i]
      <3> HIDE DEF h
      <3>1. h \in Headers
        BY <2>1
      <3>q. QED BY <3>1, ResponsePiecesAre, Zenon
    <2> HIDE DEF h, m, p
    <2>3. 4 * Len(h) = 8
      BY <2>1
    <2>q. QED BY <2>2, <2>3
  <1>2. /\ m[1] = Add(<<"Content-Type">>) /\ m[2] = Add(<<": ">>) /\ m[3] = Add(<<"html">>)
        /\ m[4] = Add(<<"CRLF">>) /\ m[5] = Add(<<"Content-Length">>) /\ m[6] = Add(<<": ">>)
        /\ m[7] = Add(<<w>>) /\ m[8] = Add(<<"CRLF">>)
    <2>1. Len(h) = 2 /\ h[1] = TypeHeader /\ h[2] = LengthHeader(<<w>>)
      BY LengthWordOf DEF Both
    <2> HIDE DEF h, w
    <2>a. 1 \in 1 .. Len(h) /\ 2 \in 1 .. Len(h) /\ Len(h) \in Nat
      BY <2>1
    <2>b. 4 * 1 - 3 = 1 /\ 4 * 1 - 2 = 2 /\ 4 * 1 - 1 = 3 /\ 4 * 1 = 4
      OBVIOUS
    <2>c. 4 * 2 - 3 = 5 /\ 4 * 2 - 2 = 6 /\ 4 * 2 - 1 = 7 /\ 4 * 2 = 8
      OBVIOUS
    <2>2. /\ m[4 * 1 - 3] = Add(<<h[1].field>>) /\ m[4 * 1 - 2] = Add(<<": ">>)
          /\ m[4 * 1 - 1] = Add(h[1].value) /\ m[4 * 1] = Add(<<"CRLF">>)
      BY <2>a, HeaderPiecesOf
    <2>3. /\ m[4 * 2 - 3] = Add(<<h[2].field>>) /\ m[4 * 2 - 2] = Add(<<": ">>)
          /\ m[4 * 2 - 1] = Add(h[2].value) /\ m[4 * 2] = Add(<<"CRLF">>)
      BY <2>a, HeaderPiecesOf
    <2> HIDE DEF m
    <2>4. /\ m[1] = Add(<<h[1].field>>) /\ m[2] = Add(<<": ">>)
          /\ m[3] = Add(h[1].value) /\ m[4] = Add(<<"CRLF">>)
      BY <2>2, <2>b
    <2>5. /\ m[5] = Add(<<h[2].field>>) /\ m[6] = Add(<<": ">>)
          /\ m[7] = Add(h[2].value) /\ m[8] = Add(<<"CRLF">>)
      BY <2>3, <2>c
    <2>6. /\ h[1].field = "Content-Type" /\ h[1].value = <<"html">>
          /\ h[2].field = "Content-Length" /\ h[2].value = <<w>>
      BY <2>1 DEF TypeHeader, LengthHeader
    <2>q. QED BY <2>4, <2>5, <2>6
  <1> HIDE DEF m, p
  <1>3. /\ p[1] = Add(<<"HTTP/1.0">>) /\ p[2] = Push(" ") /\ p[3] = Add(<<"200">>)
        /\ p[4] = Push(" ") /\ p[5] = Add(<<"OK">>) /\ p[6] = Add(<<"CRLF">>)
    <2>1. /\ p[1] = StartPieces[1] /\ p[2] = StartPieces[2] /\ p[3] = StartPieces[3]
          /\ p[4] = StartPieces[4] /\ p[5] = StartPieces[5] /\ p[6] = StartPieces[6]
      BY <1>1
    <2>q. QED BY <2>1 DEF StartPieces
  <1>4. /\ p[7] = m[1] /\ p[8] = m[2] /\ p[9] = m[3] /\ p[10] = m[4] /\ p[11] = m[5]
        /\ p[12] = m[6] /\ p[13] = m[7] /\ p[14] = m[8]
    <2>1. \A i \in 1 .. 8 : p[6 + i] = m[i]
      BY <1>1
    <2>2. /\ p[6 + 1] = m[1] /\ p[6 + 2] = m[2] /\ p[6 + 3] = m[3] /\ p[6 + 4] = m[4]
          /\ p[6 + 5] = m[5] /\ p[6 + 6] = m[6] /\ p[6 + 7] = m[7] /\ p[6 + 8] = m[8]
      BY <2>1
    <2>q. QED BY <2>2
  <1>5. p[15] = Add(<<"CRLF">>) /\ p[16] = Add(b) /\ p[17] = Add(<<"CRLF">>)
    <2>1. p[14 + 1] = EndPieces(b)[1] /\ p[14 + 2] = EndPieces(b)[2] /\ p[14 + 3] = EndPieces(b)[3]
      BY <1>1
    <2>q. QED BY <2>1 DEF EndPieces
  <1>6. ASSUME NEW j \in 1 .. 15 PROVE p[j].text = <<HeadOf(b)[j]>>
    <2>1. HeadIs(HeadOf(b), w)
      BY HeadWords
    <2> HIDE DEF w
    <2>a1. /\ p[1].text = <<"HTTP/1.0">> /\ p[2].text = <<" ">> /\ p[3].text = <<"200">>
          /\ p[4].text = <<" ">> /\ p[5].text = <<"OK">> /\ p[6].text = <<"CRLF">>
      BY <1>3, TextOf, Zenon
    <2>a2. /\ p[1].text = <<HeadOf(b)[1]>> /\ p[2].text = <<HeadOf(b)[2]>>
          /\ p[3].text = <<HeadOf(b)[3]>> /\ p[4].text = <<HeadOf(b)[4]>>
          /\ p[5].text = <<HeadOf(b)[5]>> /\ p[6].text = <<HeadOf(b)[6]>>
      <3>1. /\ HeadOf(b)[1] = "HTTP/1.0" /\ HeadOf(b)[2] = " " /\ HeadOf(b)[3] = "200"
            /\ HeadOf(b)[4] = " " /\ HeadOf(b)[5] = "OK" /\ HeadOf(b)[6] = "CRLF"
        BY <2>1, Zenon DEF HeadIs
      <3>q. QED BY <2>a1, <3>1, Zenon
    <2>b1. /\ p[7].text = <<"Content-Type">> /\ p[8].text = <<": ">>
          /\ p[9].text = <<"html">> /\ p[10].text = <<"CRLF">>
      <3>1. /\ p[7] = Add(<<"Content-Type">>) /\ p[8] = Add(<<": ">>)
            /\ p[9] = Add(<<"html">>) /\ p[10] = Add(<<"CRLF">>)
        BY <1>2, <1>4, Zenon
      <3>q. QED BY <3>1, TextOf, Zenon
    <2>b2. /\ p[7].text = <<HeadOf(b)[7]>> /\ p[8].text = <<HeadOf(b)[8]>>
          /\ p[9].text = <<HeadOf(b)[9]>> /\ p[10].text = <<HeadOf(b)[10]>>
      <3>1. /\ HeadOf(b)[7] = "Content-Type" /\ HeadOf(b)[8] = ": "
            /\ HeadOf(b)[9] = "html" /\ HeadOf(b)[10] = "CRLF"
        BY <2>1, Zenon DEF HeadIs
      <3>q. QED BY <2>b1, <3>1, Zenon
    <2>c1. /\ p[11].text = <<"Content-Length">> /\ p[12].text = <<": ">>
          /\ p[13].text = <<w>> /\ p[14].text = <<"CRLF">> /\ p[15].text = <<"CRLF">>
      <3>1. /\ p[11] = Add(<<"Content-Length">>) /\ p[12] = Add(<<": ">>)
            /\ p[13] = Add(<<w>>) /\ p[14] = Add(<<"CRLF">>) /\ p[15] = Add(<<"CRLF">>)
        BY <1>2, <1>4, <1>5, Zenon
      <3>q. QED BY <3>1, TextOf, Zenon
    <2>c2. /\ p[11].text = <<HeadOf(b)[11]>> /\ p[12].text = <<HeadOf(b)[12]>>
          /\ p[13].text = <<HeadOf(b)[13]>> /\ p[14].text = <<HeadOf(b)[14]>>
          /\ p[15].text = <<HeadOf(b)[15]>>
      <3>1. /\ HeadOf(b)[11] = "Content-Length" /\ HeadOf(b)[12] = ": "
            /\ HeadOf(b)[13] = w /\ HeadOf(b)[14] = "CRLF" /\ HeadOf(b)[15] = "CRLF"
        BY <2>1, Zenon DEF HeadIs
      <3>q. QED BY <2>c1, <3>1, Zenon
    <2>5. j \in {1, 2, 3, 4, 5, 6, 7, 8, 9, 10, 11, 12, 13, 14, 15}
      OBVIOUS
    <2>q. QED BY <2>a2, <2>b2, <2>c2, <2>5
  <1>q. QED BY <1>1, <1>5, <1>6, TextOf DEF p, h
\* The text when j pieces of a response have been appended.
Built(b, j) ==
    IF j <= 15 THEN SubSeq(HeadOf(b), 1, j)
    ELSE IF j = 16 THEN HeadOf(b) \o b ELSE AnswerOf(b)

\* The first words of a sequence.
LEMMA FirstPart ==
    ASSUME NEW S, NEW h \in Seq(S), Len(h) >= 1
    PROVE  SubSeq(h, 1, 0) = <<>> /\ SubSeq(h, 1, 1) = <<h[1]>>
  <1>1. ASSUME NEW n \in Int, n = 0 PROVE SubSeq(h, 1, n) = <<>>
    <2>1. n < 1
      BY <1>1
    <2>q. QED BY <2>1, SubSeqEmpty
  <1>2. SubSeq(h, 1, 0) = <<>>
    BY <1>1
  <1>3. ASSUME NEW n \in Int, n = 1 PROVE SubSeq(h, n, n) = <<h[n]>>
    <2>1. n \in 1 .. Len(h) /\ n \in n .. Len(h) /\ n - 1 < n
      BY <1>3, LenProperties
    <2>2. SubSeq(h, n, n) = SubSeq(h, n, n - 1) \o <<h[n]>>
      BY <2>1, SubSeqRecursiveSecond
    <2>3. SubSeq(h, n, n - 1) = <<>>
      BY <2>1, SubSeqEmpty
    <2>4. <<h[n]>> \in Seq(S)
      <3>1. h[n] \in S
        BY <2>1, ElementOfSeq
      <3>q. QED BY <3>1
    <2>q. QED BY <2>2, <2>3, <2>4, ConcatEmptySeq
  <1>q. QED BY <1>2, <1>3

\* One append more.
LEMMA BuiltNext ==
    ASSUME NEW b \in Pages, NEW j \in 0 .. 16
    PROVE  Built(b, j + 1) = Built(b, j) \o ResponsePieces(Rep(Both(b), b))[j + 1].text
  <1> DEFINE p == ResponsePieces(Rep(Both(b), b))
             h == HeadOf(b)
  <1>1. /\ \A i \in 1 .. 15 : p[i].text = <<h[i]>>
        /\ p[16].text = b /\ p[17].text = <<"CRLF">>
    BY AnswerPieces
  <1>2. h \in Seq(Cells) /\ Len(h) = 15
    BY HeadOfIs DEF Streams
  <1> HIDE DEF p, h
  <1>3. CASE j = 0
    <2>1. SubSeq(h, 1, 0) = <<>> /\ SubSeq(h, 1, 1) = <<h[1]>>
      <3>1. Len(h) >= 1
        BY <1>2
      <3>q. QED BY <1>2, <3>1, FirstPart, Zenon
    <2>2. h[1] \in Cells
      <3>1. 1 \in 1 .. Len(h)
        BY <1>2
      <3>q. QED BY <1>2, <3>1, ElementOfSeq
    <2>4. p[0 + 1].text = <<h[1]>>
      <3>1. 0 + 1 = 1 /\ 1 \in 1 .. 15
        OBVIOUS
      <3>q. QED BY <1>1, <3>1
    <2>5. Built(b, 0 + 1) = <<h[1]>> /\ Built(b, 0) = <<>>
      BY <2>1 DEF Built, h
    <2>6. <<h[1]>> = <<>> \o <<h[1]>>
      BY <2>2, ConcatEmptySeq
    <2>q. QED BY <1>3, <2>4, <2>5, <2>6 DEF p
  <1>4. CASE j \in 1 .. 14
    <2> DEFINE n == j + 1
    <2>1. n \in 1 .. Len(h) /\ n \in 1 .. 15 /\ 1 \in 1 .. Len(h) /\ n - 1 = j /\ n <= 15 /\ j <= 15
          /\ 1 <= n
      BY <1>2, <1>4
    <2> HIDE DEF n
    <2>2. SubSeq(h, 1, n) = SubSeq(h, 1, n - 1) \o <<h[n]>>
      BY <1>2, <2>1, SubSeqRecursiveSecond
    <2>3. p[n].text = <<h[n]>>
      BY <1>1, <2>1
    <2>4. Built(b, n) = SubSeq(h, 1, n) /\ Built(b, j) = SubSeq(h, 1, j)
      BY <2>1 DEF Built, h
    <2>q. QED BY <2>1, <2>2, <2>3, <2>4 DEF n, p
  <1>5. CASE j = 15
    <2>1. SubSeq(h, 1, 15) = h
      BY <1>2, SubSeqFull
    <2>2. Built(b, 15) = h /\ Built(b, 16) = h \o b
      BY <2>1 DEF Built, h
    <2>3. 15 + 1 = 16
      OBVIOUS
    <2>q. QED BY <1>1, <1>5, <2>2, <2>3 DEF p
  <1>6. CASE j = 16
    <2>1. Built(b, 16) = h \o b /\ Built(b, 17) = h \o b \o <<"CRLF">>
      BY DEF Built, h, AnswerOf
    <2>2. 16 + 1 = 17
      OBVIOUS
    <2>q. QED BY <1>1, <1>6, <2>1, <2>2 DEF p
  <1>7. j = 0 \/ j \in 1 .. 14 \/ j = 15 \/ j = 16
    OBVIOUS
  <1>q. QED BY <1>3, <1>4, <1>5, <1>6, <1>7

\* Before the first and after the last.
LEMMA BuiltEnds ==
    ASSUME NEW b
    PROVE  Built(b, 0) = <<>> /\ Built(b, 17) = AnswerOf(b)
  BY SubSeqEmpty DEF Built

-----------------------------------------------------------------------------
(* The strings of the job.                                                 *)

Prf == INSTANCE StringTProofs

\* The assumptions of StringT, which Response makes of its own constants.
LEMMA StringAssumptions == Prf!ViewAssumption /\ Prf!StringAssumption
  BY StringsAssumption DEF Str!StringAssumption, Str!ViewAssumption, Prf!StringAssumption,
     Prf!ViewAssumption

\* The cells of both instances.
LEMMA CellsSame == Prf!Cells = Cells
  BY DEF Cells, Str!Cells, Prf!Cells

\* An append, as the proofs about the string know it.
LEMMA AppendKeeps ==
    ASSUME Prf!BufInv, NEW t \in Streams, Str!Appended(t)
    PROVE  /\ Prf!BufInv'
           /\ \/ failed' = FALSE /\ Str!Content' = Str!Content \o t
              \/ failed' = TRUE
  <1>1. Prf!Appended(t)
    BY DEF Str!Appended, Prf!Appended, Str!Exists, Prf!Exists, Str!InBlock, Prf!InBlock,
       Str!NoMemory, Prf!NoMemory, Str!Length, Prf!Length, Str!Copied, Prf!Copied, Str!Moved,
       Prf!Moved, Str!NextCapacity, Prf!NextCapacity, Str!Owned, Prf!Owned, Str!bufVars,
       Prf!bufVars, Str!Buffer, Prf!Buffer
  <1>2. t \in Seq(Prf!Cells)
    BY CellsSame DEF Streams
  <1>3. Prf!BufInv'
    BY <1>1, <1>2, StringAssumptions, Prf!AppendedKeeps, SMT
  <1>4. \/ failed' = FALSE /\ Prf!Content' = Prf!Content \o t
        \/ failed' = TRUE /\ Prf!Content' = Prf!Content
    BY <1>1, <1>2, StringAssumptions, Prf!AppendedText, Zenon
  <1>5. Str!Content = Prf!Content /\ Str!Content' = Prf!Content'
    BY DEF Str!Content, Prf!Content, Str!Length, Prf!Length, Str!Buffer, Prf!Buffer
  <1>q. QED BY <1>3, <1>4, <1>5

\* string_init_from_cstr.
LEMMA InitKeeps ==
    ASSUME Prf!BufInv, NEW t \in Streams, Len(t) <= MaxLen, Str!InitFrom(t)
    PROVE  Prf!BufInv'
  <1>1. Prf!Made(t)
    BY DEF Str!InitFrom, Str!Made, Prf!Made, Str!Copied, Prf!Copied, Str!NextCapacity,
       Prf!NextCapacity, Str!Owned, Prf!Owned, Str!Zeros, Prf!Zeros, Str!NoBlock, Prf!NoBlock
  <1>2. t \in Seq(Prf!Cells)
    BY CellsSame DEF Streams
  <1>q. QED BY <1>1, <1>2, StringAssumptions, Prf!MadeKeeps, SMT

\* A step that leaves the string alone.
LEMMA SameStringKeeps ==
    ASSUME Prf!BufInv, UNCHANGED stringVars
    PROVE  Prf!BufInv' /\ Str!Content' = Str!Content
  BY DEF stringVars, Prf!BufInv, Prf!Owned, Prf!Buffer, Prf!Cells, Str!Content, Str!Length, Str!Buffer

\* The end of the frame that holds the string.
LEMMA OutOfScopeKeeps ==
    ASSUME Prf!BufInv, OutOfScope
    PROVE  Prf!BufInv'
  <1>1. capacity' = 0 /\ capacity' \in Nat /\ heap' \in [0 .. capacity' - 1 -> Prf!Cells]
    <2>1. 0 .. 0 - 1 = {}
      OBVIOUS
    <2>q. QED BY <2>1 DEF OutOfScope
  <1>2. MaxLen \in Nat
    BY StringAssumptions DEF Prf!StringAssumption
  <1>q. QED BY <1>1, <1>2 DEF OutOfScope, Prf!BufInv, Prf!Owned, Prf!Cells

\* string_init.
LEMMA NewStringKeeps ==
    ASSUME Prf!BufInv, Str!StringInit
    PROVE  Prf!BufInv' /\ Str!Content' = <<>>
  <1>1. capacity' = 0 /\ capacity' \in Nat /\ heap' \in [0 .. capacity' - 1 -> Prf!Cells]
    <2>1. 0 .. 0 - 1 = {}
      OBVIOUS
    <2>q. QED BY <2>1 DEF Str!StringInit, Str!NoBlock
  <1>2. MaxLen \in Nat /\ SmallBuf \in Nat /\ Nul \in DOMAIN Code
    BY StringAssumptions DEF Prf!StringAssumption, Prf!ViewAssumption
  <1>3. small' \in [0 .. SmallBuf - 1 -> Prf!Cells]
    BY <1>2 DEF Str!StringInit, Str!Zeros, Prf!Cells
  <1>4. size' = 0 /\ data' = "small" /\ data = "gone" /\ blocks' = blocks
    BY DEF Str!StringInit, Str!Exists
  <1>5. Prf!BufInv'
    BY <1>1, <1>2, <1>3, <1>4 DEF Prf!BufInv, Prf!Owned, Prf!Cells
  <1>6. Str!Content' = <<>>
    BY <1>4 DEF Str!Content, Str!Length
  <1>q. QED BY <1>5, <1>6

-----------------------------------------------------------------------------
(* The invariant of the service.                                           *)

RequestsOK ==
    /\ requests \in Seq([method : STRING, path : Seq(DOMAIN Code)])
    /\ request.path \in Seq(DOMAIN Code)

PageOK ==
    /\ html_post \in Pages \cup {Unmapped}
    /\ faults = 0 => html_post \in Pages

Unspoilt == faults = 0 /\ ~stale

\* The response as it grows; a header that is lost or overwritten spoils it.
ResponseOK ==
    /\ pc = "type" => response = EmptyResponse
    /\ pc = "length" => response = Rep(<<TypeHeader>>, <<>>)
    /\ pc \in {"send", "post", "serialise"} =>
          /\ \E h \in Headers : response = Rep(h, html_post)
          /\ Unspoilt => response = Rep(Both(html_post), html_post)

\* The pieces that are left, and the text of those that are not.
TodoOK ==
    /\ pc = "append" => todo \in Seq(Pieces(<<>>))
    /\ pc = "post" => todo = ResponsePieces(response)
    /\ pc = "serialise" =>
          \E j \in 0 .. Len(ResponsePieces(response)) :
              /\ todo = SubSeq(ResponsePieces(response), j + 1, Len(ResponsePieces(response)))
              /\ Unspoilt => Str!Content = Built(html_post, j)

\* A stream that is read as the bodies q, and what follows it as if it stood alone.
ReadAs(x, q) == \A s \in Streams : Bodies[x \o s] = q \o Bodies[s]

\* What the client has been written is read as the bodies that were served, and
\* whatever follows it as if it stood alone.
SentOK ==
    Unspoilt =>
        /\ sent \in Streams /\ served \in Seq(Streams)
        /\ ReadAs(sent, served)

ServiceInv ==
    /\ FaultsOK /\ Prf!BufInv
    /\ RequestsOK /\ PageOK /\ ResponseOK /\ TodoOK /\ SentOK

-----------------------------------------------------------------------------
(* Each action keeps it.                                                   *)

\* An empty body, and the bytes that are not mapped.
LEMMA NoPage == <<>> \in Pages /\ Unmapped # <<>>
  <1>1. Len(<<>>) = 0 /\ Len(Unmapped) = 1 /\ <<>> \in Seq(DOMAIN Code)
    BY DEF Unmapped
  <1>2. Len(Number) \in Nat /\ Len(Unmapped) < Len(Number)
    BY NumberAssumption, LenProperties
  <1>q. QED BY <1>1, <1>2 DEF Pages

\* The text of a length is one word.
LEMMA LengthIsStream ==
    ASSUME NEW b \in Pages \cup {Unmapped}
    PROVE  LengthText(b) \in Streams
  <1>1. CASE b \in Pages
    BY <1>1, LengthWordOf, WordIsStream
  <1>2. CASE b = Unmapped
    <2> DEFINE S == {<<w>> : w \in DOMAIN Code \ {"CRLF"}}
    <2>1. Len(b) + 1 = 2 /\ 2 \in 1 .. Len(Number)
      <3>1. Len(b) = 1 /\ Len(b) < Len(Number) /\ Len(Number) \in Nat
        BY <1>2, NumberAssumption, LenProperties DEF Unmapped
      <3>q. QED BY <3>1
    <2>2. Number[Len(b) + 1] \in S
      <3>1. Number \in Seq(S)
        BY NumberAssumption
      <3> HIDE DEF S
      <3>2. Len(b) + 1 \in 1 .. Len(Number)
        BY <2>1
      <3>q. QED BY <3>1, <3>2, ElementOfSeq
    <2>3. PICK w \in DOMAIN Code : Number[Len(b) + 1] = <<w>>
      BY <2>2
    <2>4. w \in Cells
      BY DEF Cells, Str!Cells
    <2>q. QED BY <2>3, <2>4, WordIsStream DEF LengthText
  <1>q. QED BY <1>1, <1>2

\* Nothing that has gone wrong is undone.
LEMMA SpoiltStays ==
    ASSUME FaultsOK, [Next]_vars
    PROVE  FaultsOK' /\ faults' >= faults /\ (Unspoilt' => Unspoilt /\ faults' = faults)
  <1>1. FaultsOK' /\ faults' >= faults
    BY FaultsGrow
  <1>2. stale => stale'
    <2>1. CASE Main(pc = "idle") /\ UNCHANGED <<stringVars, jobVars>>
      BY <2>1 DEF jobVars, histVars
    <2>2. CASE Pop \/ InitPath \/ Build \/ BuildUnmapped \/ Lookup \/ NewResponse \/ AddType
      BY <2>2 DEF Pop, InitPath, Build, BuildUnmapped, Lookup, NewResponse, AddType, jobVars, histVars
    <2>3. CASE AddLength
      BY <2>3 DEF AddLength
    <2>4. CASE Send \/ SendNull \/ InitPost \/ Write
      BY <2>4 DEF Send, SendNull, InitPost, Write, jobVars, histVars
    <2>5. CASE UNCHANGED vars
      BY <2>5 DEF vars, jobVars, histVars
    <2>6. CASE MisuseContext
      BY <2>6 DEF MisuseContext
    <2>q. QED BY <2>1, <2>2, <2>3, <2>4, <2>5, <2>6 DEF Next, Job
  <1>q. QED BY <1>1, <1>2 DEF Unspoilt, FaultsOK

\* Nothing is read as no body.
LEMMA NothingSent == <<>> \in Streams /\ <<>> \in Seq(Streams) /\ ReadAs(<<>>, <<>>)
  <1>1. <<>> \in Streams /\ <<>> \in Seq(Streams)
    BY EmptySeq DEF Streams
  <1>2. ASSUME NEW s \in Streams PROVE Bodies[<<>> \o s] = <<>> \o Bodies[s]
    <2>1. Bodies[s] \in Seq(Streams)
      BY BodiesEquation
    <2>q. QED BY <2>1, ConcatEmptySeq DEF Streams
  <1>q. QED BY <1>1, <1>2 DEF ReadAs

\* It holds when the process starts.
LEMMA ServiceInvInit == Init => ServiceInv
  <1> SUFFICES ASSUME Init PROVE ServiceInv
    OBVIOUS
  <1>1. /\ Str!Init /\ faults = 0 /\ requests = Requests /\ pc = "idle"
        /\ request = [method |-> "none", path |-> <<>>] /\ html_post = <<>>
        /\ sent = <<>> /\ served = <<>>
    BY DEF Init, MainInit, JobInit
  <1>2. Prf!BufInv
    <2>1. /\ data = "gone" /\ heap = [i \in {} |-> Junk] /\ capacity = 0 /\ size = 0 /\ blocks = 0
      BY <1>1 DEF Str!Init, Str!NoBlock
    <2>0. small \in [0 .. SmallBuf - 1 -> Prf!Cells]
      <3>1. Nul \in Prf!Cells
        BY StringAssumptions DEF Prf!ViewAssumption, Prf!Cells
      <3>q. QED BY <1>1, <3>1 DEF Str!Init, Str!Zeros
    <2>2. heap \in [0 .. capacity - 1 -> Prf!Cells]
      <3>1. 0 .. 0 - 1 = {}
        OBVIOUS
      <3>q. QED BY <2>1, <3>1
    <2>3. MaxLen \in Nat
      BY StringAssumptions DEF Prf!StringAssumption
    <2>q. QED BY <2>0, <2>1, <2>2, <2>3 DEF Prf!BufInv, Prf!Owned
  <1>3. RequestsOK
    <2>1. request.path = <<>>
      BY <1>1
    <2>q. QED BY <1>1, <2>1, RequestsAssumption, EmptySeq DEF RequestsOK
  <1>4. FaultsOK /\ PageOK
    BY <1>1, NoPage DEF FaultsOK, PageOK
  <1>5. ResponseOK /\ TodoOK
    BY <1>1 DEF ResponseOK, TodoOK
  <1>6. SentOK
    BY <1>1, NothingSent DEF SentOK
  <1>q. QED BY <1>2, <1>3, <1>4, <1>5, <1>6 DEF ServiceInv

\* What is left as it was.
LEMMA RestKept ==
    ASSUME ServiceInv, [Next]_vars
    PROVE  /\ FaultsOK'
           /\ UNCHANGED stringVars => Prf!BufInv'
           /\ UNCHANGED reqVars => RequestsOK'
           /\ UNCHANGED html_post => PageOK'
           /\ UNCHANGED outVars => SentOK'
           /\ pc' \in {"idle", "path", "null", "new"} => ResponseOK' /\ TodoOK'
  <1> USE DEF ServiceInv
  <1>1. FaultsOK' /\ faults' >= faults /\ (Unspoilt' => Unspoilt /\ faults' = faults)
    BY SpoiltStays
  <1>2. UNCHANGED stringVars => Prf!BufInv'
    BY SameStringKeeps
  <1>3. UNCHANGED reqVars => RequestsOK'
    BY DEF RequestsOK, reqVars
  <1>4. UNCHANGED html_post => PageOK'
    BY <1>1 DEF PageOK, FaultsOK
  <1>5. UNCHANGED outVars => SentOK'
    BY <1>1 DEF SentOK, outVars
  <1>6. pc' \in {"idle", "path", "null", "new"} => ResponseOK' /\ TodoOK'
    BY DEF ResponseOK, TodoOK
  <1>q. QED BY <1>1, <1>2, <1>3, <1>4, <1>5, <1>6

\* A step of the main thread, or one that ends the process or may end it.
workVars == <<stringVars, reqVars, outVars, html_post, pc, todo, response, stale>>

LEMMA SameJobKeeps ==
    ASSUME ServiceInv, [Next]_vars, UNCHANGED workVars
    PROVE  ServiceInv'
  <1>1. UNCHANGED <<stringVars, reqVars, outVars, html_post, pc, todo, response, stale>>
    BY DEF workVars
  <1>2. Unspoilt' => Unspoilt
    BY SpoiltStays DEF ServiceInv
  <1>3. Str!Content' = Str!Content
    BY <1>1, SameStringKeeps DEF ServiceInv
  <1>4. ResponseOK'
    BY <1>1, <1>2 DEF ServiceInv, ResponseOK
  <1>5. TodoOK'
    BY <1>1, <1>2, <1>3 DEF ServiceInv, TodoOK
  <1>q. QED BY <1>1, <1>4, <1>5, RestKept DEF ServiceInv

\* One lemma for each action of the job.
LEMMA PopKeeps ==
    ASSUME ServiceInv, [Next]_vars, Pop
    PROVE  ServiceInv'
  <1>1. /\ UNCHANGED stringVars /\ html_post' = <<>> /\ sent' = <<>> /\ served' = <<>>
        /\ request' = Head(requests) /\ requests' = Tail(requests) /\ requests # <<>>
        /\ pc' \in {"path", "idle"}
    BY DEF Pop, Goto, Dispatched
  <1>2. RequestsOK'
    <2> DEFINE S == [method : STRING, path : Seq(DOMAIN Code)]
    <2>1. requests \in Seq(S)
      BY DEF ServiceInv, RequestsOK
    <2>2. Head(requests) \in S /\ Tail(requests) \in Seq(S)
      <3> HIDE DEF S
      <3>q. QED BY <1>1, <2>1, HeadTailProperties
    <2>q. QED BY <1>1, <2>2 DEF RequestsOK
  <1>3. PageOK'
    BY <1>1, NoPage DEF PageOK
  <1>4. SentOK'
    BY <1>1, NothingSent DEF SentOK
  <1>q. QED BY <1>1, <1>2, <1>3, <1>4, RestKept DEF ServiceInv

\* The appends of a path.
LEMMA PathPiecesAre ==
    ASSUME NEW p \in Seq(DOMAIN Code)
    PROVE  PathPieces(p) \in Seq(Pieces(<<>>))
  <1> DEFINE S == Pieces(<<>>)
  <1>1. p \in Streams /\ Base \in Streams
    BY RequestsAssumption DEF Streams, Cells, Str!Cells
  <1>2. Push("/") \in S /\ Add(Base) \in S /\ Add(p) \in S
    BY <1>1, WordsAreCells DEF Pieces
  <1>3. \A a, b, c \in S : <<a, b, a, c>> \in Seq(S)
    <2> HIDE DEF S
    <2>q. QED OBVIOUS
  <1> HIDE DEF S
  <1>4. <<Push("/"), Add(Base), Push("/"), Add(p)>> \in Seq(S)
    BY <1>2, <1>3, Zenon
  <1>q. QED BY <1>4 DEF S, PathPieces

LEMMA InitPathKeeps ==
    ASSUME ServiceInv, [Next]_vars, InitPath
    PROVE  ServiceInv'
  <1>1. UNCHANGED <<reqVars, html_post, outVars>>
    BY DEF InitPath
  <1>2. Cwd \in Streams /\ Len(Cwd) <= MaxLen
    BY RequestsAssumption DEF Streams, Cells, Str!Cells
  <1>3. Prf!BufInv'
    <2>1. Str!InitFrom(Cwd) \/ UNCHANGED stringVars
      BY DEF InitPath
    <2>q. QED BY <1>2, <2>1, InitKeeps, RestKept DEF ServiceInv
  <1>4. \/ pc' = "null"
        \/ pc' = "append" /\ todo' = PathPieces(request.path)
    BY DEF InitPath, HandlerFails, Goto
  <1>5. PathPieces(request.path) \in Seq(Pieces(<<>>))
    BY PathPiecesAre DEF ServiceInv, RequestsOK
  <1>6. ResponseOK' /\ TodoOK'
    BY <1>4, <1>5, RestKept DEF ResponseOK, TodoOK
  <1>q. QED BY <1>1, <1>3, <1>6, RestKept DEF ServiceInv

LEMMA LookupKeeps ==
    ASSUME ServiceInv, [Next]_vars, Lookup
    PROVE  ServiceInv'
  <1>1. /\ UNCHANGED <<stringVars, reqVars, outVars>> /\ pc' \in {"null", "new"}
    BY DEF Lookup, HandlerFails, Goto
  <1>2. PageOK'
    <2>1. UNCHANGED html_post \/ html_post' = <<>> \/ (\E p \in DOMAIN Files : html_post' = Files[p])
          \/ (html_post' = Unmapped /\ Fault)
      BY DEF Lookup
    <2>2. \A p \in DOMAIN Files : Files[p] \in Pages
      BY FilesAssumption DEF Pages
    <2>3. CASE html_post' \in Pages
      BY <2>3 DEF PageOK
    <2>4. CASE html_post' = Unmapped /\ Fault
      <3>1. faults' # 0
        BY <2>4 DEF Fault, ServiceInv, FaultsOK
      <3>q. QED BY <2>4, <3>1 DEF PageOK
    <2>q. QED BY <2>1, <2>2, <2>3, <2>4, NoPage, RestKept
  <1>q. QED BY <1>1, <1>2, RestKept DEF ServiceInv

LEMMA NewResponseKeeps ==
    ASSUME ServiceInv, [Next]_vars, NewResponse
    PROVE  ServiceInv'
  <1>1. UNCHANGED <<stringVars, reqVars, outVars>> /\ UNCHANGED html_post
    BY DEF NewResponse
  <1>2. \/ pc' = "type" /\ response' = EmptyResponse
        \/ pc' = "new"
    BY DEF NewResponse, At, Goto
  <1>3. ResponseOK' /\ TodoOK'
    BY <1>2, RestKept DEF ResponseOK, TodoOK
  <1>q. QED BY <1>1, <1>3, RestKept DEF ServiceInv

LEMMA AddTypeKeeps ==
    ASSUME ServiceInv, [Next]_vars, AddType
    PROVE  ServiceInv'
  <1>1. UNCHANGED <<stringVars, reqVars, outVars>> /\ UNCHANGED html_post
    BY DEF AddType
  <1>2. \/ pc' = "length" /\ response' = Rep(<<TypeHeader>>, <<>>)
        \/ pc' = "null"
    <2>1. response = EmptyResponse
      BY DEF AddType, At, ServiceInv, ResponseOK
    <2>2. Append(<<>>, TypeHeader) = <<TypeHeader>>
      OBVIOUS
    <2>3. With("Content-Type", <<"html">>) = <<TypeHeader>>
      BY <2>1, <2>2 DEF With, TypeHeader, EmptyResponse
    <2>4. [response EXCEPT !.headers = With("Content-Type", <<"html">>)] = Rep(<<TypeHeader>>, <<>>)
      BY <2>1, <2>3 DEF EmptyResponse, Rep
    <2>q. QED BY <2>4 DEF AddType, HandlerFails, Goto
  <1>3. ResponseOK' /\ TodoOK'
    BY <1>2, RestKept DEF ResponseOK, TodoOK
  <1>q. QED BY <1>1, <1>3, RestKept DEF ServiceInv

\* A header behind another.
LEMMA TwoHeaders ==
    ASSUME NEW a, NEW b
    PROVE  Append(<<a>>, b) = <<a, b>>
  <1> DEFINE S == {a, b}
  <1>1. <<a>> \in Seq(S) /\ Len(<<a>>) = 1 /\ <<a>>[1] = a /\ b \in S
    OBVIOUS
  <1>2. <<a, b>> \in Seq(S) /\ Len(<<a, b>>) = 2 /\ <<a, b>>[1] = a /\ <<a, b>>[2] = b
    OBVIOUS
  <1> DEFINE x == <<a>>
             y == Append(x, b)
             z == <<a, b>>
  <1> HIDE DEF S, x, z
  <1>3. y \in Seq(S) /\ Len(y) = Len(x) + 1 /\ (\A i \in 1 .. Len(x) : y[i] = x[i]) /\ y[Len(x) + 1] = b
    BY <1>1, AppendProperties DEF x
  <1> HIDE DEF y
  <1>4. Len(y) = 2 /\ y[1] = a /\ y[2] = b
    <2>1. Len(x) = 1 /\ x[1] = a /\ 1 \in 1 .. 1 /\ 1 + 1 = 2
      BY <1>1 DEF x
    <2>q. QED BY <1>3, <2>1
  <1>5. \A i \in 1 .. Len(y) : y[i] = z[i]
    BY <1>2, <1>4 DEF z
  <1>6. y = z
    BY <1>2, <1>3, <1>4, <1>5, SeqEqual DEF z
  <1>q. QED BY <1>6 DEF x, y, z

LEMMA AddLengthKeeps ==
    ASSUME ServiceInv, [Next]_vars, AddLength
    PROVE  ServiceInv'
  <1>1. UNCHANGED <<stringVars, reqVars, outVars>> /\ UNCHANGED html_post /\ pc' = "send" /\ pc = "length"
    BY DEF AddLength, At, Goto
  <1>2. response = Rep(<<TypeHeader>>, <<>>)
    BY <1>1 DEF ServiceInv, ResponseOK
  <1>3. ASSUME NEW v
        PROVE  [response EXCEPT !.body = html_post, !.headers = With("Content-Length", v)]
               = Rep(<<TypeHeader, LengthHeader(v)>>, html_post)
    <2>1. Append(<<TypeHeader>>, LengthHeader(v)) = <<TypeHeader, LengthHeader(v)>>
      BY TwoHeaders
    <2>2. With("Content-Length", v) = <<TypeHeader, LengthHeader(v)>>
      BY <1>2, <2>1 DEF With, LengthHeader, Rep
    <2> DEFINE g == <<TypeHeader>>
               h == <<TypeHeader, LengthHeader(v)>>
    <2> HIDE DEF g, h
    <2>3. [Rep(g, <<>>) EXCEPT !.body = html_post, !.headers = h] = Rep(h, html_post)
      <3>1. [Rep(g, <<>>) EXCEPT !.body = html_post] = Rep(g, html_post)
        BY DEF Rep
      <3>2. [Rep(g, html_post) EXCEPT !.headers = h] = Rep(h, html_post)
        BY DEF Rep
      <3>q. QED BY <3>1, <3>2
    <2>4. response = Rep(g, <<>>) /\ With("Content-Length", v) = h
      BY <1>2, <2>2 DEF g, h
    <2>q. QED BY <2>3, <2>4 DEF h
  <1>4. /\ \E h \in Headers : response' = Rep(h, html_post')
        /\ Unspoilt' => response' = Rep(Both(html_post'), html_post')
    <2>1. CASE \E lost \in BOOLEAN :
                  /\ response' = [response EXCEPT !.body = html_post, !.headers =
                          With("Content-Length", IF lost THEN <<Junk>> ELSE LengthText(html_post))]
                  /\ stale' = (stale \/ lost)
      <3>1. PICK lost \in BOOLEAN :
                  /\ response' = [response EXCEPT !.body = html_post, !.headers =
                          With("Content-Length", IF lost THEN <<Junk>> ELSE LengthText(html_post))]
                  /\ stale' = (stale \/ lost)
        BY <2>1
      <3> DEFINE v == IF lost THEN <<Junk>> ELSE LengthText(html_post)
      <3>2. v \in Streams
        <4>1. Junk \in Cells
          BY DEF Cells, Str!Cells
        <4>2. <<Junk>> \in Streams
          BY <4>1, WordIsStream
        <4>3. LengthText(html_post) \in Streams
          BY LengthIsStream DEF ServiceInv, PageOK
        <4>q. QED BY <4>2, <4>3
      <3>3. ~stale' => v = LengthText(html_post)
        BY <3>1
      <3>4. response' = [response EXCEPT !.body = html_post, !.headers = With("Content-Length", v)]
        BY <3>1
      <3> HIDE DEF v
      <3>5. response' = Rep(<<TypeHeader, LengthHeader(v)>>, html_post')
        BY <1>1, <1>3, <3>4
      <3>6. <<TypeHeader, LengthHeader(v)>> \in Headers
        BY <3>2 DEF Headers
      <3>7. ~stale' => <<TypeHeader, LengthHeader(v)>> = Both(html_post')
        BY <1>1, <3>3 DEF Both
      <3>q. QED BY <3>5, <3>6, <3>7 DEF Unspoilt
    <2>2. CASE response' = [response EXCEPT !.body = html_post] /\ Fault
      <3>1. response' = Rep(<<TypeHeader>>, html_post')
        <4> DEFINE g == <<TypeHeader>>
        <4>1. response = Rep(g, <<>>)
          BY <1>2
        <4> HIDE DEF g
        <4>2. [Rep(g, <<>>) EXCEPT !.body = html_post] = Rep(g, html_post)
          BY DEF Rep
        <4>q. QED BY <1>1, <2>2, <4>1, <4>2 DEF g
      <3>2. <<TypeHeader>> \in Headers
        BY DEF Headers
      <3>3. faults' # 0
        BY <2>2 DEF Fault, ServiceInv, FaultsOK
      <3>q. QED BY <3>1, <3>2, <3>3 DEF Unspoilt
    <2>q. QED BY <2>1, <2>2 DEF AddLength
  <1>5. ResponseOK'
    BY <1>1, <1>4 DEF ResponseOK
  <1>6. TodoOK'
    BY <1>1 DEF TodoOK
  <1>q. QED BY <1>1, <1>5, <1>6, RestKept DEF ServiceInv

LEMMA SendKeeps ==
    ASSUME ServiceInv, [Next]_vars, Send
    PROVE  ServiceInv'
  <1>1. /\ UNCHANGED <<reqVars, outVars>> /\ UNCHANGED <<html_post, response>> /\ OutOfScope
        /\ pc = "send" /\ pc' = "post" /\ todo' = ResponsePieces(response)
    BY DEF Send, At, Goto
  <1>2. Prf!BufInv'
    BY <1>1, OutOfScopeKeeps DEF ServiceInv
  <1>3. Unspoilt' => Unspoilt
    BY SpoiltStays DEF ServiceInv
  <1>4. ResponseOK'
    BY <1>1, <1>3 DEF ServiceInv, ResponseOK
  <1>5. TodoOK'
    BY <1>1 DEF TodoOK
  <1>q. QED BY <1>1, <1>2, <1>4, <1>5, RestKept DEF ServiceInv

\* The pieces of the response that is being written.
LEMMA PiecesInOrder ==
    ASSUME ServiceInv, pc \in {"post", "serialise"}
    PROVE  ResponsePieces(response) \in Seq(Pieces(html_post))
  <1>1. PICK h \in Headers : response = Rep(h, html_post)
    BY DEF ServiceInv, ResponseOK
  <1>2. ResponsePieces(Rep(h, html_post)) \in Seq(Pieces(html_post))
    BY ResponsePiecesAre
  <1>q. QED BY <1>1, <1>2

LEMMA InitPostKeeps ==
    ASSUME ServiceInv, [Next]_vars, InitPost
    PROVE  ServiceInv'
  <1>1. /\ UNCHANGED <<reqVars, outVars>> /\ UNCHANGED <<html_post, response, todo>>
        /\ Str!StringInit /\ pc = "post" /\ pc' = "serialise"
    BY DEF InitPost, At, Goto
  <1>2. Prf!BufInv' /\ Str!Content' = <<>>
    BY <1>1, NewStringKeeps DEF ServiceInv
  <1>3. Unspoilt' => Unspoilt
    BY SpoiltStays DEF ServiceInv
  <1>4. ResponseOK'
    BY <1>1, <1>3 DEF ServiceInv, ResponseOK
  <1>5. TodoOK'
    <2> DEFINE p == ResponsePieces(response)
    <2>1. p \in Seq(Pieces(html_post)) /\ todo = p
      BY <1>1, PiecesInOrder DEF ServiceInv, TodoOK
    <2>2. Len(p) \in Nat /\ SubSeq(p, 1, Len(p)) = p
      <3>1. p \in Seq(Pieces(html_post))
        BY <2>1
      <3> HIDE DEF p
      <3>q. QED BY <3>1, SubSeqFull, LenProperties
    <2>3. p' = p
      BY <1>1
    <2> HIDE DEF p
    <2>4. \E j \in 0 .. Len(p) : todo' = SubSeq(p, j + 1, Len(p)) /\ Str!Content' = Built(html_post', j)
      <3>1. 0 \in 0 .. Len(p) /\ 0 + 1 = 1
        BY <2>2
      <3>2. Built(html_post', 0) = <<>>
        BY BuiltEnds
      <3>q. QED BY <1>1, <1>2, <2>1, <2>2, <3>1, <3>2
    <2>5. \E j \in 0 .. Len(p') : todo' = SubSeq(p', j + 1, Len(p')) /\ Str!Content' = Built(html_post', j)
      BY <2>3, <2>4
    <2>q. QED BY <1>1, <2>5 DEF TodoOK, p
  <1>q. QED BY <1>1, <1>2, <1>4, <1>5, RestKept DEF ServiceInv

\* What one append of the job does to its string.
LEMMA BuildAppends ==
    ASSUME ServiceInv, Build, NEW b, Head(todo) \in Pieces(b),
           b \in Streams \/ b = html_post
    PROVE  /\ Head(todo).text \in Streams /\ Prf!BufInv'
           /\ \/ failed' = FALSE /\ Str!Content' = Str!Content \o Head(todo).text
              \/ failed' = TRUE /\ faults' = faults + 1
  <1> DEFINE t == Head(todo).text
  <1>1. t \in Streams /\ Str!Appended(t)
    <2>1. CASE \E u \in Streams \cup {b} : Head(todo) = Add(u)
      <3>1. PICK u \in Streams \cup {b} : Head(todo) = Add(u)
        BY <2>1
      <3>2. Head(todo).op = "append" /\ t = u
        BY <3>1 DEF Add
      <3>3. Str!Appended(t)
        BY <3>2 DEF Build, Str!AppendText
      <3>4. u \in Streams
        <4>1. CASE u = b /\ b = html_post /\ b \notin Streams
          <5>1. html_post = Unmapped
            BY <4>1, PageIsStream DEF ServiceInv, PageOK
          <5>q. QED BY <3>2, <4>1, <5>1 DEF Build, ReadsUnmapped
        <4>q. QED BY <3>1, <4>1
      <3>q. QED BY <3>2, <3>3, <3>4
    <2>2. CASE \E c \in Cells : Head(todo) = Push(c)
      <3>1. PICK c \in Cells : Head(todo) = Push(c)
        BY <2>2
      <3>2. Head(todo).op = "push" /\ t = <<c>> /\ t[1] = c
        BY <3>1 DEF Push
      <3>3. Str!Appended(<<t[1]>>)
        BY <3>2 DEF Build, Str!PushBack
      <3>q. QED BY <3>2, <3>3, WordIsStream
    <2>q. QED BY <2>1, <2>2 DEF Pieces
  <1> HIDE DEF t
  <1>2. /\ Prf!BufInv'
        /\ \/ failed' = FALSE /\ Str!Content' = Str!Content \o t
           \/ failed' = TRUE
    BY <1>1, AppendKeeps DEF ServiceInv
  <1>3. failed' = TRUE => faults' = faults + 1
    BY DEF Build, Counted
  <1>q. QED BY <1>1, <1>2, <1>3 DEF t

\* The pieces that are left, one fewer.
LEMMA NextPiece ==
    ASSUME NEW S, NEW p \in Seq(S), NEW j \in 0 .. Len(p), SubSeq(p, j + 1, Len(p)) # <<>>
    PROVE  /\ j + 1 \in 1 .. Len(p)
           /\ Head(SubSeq(p, j + 1, Len(p))) = p[j + 1]
           /\ Tail(SubSeq(p, j + 1, Len(p))) = SubSeq(p, (j + 1) + 1, Len(p))
  <1> DEFINE m == j + 1
             n == Len(p)
  <1>1. n \in Nat /\ m \in Nat /\ m >= 1
    BY LenProperties
  <1>2. m <= n
    <2>1. CASE n < m
      BY <1>1, <2>1, SubSeqEmpty
    <2>q. QED BY <1>1, <2>1
  <1>3. m \in 1 .. Len(p) /\ n \in m .. Len(p)
    BY <1>1, <1>2
  <1>4. Head(SubSeq(p, m, n)) = p[m] /\ Tail(SubSeq(p, m, n)) = SubSeq(p, m + 1, n)
    <2> HIDE DEF m, n
    <2>q. QED BY <1>3, HeadTailOfSubSeq
  <1>q. QED BY <1>3, <1>4

LEMMA BuildKeeps ==
    ASSUME ServiceInv, [Next]_vars, Build
    PROVE  ServiceInv'
  <1>1. /\ UNCHANGED <<reqVars, outVars>> /\ UNCHANGED <<html_post, response, pc>>
        /\ pc \in {"append", "serialise"} /\ todo # <<>> /\ todo' = Tail(todo)
    BY DEF Build, At
  <1>2. Unspoilt' => Unspoilt /\ faults' = faults
    BY SpoiltStays DEF ServiceInv
  <1>3. ResponseOK'
    BY <1>1, <1>2 DEF ServiceInv, ResponseOK
  <1>4. CASE pc = "append"
    <2> DEFINE S == Pieces(<<>>)
    <2>1. todo \in Seq(S)
      BY <1>4 DEF ServiceInv, TodoOK
    <2>2. Head(todo) \in S /\ Tail(todo) \in Seq(S)
      <3> HIDE DEF S
      <3>q. QED BY <1>1, <2>1, HeadTailProperties
    <2>3. Prf!BufInv'
      BY <2>2, BuildAppends, NothingRead
    <2>4. TodoOK'
      BY <1>1, <1>4, <2>2 DEF TodoOK
    <2>q. QED BY <1>1, <1>3, <2>3, <2>4, RestKept DEF ServiceInv
  <1>5. CASE pc = "serialise"
    <2> DEFINE S == Pieces(html_post)
               p == ResponsePieces(response)
    <2>1. p \in Seq(S)
      BY <1>5, PiecesInOrder
    <2>2. PICK j \in 0 .. Len(p) :
              /\ todo = SubSeq(p, j + 1, Len(p))
              /\ Unspoilt => Str!Content = Built(html_post, j)
      BY <1>5 DEF ServiceInv, TodoOK
    <2>3. p' = p
      BY <1>1
    <2>4. Unspoilt => response = Rep(Both(html_post), html_post) /\ html_post \in Pages
      BY <1>5 DEF ServiceInv, ResponseOK, PageOK, Unspoilt
    <2>5. Unspoilt => p = ResponsePieces(Rep(Both(html_post), html_post))
      BY <2>4
    <2> HIDE DEF S, p
    <2>6. /\ j + 1 \in 1 .. Len(p) /\ Head(todo) = p[j + 1]
          /\ Tail(todo) = SubSeq(p, (j + 1) + 1, Len(p))
      BY <1>1, <2>1, <2>2, NextPiece
    <2>7. Head(todo) \in S
      BY <2>1, <2>6, ElementOfSeq
    <2>8. /\ Prf!BufInv'
          /\ \/ failed' = FALSE /\ Str!Content' = Str!Content \o Head(todo).text
             \/ failed' = TRUE /\ faults' = faults + 1
      BY <2>7, BuildAppends DEF S
    <2>9. Unspoilt' => Str!Content' = Built(html_post, j + 1)
      <3> SUFFICES ASSUME Unspoilt' PROVE Str!Content' = Built(html_post, j + 1)
        OBVIOUS
      <3>1. Unspoilt /\ Str!Content = Built(html_post, j) /\ html_post \in Pages
        BY <1>2, <2>2, <2>4
      <3>2. Str!Content' = Str!Content \o p[j + 1].text
        <4>1. faults' # faults + 1
          BY <1>2 DEF ServiceInv, FaultsOK
        <4>q. QED BY <2>6, <2>8, <4>1
      <3>3. j \in 0 .. 16
        <4>1. Len(p) = 17
          BY <2>5, <3>1, AnswerPieces
        <4>q. QED BY <2>6, <4>1
      <3>4. Built(html_post, j + 1) = Built(html_post, j) \o p[j + 1].text
        BY <2>5, <3>1, <3>3, BuiltNext
      <3>q. QED BY <3>1, <3>2, <3>4
    <2>a. \E i \in 0 .. Len(p) :
              /\ todo' = SubSeq(p, i + 1, Len(p))
              /\ Unspoilt' => Str!Content' = Built(html_post, i)
      <3>1. j + 1 \in 0 .. Len(p)
        BY <2>6
      <3>q. QED BY <1>1, <2>6, <2>9, <3>1
    <2>b. \E i \in 0 .. Len(p') :
              /\ todo' = SubSeq(p', i + 1, Len(p'))
              /\ Unspoilt' => Str!Content' = Built(html_post', i)
      BY <1>1, <2>3, <2>a
    <2>c. TodoOK'
      BY <1>1, <1>5, <2>b DEF TodoOK, p
    <2>q. QED BY <1>1, <1>3, <2>8, <2>c, RestKept DEF ServiceInv
  <1>q. QED BY <1>1, <1>4, <1>5

\* One more response behind what the client has been written.
LEMMA OneMoreRead ==
    ASSUME NEW x \in Streams, NEW q \in Seq(Streams), NEW b \in Pages,
           ReadAs(x, q)
    PROVE  /\ x \o AnswerOf(b) \in Streams /\ Append(q, b) \in Seq(Streams)
           /\ ReadAs(x \o AnswerOf(b), Append(q, b))
  <1> DEFINE a == AnswerOf(b)
  <1>1. b \in Streams /\ a \in Streams
    <2>1. b \in Streams
      BY PageIsStream
    <2>2. HeadOf(b) \o b \in Streams
      BY <2>1, HeadOfIs, JoinPlaces
    <2>q. QED BY <2>1, <2>2, Line, JoinPlaces DEF AnswerOf
  <1>2. /\ Append(q, b) \in Seq(Streams) /\ Append(q, b) = q \o <<b>> /\ <<b>> \in Seq(Streams)
    <2>1. b \in Streams /\ q \in Seq(Streams)
      BY <1>1
    <2>2. Append(q, b) \in Seq(Streams)
      BY <2>1, AppendProperties
    <2>3. Append(q, b) = q \o <<b>>
      BY <2>1, AppendIsConcat
    <2>4. <<b>> \in Seq(Streams)
      BY <2>1
    <2>q. QED BY <2>2, <2>3, <2>4
  <1> HIDE DEF a
  <1>3. x \o a \in Streams
    BY <1>1, JoinPlaces
  <1>4. ASSUME NEW s \in Streams PROVE Bodies[(x \o a) \o s] = Append(q, b) \o Bodies[s]
    <2>1. (x \o a) \o s = x \o (a \o s)
      <3>1. x \in Seq(Cells) /\ a \in Seq(Cells) /\ s \in Seq(Cells)
        BY <1>1 DEF Streams
      <3>q. QED BY <3>1, ConcatAssociative
    <2>2. a \o s \in Streams
      BY <1>1, JoinPlaces
    <2>3. Bodies[x \o (a \o s)] = q \o Bodies[a \o s]
      BY <2>2 DEF ReadAs
    <2>4. Bodies[a \o s] = <<b>> \o Bodies[s]
      BY AnswerRead DEF a
    <2>5. Bodies[s] \in Seq(Streams)
      BY BodiesEquation
    <2>6. (q \o <<b>>) \o Bodies[s] = q \o (<<b>> \o Bodies[s])
      <3> DEFINE one == <<b>>
                 r == Bodies[s]
      <3>1. q \in Seq(Streams) /\ one \in Seq(Streams) /\ r \in Seq(Streams)
        BY <1>2, <2>5
      <3> HIDE DEF one, r
      <3>2. (q \o one) \o r = q \o (one \o r)
        BY <3>1, ConcatAssociative
      <3>q. QED BY <3>2 DEF one, r
    <2>7. Bodies[(x \o a) \o s] = q \o Bodies[a \o s]
      BY <2>1, <2>3
    <2>8. Append(q, b) \o Bodies[s] = (q \o <<b>>) \o Bodies[s]
      BY <1>2
    <2>9. q \o Bodies[a \o s] = q \o (<<b>> \o Bodies[s])
      BY <2>4
    <2>q. QED BY <2>6, <2>7, <2>8, <2>9
  <1>q. QED BY <1>2, <1>3, <1>4 DEF a, ReadAs

LEMMA WriteKeeps ==
    ASSUME ServiceInv, [Next]_vars, Write
    PROVE  ServiceInv'
  <1>1. /\ UNCHANGED reqVars /\ UNCHANGED <<html_post, stale>>
        /\ pc = "serialise" /\ pc' = "idle" /\ todo = <<>> /\ OutOfScope
    BY DEF Write, At, Goto, histVars
  <1>2. Prf!BufInv'
    BY <1>1, OutOfScopeKeeps DEF ServiceInv
  <1>3. SentOK'
    <2>1. CASE Fault
      <3>1. faults' # 0
        BY <2>1 DEF Fault, ServiceInv, FaultsOK
      <3>q. QED BY <3>1 DEF SentOK, Unspoilt
    <2>2. CASE sent' = sent \o Str!Content /\ served' = Append(served, response.body) /\ Unspoilt
      <3> DEFINE b == html_post
                 p == ResponsePieces(response)
      <3>1. response = Rep(Both(b), b) /\ b \in Pages
        BY <1>1, <2>2 DEF ServiceInv, ResponseOK, PageOK, Unspoilt
      <3>2. Len(p) = 17 /\ p \in Seq(Pieces(b))
        BY <1>1, <3>1, AnswerPieces, PiecesInOrder
      <3>3. PICK j \in 0 .. Len(p) :
                /\ todo = SubSeq(p, j + 1, Len(p))
                /\ Str!Content = Built(b, j)
        BY <1>1, <2>2 DEF ServiceInv, TodoOK
      <3> HIDE DEF p
      <3>4. j = 17
        <4> DEFINE m == j + 1
                   n == Len(p)
        <4>1. CASE j < n
          <5>1. m \in 1 .. Len(p) /\ n \in m .. Len(p) /\ m <= n /\ n <= Len(p)
            BY <3>2, <4>1
          <5>2. SubSeq(p, m, n) = <<>>
            BY <1>1, <3>3
          <5> HIDE DEF m, n
          <5>4. \A i \in m .. n : p[i] \in Pieces(b)
            <6>1. \A i \in m .. n : i \in 1 .. Len(p)
              BY <5>1
            <6>q. QED BY <3>2, <6>1, ElementOfSeq
          <5>5. Len(SubSeq(p, m, n)) = n - m + 1 /\ n - m + 1 > 0
            <6>1. m \in Int /\ n \in Int
              BY <5>1
            <6>2. Len(SubSeq(p, m, n)) = IF m <= n THEN n - m + 1 ELSE 0
              BY <5>4, <6>1, SubSeqProperties
            <6>q. QED BY <5>1, <6>1, <6>2
          <5>6. Len(<<>>) = 0
            BY EmptySeq
          <5>q. QED BY <5>2, <5>5, <5>6
        <4>q. QED BY <3>2, <4>1
      <3>5. Str!Content = AnswerOf(b)
        BY <3>3, <3>4, BuiltEnds
      <3>6. response.body = b
        BY <3>1 DEF Rep
      <3>7. /\ sent \in Streams /\ served \in Seq(Streams)
            /\ ReadAs(sent, served)
        BY <2>2 DEF ServiceInv, SentOK
      <3>8. /\ sent \o AnswerOf(b) \in Streams /\ Append(served, b) \in Seq(Streams)
            /\ ReadAs(sent \o AnswerOf(b), Append(served, b))
        BY <3>1, <3>7, OneMoreRead
      <3>9. sent' = sent \o AnswerOf(b) /\ served' = Append(served, b)
        BY <2>2, <3>5, <3>6
      <3>q. QED BY <3>8, <3>9 DEF SentOK
    <2>3. Unspoilt' => Unspoilt
      BY SpoiltStays DEF ServiceInv
    <2>4. CASE ~Unspoilt'
      BY <2>4 DEF SentOK
    <2>q. QED BY <2>1, <2>2, <2>3, <2>4 DEF Write
  <1>q. QED BY <1>1, <1>2, <1>3, RestKept DEF ServiceInv

\* No step breaks it.
LEMMA ServiceInvStep == ServiceInv /\ [Next]_vars => ServiceInv'
  <1> SUFFICES ASSUME ServiceInv, [Next]_vars PROVE ServiceInv'
    OBVIOUS
  <1>1. CASE Main(pc = "idle") /\ UNCHANGED <<stringVars, jobVars>>
    BY <1>1, SameJobKeeps DEF workVars, jobVars, histVars
  <1>2. CASE Job
    <2>1. CASE SendNull \/ BuildUnmapped
      BY <2>1, SameJobKeeps DEF SendNull, BuildUnmapped, workVars, jobVars, histVars
    <2>q. QED BY <1>2, <2>1, PopKeeps, InitPathKeeps, BuildKeeps, LookupKeeps, NewResponseKeeps,
              AddTypeKeeps, AddLengthKeeps, SendKeeps, InitPostKeeps, WriteKeeps DEF Job
  <1>3. CASE UNCHANGED vars
    BY <1>3, SameJobKeeps DEF vars, workVars, jobVars, histVars
  <1>4. CASE MisuseContext
    BY <1>4, SameJobKeeps DEF MisuseContext, workVars
  <1>q. QED BY <1>1, <1>2, <1>3, <1>4 DEF Next

\* As long as no call failed, no numbuf was overwritten and no context misused, a
\* client that reads what http_response_to_string and write() gave it, by
\* Content-Length, finds the body of the response that was written whole, and no
\* other, whatever the requests, the files and the configuration are.
THEOREM ClientReads == Spec => []ClientReadsBodies
  <1>1. ServiceInv => ClientReadsBodies
    <2> SUFFICES ASSUME ServiceInv, faults = 0, ~stale PROVE Bodies[sent] = served
      BY DEF ClientReadsBodies
    <2>1. /\ sent \in Streams /\ served \in Seq(Streams)
          /\ ReadAs(sent, served)
      BY DEF ServiceInv, SentOK, Unspoilt
    <2>2. Bodies[sent \o <<>>] = served \o Bodies[<<>>]
      BY <2>1, NothingRead DEF ReadAs
    <2>3. sent \o <<>> = sent /\ served \o <<>> = served
      BY <2>1, ConcatEmptySeq DEF Streams
    <2>q. QED BY <2>2, <2>3, NothingRead
  <1>q. QED BY ServiceInvInit, ServiceInvStep, <1>1, PTL DEF Spec

\* The path of the handler and the text of the response stay inside their
\* buffers and keep their final 0 in every state of the process, as long as no
\* context is misused, whatever the lengths of the working directory, the request
\* and the file are.
THEOREM StringsStayInside == Spec => [](~misused => Str!BufferFits /\ Str!Terminated)
  <1>1. ServiceInv => Str!BufferFits /\ Str!Terminated
    <2> SUFFICES ASSUME Prf!BufInv PROVE Str!BufferFits /\ Str!Terminated
      BY DEF ServiceInv
    <2>1. Str!BufferFits
      BY DEF Prf!BufInv, Str!BufferFits
    <2>2. Str!Terminated
      BY DEF Prf!BufInv, Str!Terminated, Str!Exists, Str!Buffer, Prf!Buffer
    <2>q. QED BY <2>1, <2>2
  <1>q. QED BY ServiceInvInit, ServiceInvStep, <1>1, PTL DEF Spec
=============================================================================
