---------------------------- MODULE ResourceCache ----------------------------
(***************************************************************************)
(* The resource cache of src/src/http/resource_getter.c: a hash table from *)
(* paths to memory-mapped files, filled by the worker threads.             *)
(*                                                                         *)
(* get_resource_lazy holds table_mtx around the lookup and around the      *)
(* insertion, and gives it up while it opens and maps the file.  Each      *)
(* action is one step of one thread between two calls that other threads   *)
(* can observe.                                                            *)
(***************************************************************************)
EXTENDS Integers, Sequences, FiniteSets

CONSTANTS
    Threads,       \* the workers of the pool
    Paths,         \* the paths that are asked for
    Wants,         \* [Threads -> SUBSET Paths]: the paths a worker may be asked for
    Present,       \* the paths that name a file when the server starts
    Unmappable,    \* the paths whose file mmap() refuses (an empty file)
    MaxCalls,      \* bound of the model: calls of get_resource_cached
    NoThread       \* the mutex is free

ASSUME PathsAssumption      == Paths # {}
ASSUME WantsAssumption      == Wants \in [Threads -> SUBSET Paths]
ASSUME PresentAssumption    == Present \in SUBSET Paths
ASSUME UnmappableAssumption == Unmappable \in SUBSET Paths
ASSUME MaxCallsAssumption   == MaxCalls \in Nat
ASSUME NoThreadAssumption   == NoThread \notin Threads

VARIABLES
    table,      \* path -> stored mapped_memory_t, Absent or Garbage
    mutex,      \* the holder of table_mtx
    pc,         \* where each thread is
    path,       \* the path of its call
    resmem,     \* its local mapped_memory_t
    res,        \* what the caller's *res holds
    mapped,     \* the regions that mmap() made and munmap() has not removed
    fds,        \* the descriptors open() returned and close() has not closed
    files,      \* the paths that name a file
    alive,      \* between resource_getter_initial and resource_getter_release
    calls,      \* number of calls made
    opens       \* history: how often a thread has run open_resource on a path

threadState == <<pc, path, resmem, res>>
resources   == <<mapped, fds>>
env         == <<files, alive, calls>>
vars        == <<table, mutex, threadState, resources, env, opens>>

\* A mapped_memory_t: empty ({0}), the value of a failed mmap, or a region.
\* A region is named after the call that mapped it, which OpensOnce makes
\* unique.
Nothing      == <<>>
Failed       == <<"MAP_FAILED">>
Region(t, p) == <<t, p>>

\* What a slot of the hash table, or the caller's *res, may hold besides.
Absent  == <<"absent">>
Garbage == <<"garbage">>
Unset   == <<"unset">>

Memories == {Nothing, Failed} \union {Region(t, p) : t \in Threads, p \in Paths}

\* Where a thread holds table_mtx.
Critical == {"lookup", "unlock_hit", "unlock_miss", "put", "store", "unlock"}
Labels   == Critical \union {"idle", "lock", "open", "map", "close", "relock"}

Goto(t, l) == pc' = [pc EXCEPT ![t] = l]

\* resource_getter_initial.
Init ==
    /\ table  = [p \in Paths |-> Absent]
    /\ mutex  = NoThread
    /\ pc     = [t \in Threads |-> "idle"]
    /\ path   = [t \in Threads |-> CHOOSE p \in Paths : TRUE]
    /\ resmem = [t \in Threads |-> Nothing]
    /\ res    = [t \in Threads |-> Unset]
    /\ mapped = {}
    /\ fds    = {}
    /\ files  = Present
    /\ alive  = TRUE
    /\ calls  = 0
    /\ opens  = [t \in Threads |-> [p \in Paths |-> 0]]

-----------------------------------------------------------------------------
(* get_resource_lazy(path, res, false).                                    *)

Call(t, p) ==
    /\ pc[t] = "idle" /\ alive /\ calls < MaxCalls
    /\ p \in Wants[t]
    /\ calls' = calls + 1
    /\ path' = [path EXCEPT ![t] = p]
    /\ res' = [res EXCEPT ![t] = Unset]
    /\ resmem' = [resmem EXCEPT ![t] = Nothing]
    /\ Goto(t, "lock")
    /\ UNCHANGED <<table, mutex, resources, files, alive, opens>>

\* Mutant: the second thread does not wait.
TakeUnguarded(t, from, to) ==
    /\ pc[t] = from
    /\ mutex' = t
    /\ Goto(t, to)

\* pthread_mutex_lock.
Take(t, from, to) ==
    /\ pc[t] = from
    /\ mutex = NoThread
    /\ mutex' = t
    /\ Goto(t, to)

Give(t, from, to) ==
    /\ pc[t] = from
    /\ mutex' = NoThread
    /\ Goto(t, to)

Lock(t) ==
    /\ Take(t, "lock", "lookup")
    /\ UNCHANGED <<table, path, resmem, res, resources, env, opens>>

InTable(p) == table[p] # Absent

\* Mutant: the flush flag is passed as true.
HitUnlessFlushed(t) == FALSE

Hit(t) == InTable(path[t])

\* kh_get.  A hit copies the stored value to the local resmem only.
Lookup(t) ==
    /\ pc[t] = "lookup"
    /\ IF Hit(t)
       THEN /\ resmem' = [resmem EXCEPT ![t] = table[path[t]]]
            /\ Goto(t, "unlock_hit")
       ELSE Goto(t, "unlock_miss") /\ UNCHANGED resmem
    /\ UNCHANGED <<table, mutex, path, res, resources, env, opens>>

\* Mutant: the early return on a hit forgets the unlock.
ReturnLocked(t) ==
    /\ pc[t] = "unlock_hit"
    /\ Goto(t, "idle")
    /\ UNCHANGED <<mutex, table, path, resmem, res, resources, env, opens>>

UnlockHit(t) ==
    /\ Give(t, "unlock_hit", "idle")
    /\ UNCHANGED <<table, path, resmem, res, resources, env, opens>>

UnlockMiss(t) ==
    /\ Give(t, "unlock_miss", "open")
    /\ UNCHANGED <<table, path, resmem, res, resources, env, opens>>

\* open() in open_resource; its error is dropped by the caller.
Open(t) ==
    /\ pc[t] = "open"
    /\ opens' = [opens EXCEPT ![t][path[t]] = @ + 1]
    /\ IF path[t] \in files
       THEN /\ fds' = fds \union {<<t, path[t]>>}
            /\ Goto(t, "map")
            /\ UNCHANGED res
       ELSE /\ res' = [res EXCEPT ![t] = Nothing]
            /\ Goto(t, "relock")
            /\ UNCHANGED fds
    /\ UNCHANGED <<table, mutex, path, resmem, mapped, env>>

\* fstat(), taken to succeed on an open file, and mmap(), whose failure returns
\* without closing the descriptor.
Map(t) ==
    /\ pc[t] = "map"
    /\ IF path[t] \in Unmappable
       THEN /\ resmem' = [resmem EXCEPT ![t] = Failed]
            /\ res' = [res EXCEPT ![t] = Failed]
            /\ Goto(t, "relock")
            /\ UNCHANGED mapped
       ELSE /\ resmem' = [resmem EXCEPT ![t] = Region(t, path[t])]
            /\ mapped' = mapped \union {Region(t, path[t])}
            /\ Goto(t, "close")
            /\ UNCHANGED res
    /\ UNCHANGED <<table, mutex, path, fds, env, opens>>

\* Mutant: the descriptor stays open.
KeepOpen(t) == UNCHANGED fds

CloseFd(t) == fds' = fds \ {<<t, path[t]>>}

\* close(), then the assignment of *res.
Close(t) ==
    /\ pc[t] = "close"
    /\ CloseFd(t)
    /\ res' = [res EXCEPT ![t] = resmem[t]]
    /\ Goto(t, "relock")
    /\ UNCHANGED <<table, mutex, path, resmem, mapped, env, opens>>

Relock(t) ==
    /\ Take(t, "relock", "put")
    /\ UNCHANGED <<table, path, resmem, res, resources, env, opens>>

\* Mutant: the lock is released between kh_put and the assignment.
PutAndGive(t) == Goto(t, "store") /\ mutex' = NoThread

PutAndHold(t) == Goto(t, "store") /\ UNCHANGED mutex

\* kh_put: a new key gets a slot whose value is not yet written.  When another
\* thread has inserted the key in the meantime ret is 0; the assertion of line
\* 134 is left out of the default build (NDEBUG).
Put(t) ==
    /\ pc[t] = "put"
    /\ PutAndHold(t)
    /\ table' = IF InTable(path[t]) THEN table ELSE [table EXCEPT ![path[t]] = Garbage]
    /\ UNCHANGED <<path, resmem, res, resources, env, opens>>

\* Mutant: the local resmem was never filled.
StoreEmpty(t) == table' = [table EXCEPT ![path[t]] = Nothing]

\* Mutant: only a mapped file is kept.
StoreRegionOnly(t) ==
    table' = [table EXCEPT ![path[t]] =
                 IF resmem[t] \in {Nothing, Failed} THEN Absent ELSE resmem[t]]

StoreValue(t) == table' = [table EXCEPT ![path[t]] = resmem[t]]

\* Mutant: the value that is overwritten is unmapped.
UnmapOld(t) == mapped' = mapped \ {table[path[t]]}

\* The value that is overwritten stays mapped.
KeepOld(t) == UNCHANGED mapped

Store(t) ==
    /\ pc[t] = "store"
    /\ StoreValue(t)
    /\ KeepOld(t)
    /\ Goto(t, "unlock")
    /\ UNCHANGED <<mutex, path, resmem, res, fds, env, opens>>

Unlock(t) ==
    /\ Give(t, "unlock", "idle")
    /\ UNCHANGED <<table, path, resmem, res, resources, env, opens>>

-----------------------------------------------------------------------------
(* The surroundings.                                                       *)

\* A file appears under the base directory while the server runs.
Deploy(p) ==
    /\ p \notin files
    /\ files' = files \union {p}
    /\ UNCHANGED <<table, mutex, threadState, resources, alive, calls, opens>>

\* resource_getter_release: main() calls it after the pool has ended.
Release ==
    /\ alive /\ \A t \in Threads : pc[t] = "idle"
    /\ mapped' = mapped \ {table[p] : p \in Paths}
    /\ table' = [p \in Paths |-> Absent]
    /\ alive' = FALSE
    /\ UNCHANGED <<mutex, threadState, fds, files, calls, opens>>

\* After the release nothing has to happen any more.
Stopped == ~alive /\ UNCHANGED vars

Step(t) == Lock(t) \/ Lookup(t) \/ UnlockHit(t) \/ UnlockMiss(t) \/ Open(t)
           \/ Map(t) \/ Close(t) \/ Relock(t) \/ Put(t) \/ Store(t) \/ Unlock(t)

Next == \/ \E t \in Threads : Step(t) \/ \E p \in Paths : Call(t, p)
        \/ \E p \in Paths : Deploy(p)
        \/ Release
        \/ Stopped

Spec == Init /\ [][Next]_vars

\* The system runs every worker; a worker that waits for the mutex gets it if
\* it is free again and again.
FairSpec == /\ Spec
            /\ \A t \in Threads : /\ WF_vars(Step(t))
                                  /\ SF_vars(Lock(t))
                                  /\ SF_vars(Relock(t))

-----------------------------------------------------------------------------
(* Properties.                                                             *)

\* The type invariant.
TypeOK ==
    /\ table \in [Paths -> Memories \union {Absent, Garbage}]
    /\ mutex \in Threads \union {NoThread}
    /\ pc \in [Threads -> Labels]
    /\ path \in [Threads -> Paths]
    /\ resmem \in [Threads -> Memories]
    /\ res \in [Threads -> Memories \union {Unset}]
    /\ mapped \in SUBSET Memories
    /\ fds \in SUBSET (Threads \X Paths)
    /\ files \in SUBSET Paths
    /\ alive \in BOOLEAN
    /\ calls \in Nat
    /\ opens \in [Threads -> [Paths -> Nat]]

\* The hash table is touched only by the thread that holds table_mtx, from the
\* kh_get and from the kh_put to the assignment of the value: no two threads
\* are between a lock and its unlock.
TableLocked == \A t \in Threads : pc[t] \in Critical => mutex = t

\* A lookup never finds the slot of an unfinished insertion, whose value
\* kh_put has left unwritten.
NoGarbageRead == \A t \in Threads : pc[t] = "lookup" => table[path[t]] # Garbage

\* Although two threads may open one file at the same time, each thread runs
\* open_resource on a path at most once: the mappings that overwriting leaks
\* and the descriptors that failures leak are bounded by Threads x Paths,
\* however many requests are served.
OpensOnce == \A t \in Threads, p \in Paths : opens[t][p] <= 1

\* A view given out, or stored in the table, is of a region that is still
\* mapped: overwriting an entry takes no region away from its users.
ViewsStayMapped ==
    alive => /\ \A t \in Threads : res[t] \in {Nothing, Failed, Unset} \union mapped
             /\ \A p \in Paths : table[p] \in {Absent, Garbage, Nothing, Failed} \union mapped

\* The open descriptors are those in use and those of files that could not be
\* mapped.
DescriptorsBounded ==
    \A t \in Threads, p \in Paths : <<t, p>> \in fds =>
        \/ p \in Unmappable
        \/ path[t] = p /\ pc[t] \in {"map", "close"}

\* The assertion of line 134, kh_put inserts a key that was not there, can only
\* fail when another thread has opened the same file.
DoubleInsertNeedsRace ==
    \A t \in Threads : pc[t] = "put" /\ InTable(path[t])
                           => \E u \in Threads \ {t} : opens[u][path[t]] > 0

\* A mapping is lost only to a second thread that has opened the same file:
\* any other is in the table, or on its way there, or the release removes it.
Owned(r) == \/ \E p \in Paths : table[p] = r
            \/ \E t \in Threads : resmem[t] = r /\ pc[t] \in {"close", "relock", "put", "store"}

LeakNeedsRace ==
    \A t \in Threads, p \in Paths :
        Region(t, p) \in mapped /\ ~Owned(Region(t, p))
            => \E u \in Threads \ {t} : opens[u][p] > 0

\* Every call of get_resource_cached returns.
EveryCallReturns == \A t \in Threads : pc[t] # "idle" ~> pc[t] = "idle"

\* resource_getter_test.c:15-19: a call that succeeds has filled in *res.
HitFillsResult ==
    \A t \in Threads : pc[t] = "unlock_hit" => res[t] # Unset
=============================================================================
