------------------------- MODULE ResourceCacheProofs -------------------------
(***************************************************************************)
(* Invariants of the resource cache, for any number of threads, paths and  *)
(* calls.                                                                  *)
(***************************************************************************)
EXTENDS ResourceCache, TLAPS

\* The special values are no mapped_memory_t.
LEMMA MemoriesDistinct ==
    /\ Absent \notin Memories /\ Garbage \notin Memories /\ Unset \notin Memories
    /\ Nothing \in Memories /\ Failed \in Memories
    /\ \A t \in Threads, p \in Paths : Region(t, p) \in Memories
    /\ Absent # Garbage
  BY DEF Memories, Nothing, Failed, Region, Absent, Garbage, Unset

-----------------------------------------------------------------------------
(* Type correctness, the lock, and the slots whose value is not written.   *)
(* The three are one invariant: a hit copies the slot to the local resmem, *)
(* which is a mapped_memory_t only because no slot is seen unwritten, and  *)
(* that rests on the lock.                                                 *)

\* A slot without its value belongs to a thread that is about to write it.
GarbageOwned ==
    \A p \in Paths : table[p] = Garbage =>
        \E t \in Threads : pc[t] = "store" /\ path[t] = p

LockInv == TypeOK /\ TableLocked /\ GarbageOwned

\* A thread that is at the table, and not at the assignment, sees no such slot.
LEMMA NoGarbageSeen ==
    ASSUME LockInv, NEW t \in Threads, pc[t] \in Critical, pc[t] # "store", NEW p \in Paths
    PROVE  table[p] # Garbage
<1> SUFFICES ASSUME table[p] = Garbage PROVE FALSE
  OBVIOUS
<1>1. PICK u \in Threads : pc[u] = "store" /\ path[u] = p
  BY DEF LockInv, GarbageOwned
<1>2. mutex = u /\ mutex = t
  BY <1>1 DEF LockInv, TableLocked, Critical
<1> QED
  BY <1>1, <1>2

\* The initial state has the invariant.
LEMMA InitLockInv == Init => LockInv
<1> SUFFICES ASSUME Init PROVE LockInv
  OBVIOUS
<1>1. (CHOOSE p \in Paths : TRUE) \in Paths
  BY PathsAssumption
<1>2. TableLocked
  BY DEF Init, TableLocked, Critical
<1>3. GarbageOwned
  BY MemoriesDistinct DEF Init, GarbageOwned
<1> QED
  BY <1>1, <1>2, <1>3, MemoriesDistinct, PresentAssumption
     DEF Init, LockInv, TypeOK, Labels

\* Every step keeps the invariant.
LEMMA NextLockInv == LockInv /\ [Next]_vars => LockInv'
<1> SUFFICES ASSUME LockInv, [Next]_vars PROVE LockInv'
  OBVIOUS
<1> USE NoThreadAssumption DEF LockInv, TypeOK, TableLocked, GarbageOwned, Goto
<1>1. ASSUME NEW t \in Threads, NEW p \in Paths, Call(t, p) PROVE LockInv'
  BY <1>1, MemoriesDistinct DEF Call, Labels, Critical, resources
<1>2. ASSUME NEW t \in Threads, Lock(t) \/ Relock(t) PROVE LockInv'
  BY <1>2 DEF Lock, Relock, Take, Labels, Critical, resources, env
<1>3. ASSUME NEW t \in Threads, Lookup(t) PROVE LockInv'
  <2>1. CASE Hit(t)
    <3>1. table[path[t]] \in Memories
      BY <1>3, <2>1, NoGarbageSeen DEF Lookup, Hit, InTable, Critical
    <3>2. /\ pc[t] = "lookup" /\ pc' = [pc EXCEPT ![t] = "unlock_hit"]
          /\ resmem' = [resmem EXCEPT ![t] = table[path[t]]]
          /\ UNCHANGED <<table, mutex, path, res, resources, env, opens>>
      BY <1>3, <2>1 DEF Lookup
    <3> QED
      BY <3>1, <3>2 DEF Labels, Critical, resources, env
  <2>2. CASE ~ Hit(t)
    <3>1. /\ pc[t] = "lookup" /\ pc' = [pc EXCEPT ![t] = "unlock_miss"]
          /\ UNCHANGED <<table, mutex, path, resmem, res, resources, env, opens>>
      BY <1>3, <2>2 DEF Lookup
    <3> QED
      BY <3>1 DEF Labels, Critical, resources, env
  <2> QED
    BY <2>1, <2>2
<1>4. ASSUME NEW t \in Threads, UnlockHit(t) \/ UnlockMiss(t) \/ Unlock(t) PROVE LockInv'
  BY <1>4 DEF UnlockHit, UnlockMiss, Unlock, Give, Labels, Critical, resources, env
<1>5. ASSUME NEW t \in Threads, Open(t) PROVE LockInv'
  <2>1. opens' \in [Threads -> [Paths -> Nat]]
    BY <1>5 DEF Open
  <2>2. res' \in [Threads -> Memories \union {Unset}]
    <3>1. res' = res \/ res' = [res EXCEPT ![t] = Nothing]
      BY <1>5 DEF Open
    <3> QED
      BY <3>1, MemoriesDistinct
  <2> QED
    BY <1>5, <2>1, <2>2 DEF Open, Labels, Critical, env
<1>6. ASSUME NEW t \in Threads, Map(t) PROVE LockInv'
  <2> DEFINE R == Region(t, path[t])
  <2>1. R \in Memories
    BY MemoriesDistinct
  <2>2. CASE path[t] \in Unmappable
    <3>1. /\ resmem' = [resmem EXCEPT ![t] = Failed]
          /\ res' = [res EXCEPT ![t] = Failed]
          /\ pc[t] = "map" /\ Goto(t, "relock")
          /\ UNCHANGED <<table, mutex, path, fds, env, opens, mapped>>
      BY <1>6, <2>2 DEF Map
    <3> QED
      BY <3>1, MemoriesDistinct DEF Labels, Critical, env
  <2>3. CASE path[t] \notin Unmappable
    <3>1. /\ resmem' = [resmem EXCEPT ![t] = R]
          /\ mapped' = mapped \union {R}
          /\ pc[t] = "map" /\ Goto(t, "close")
          /\ UNCHANGED <<table, mutex, path, fds, env, opens, res>>
      BY <1>6, <2>3 DEF Map
    <3> HIDE DEF R
    <3> QED
      BY <2>1, <3>1 DEF Labels, Critical, env
  <2> QED
    BY <2>2, <2>3
<1>7. ASSUME NEW t \in Threads, Close(t) PROVE LockInv'
  BY <1>7 DEF Close, CloseFd, Labels, Critical, env
<1>8. ASSUME NEW t \in Threads, Put(t) PROVE LockInv'
  <2> USE DEF resources, env
  <2>1. CASE InTable(path[t])
    BY <1>8, <2>1 DEF Put, PutAndHold, Labels, Critical
  <2>2. CASE ~ InTable(path[t])
    BY <1>8, <2>2 DEF Put, PutAndHold, Labels, Critical, InTable
  <2> QED
    BY <2>1, <2>2
<1>9. ASSUME NEW t \in Threads, Store(t) PROVE LockInv'
  <2>1. TypeOK'
    BY <1>9 DEF Store, StoreValue, KeepOld, Labels, Critical, env
  <2>2. TableLocked'
    BY <1>9 DEF Store, Critical
  <2>3. GarbageOwned'
    BY <1>9, MemoriesDistinct DEF Store, StoreValue
  <2> QED
    BY <2>1, <2>2, <2>3
<1>10. ASSUME NEW p \in Paths, Deploy(p) PROVE LockInv'
  BY <1>10 DEF Deploy, threadState, resources
<1>11. ASSUME Release PROVE LockInv'
  BY <1>11, MemoriesDistinct DEF Release, threadState
<1>12. ASSUME UNCHANGED vars PROVE LockInv'
  BY <1>12 DEF vars, threadState, resources, env
<1> QED
  BY <1>1, <1>2, <1>3, <1>4, <1>5, <1>6, <1>7, <1>8, <1>9, <1>10, <1>11, <1>12
     DEF Next, Step, Stopped

\* TypeOK in every reachable state.
THEOREM TypeAlways == Spec => []TypeOK
<1>1. Spec => []LockInv
  BY InitLockInv, NextLockInv, PTL DEF Spec
<1>2. LockInv => TypeOK
  BY DEF LockInv
<1> QED
  BY <1>1, <1>2, PTL

\* Every access of the hash table is made by the thread that holds table_mtx.
THEOREM LockAlways == Spec => []TableLocked
<1>1. Spec => []LockInv
  BY InitLockInv, NextLockInv, PTL DEF Spec
<1>2. LockInv => TableLocked
  BY DEF LockInv
<1> QED
  BY <1>1, <1>2, PTL

\* No lookup finds a slot that kh_put has made and the assignment has not filled.
THEOREM GarbageNeverRead == Spec => []NoGarbageRead
<1>1. Spec => []LockInv
  BY InitLockInv, NextLockInv, PTL DEF Spec
<1>2. ASSUME LockInv PROVE NoGarbageRead
  <2> SUFFICES ASSUME NEW t \in Threads, pc[t] = "lookup" PROVE table[path[t]] # Garbage
    BY DEF NoGarbageRead
  <2>1. path[t] \in Paths
    BY <1>2 DEF LockInv, TypeOK
  <2> QED
    BY <1>2, <2>1, NoGarbageSeen DEF Critical
<1> QED
  BY <1>1, <1>2, PTL

-----------------------------------------------------------------------------
(* Each thread opens a path once.  A thread that has opened a path either  *)
(* is on its way to the table, or its entry is there, and an entry stays   *)
(* until the release, after which nobody looks.                            *)

OpenInv ==
    /\ ~alive => \A t \in Threads : pc[t] = "idle"
    /\ \A t \in Threads : pc[t] \in {"unlock_miss", "open"} => opens[t][path[t]] = 0
    /\ \A t \in Threads, p \in Paths :
          \/ opens[t][p] = 0
          \/ /\ opens[t][p] = 1
             /\ \/ ~alive \/ table[p] # Absent
                \/ path[t] = p /\ pc[t] \in {"map", "close", "relock", "put"}

\* The initial state has the invariant.
LEMMA InitOpenInv == Init => OpenInv
  BY DEF Init, OpenInv

\* Every step keeps it.
LEMMA NextOpenInv == LockInv /\ OpenInv /\ [Next]_vars => OpenInv'
<1> SUFFICES ASSUME LockInv, OpenInv, [Next]_vars PROVE OpenInv'
  OBVIOUS
<1>0. TypeOK
  BY DEF LockInv
<1> USE DEF OpenInv, TypeOK, Goto
<1>1. ASSUME NEW t \in Threads, NEW p \in Paths, Call(t, p) PROVE OpenInv'
  BY <1>0, <1>1 DEF Call
<1>2. ASSUME NEW t \in Threads, Lock(t) \/ Relock(t) PROVE OpenInv'
  <2>1. UNCHANGED <<table, path, alive, opens>>
    BY <1>2 DEF Lock, Relock, env
  <2>2. \/ pc[t] = "lock" /\ pc' = [pc EXCEPT ![t] = "lookup"]
        \/ pc[t] = "relock" /\ pc' = [pc EXCEPT ![t] = "put"]
    BY <1>2 DEF Lock, Relock, Take
  <2>3. alive /\ \A u \in Threads : u # t => pc'[u] = pc[u]
    BY <1>0, <2>2
  <2>4. pc[t] = "relock" => pc'[t] = "put"
    BY <1>0, <2>2
  <2>5. pc[t] \in {"lock", "relock"} /\ pc'[t] \in {"lookup", "put"}
    BY <1>0, <2>2
  <2> QED
    BY <1>0, <2>1, <2>3, <2>4, <2>5
<1>3. ASSUME NEW t \in Threads, Lookup(t) PROVE OpenInv'
  <2>1. alive
    BY <1>3 DEF Lookup
  <2>2. ~ Hit(t) => opens[t][path[t]] = 0
    BY <1>0, <1>3, <2>1 DEF Lookup, Hit, InTable
  <2>3. UNCHANGED <<table, path, alive, opens>> /\ pc[t] = "lookup"
    BY <1>3 DEF Lookup, env
  <2>4. CASE Hit(t)
    <3>1. pc' = [pc EXCEPT ![t] = "unlock_hit"]
      BY <1>3, <2>4 DEF Lookup
    <3> QED
      BY <1>0, <2>1, <2>3, <3>1
  <2>5. CASE ~ Hit(t)
    <3>1. pc' = [pc EXCEPT ![t] = "unlock_miss"]
      BY <1>3, <2>5 DEF Lookup
    <3> QED
      BY <1>0, <2>1, <2>2, <2>3, <2>5, <3>1
  <2> QED
    BY <2>4, <2>5
<1>4. ASSUME NEW t \in Threads, UnlockHit(t) \/ UnlockMiss(t) \/ Unlock(t) PROVE OpenInv'
  <2>1. UNCHANGED <<table, path, alive, opens>>
    BY <1>4 DEF UnlockHit, UnlockMiss, Unlock, env
  <2>2. \/ pc[t] \in {"unlock_hit", "unlock"} /\ pc' = [pc EXCEPT ![t] = "idle"]
        \/ pc[t] = "unlock_miss" /\ pc' = [pc EXCEPT ![t] = "open"]
    BY <1>4 DEF UnlockHit, UnlockMiss, Unlock, Give
  <2>3. alive /\ \A u \in Threads : u # t => pc'[u] = pc[u]
    BY <1>0, <2>2
  <2>4. /\ pc[t] \in {"unlock_hit", "unlock", "unlock_miss"}
        /\ pc'[t] = "idle" \/ (pc'[t] = "open" /\ opens[t][path[t]] = 0)
    BY <1>0, <2>2
  <2> QED
    BY <1>0, <2>1, <2>3, <2>4
<1>5. ASSUME NEW t \in Threads, Open(t) PROVE OpenInv'
  <2>1. /\ pc[t] = "open" /\ opens[t][path[t]] = 0 /\ alive
        /\ opens' = [opens EXCEPT ![t][path[t]] = @ + 1]
        /\ Goto(t, "map") \/ Goto(t, "relock")
        /\ UNCHANGED <<table, path, alive>>
    BY <1>5 DEF Open, env
  <2>2. opens'[t][path[t]] = 1
    BY <1>0, <2>1
  <2>3. \A u \in Threads, p \in Paths : opens'[u][p] = opens[u][p] \/ (u = t /\ p = path[t])
    BY <1>0, <2>1
  <2>4. \A u \in Threads : pc'[u] = pc[u] \/ (u = t /\ pc'[u] \in {"map", "relock"})
    BY <1>0, <2>1
  <2> QED
    BY <1>0, <2>1, <2>2, <2>3, <2>4
<1>6. ASSUME NEW t \in Threads, Map(t) PROVE OpenInv'
  <2>1. /\ pc[t] = "map"
        /\ Goto(t, "close") \/ Goto(t, "relock")
        /\ UNCHANGED <<table, path, alive, opens>>
    BY <1>6 DEF Map, env
  <2> QED
    BY <1>0, <2>1
<1>7. ASSUME NEW t \in Threads, Close(t) PROVE OpenInv'
  <2>1. pc[t] = "close" /\ Goto(t, "relock") /\ UNCHANGED <<table, path, alive, opens>>
    BY <1>7 DEF Close, env
  <2> QED
    BY <1>0, <2>1
<1>8. ASSUME NEW t \in Threads, Put(t) PROVE OpenInv'
  <2>1. /\ pc[t] = "put" /\ Goto(t, "store") /\ UNCHANGED <<path, alive, opens>>
        /\ \/ table' = table /\ table[path[t]] # Absent
           \/ table' = [table EXCEPT ![path[t]] = Garbage]
    BY <1>8 DEF Put, PutAndHold, InTable, env
  <2>2. table'[path[t]] # Absent /\ \A p \in Paths : p # path[t] => table'[p] = table[p]
    BY <1>0, <2>1, MemoriesDistinct
  <2> QED
    BY <1>0, <2>1, <2>2
<1>9. ASSUME NEW t \in Threads, Store(t) PROVE OpenInv'
  <2>1. /\ pc[t] = "store" /\ Goto(t, "unlock") /\ UNCHANGED <<path, alive, opens>>
        /\ table' = [table EXCEPT ![path[t]] = resmem[t]]
    BY <1>9 DEF Store, StoreValue, env
  <2>2. resmem[t] # Absent
    BY <1>0, MemoriesDistinct
  <2> QED
    BY <1>0, <2>1, <2>2
<1>10. ASSUME NEW p \in Paths, Deploy(p) PROVE OpenInv'
  BY <1>10 DEF Deploy, threadState
<1>11. ASSUME Release PROVE OpenInv'
  BY <1>0, <1>11 DEF Release, threadState
<1>12. ASSUME UNCHANGED vars PROVE OpenInv'
  BY <1>12 DEF vars, threadState, env
<1> QED
  BY <1>1, <1>2, <1>3, <1>4, <1>5, <1>6, <1>7, <1>8, <1>9, <1>10, <1>11, <1>12
     DEF Next, Step, Stopped

\* No thread runs open_resource twice on a path, so what the double insertion
\* and the failures leak is bounded.
THEOREM OpensOnceAlways == Spec => []OpensOnce
<1>1. Init => LockInv /\ OpenInv
  BY InitLockInv, InitOpenInv
<1>2. (LockInv /\ OpenInv) /\ [Next]_vars => (LockInv /\ OpenInv)'
  BY NextLockInv, NextOpenInv
<1>3. LockInv /\ OpenInv => OpensOnce
  BY DEF OpenInv, OpensOnce
<1> QED
  BY <1>1, <1>2, <1>3, PTL DEF Spec

-----------------------------------------------------------------------------
(* The double insertion.  Whoever has put an entry into the table has      *)
(* opened the file, and is past the insertion.                             *)

\* A thread on its way from open() to the insertion of p.
Inserting(t, p) == path[t] = p /\ pc[t] \in {"map", "close", "relock", "put"}

RaceInv ==
    /\ \A t \in Threads : pc[t] \in {"map", "close", "relock", "put", "store"}
                              => opens[t][path[t]] > 0
    /\ \A p \in Paths : alive /\ table[p] # Absent
                              => \E u \in Threads : opens[u][p] > 0 /\ ~Inserting(u, p)

\* A step that leaves the table and the counters alone, and starts nothing.
LEMMA QuietStep ==
    ASSUME RaceInv, TypeOK, UNCHANGED <<table, opens, alive>>, NEW t \in Threads,
           \A u \in Threads \ {t} : pc'[u] = pc[u] /\ path'[u] = path[u],
           \/ pc'[t] \notin {"map", "close", "relock", "put", "store"}
           \/ /\ path'[t] = path[t]
              /\ pc[t] \in {"map", "close", "relock", "put"}
              /\ pc'[t] \in {"map", "close", "relock", "put"}
    PROVE  RaceInv'
<1>1. \A u \in Threads : pc'[u] \in {"map", "close", "relock", "put", "store"}
                              => opens'[u][path'[u]] > 0
  BY DEF RaceInv
<1>2. \A u \in Threads, p \in Paths : Inserting(u, p)' => Inserting(u, p)
  BY DEF Inserting
<1> QED
  BY <1>1, <1>2 DEF RaceInv

\* Every step keeps the invariant.
LEMMA NextRaceInv == LockInv /\ OpenInv /\ RaceInv /\ [Next]_vars => RaceInv'
<1> SUFFICES ASSUME LockInv, OpenInv, RaceInv, [Next]_vars PROVE RaceInv'
  OBVIOUS
<1>0. TypeOK
  BY DEF LockInv
<1> USE DEF TypeOK, Goto
<1>1. ASSUME NEW t \in Threads, NEW p \in Paths, Call(t, p) PROVE RaceInv'
  BY <1>0, <1>1, QuietStep DEF Call
<1>2. ASSUME NEW t \in Threads, Lock(t) \/ Relock(t) PROVE RaceInv'
  <2>1. UNCHANGED <<table, opens, alive, path>>
    BY <1>2 DEF Lock, Relock, env
  <2>2. \/ pc[t] = "lock" /\ pc' = [pc EXCEPT ![t] = "lookup"]
        \/ pc[t] = "relock" /\ pc' = [pc EXCEPT ![t] = "put"]
    BY <1>2 DEF Lock, Relock, Take
  <2> QED
    BY <1>0, <2>1, <2>2, QuietStep
<1>3. ASSUME NEW t \in Threads, Lookup(t) PROVE RaceInv'
  <2>1. /\ UNCHANGED <<table, opens, alive, path>>
        /\ Goto(t, "unlock_hit") \/ Goto(t, "unlock_miss")
    BY <1>3 DEF Lookup, env
  <2> QED
    BY <1>0, <2>1, QuietStep
<1>4. ASSUME NEW t \in Threads, UnlockHit(t) \/ UnlockMiss(t) \/ Unlock(t) PROVE RaceInv'
  <2>1. /\ UNCHANGED <<table, opens, alive, path>>
        /\ Goto(t, "idle") \/ Goto(t, "open")
    BY <1>4 DEF UnlockHit, UnlockMiss, Unlock, Give, env
  <2> QED
    BY <1>0, <2>1, QuietStep
<1>5. ASSUME NEW t \in Threads, Open(t) PROVE RaceInv'
  <2>1. /\ pc[t] = "open" /\ opens[t][path[t]] = 0
        /\ opens' = [opens EXCEPT ![t][path[t]] = @ + 1]
        /\ Goto(t, "map") \/ Goto(t, "relock")
        /\ UNCHANGED <<table, path, alive>>
    BY <1>5 DEF Open, OpenInv, env
  <2>2. opens'[t][path[t]] = 1
    BY <1>0, <2>1
  <2>3. \A u \in Threads, p \in Paths :
            opens'[u][p] = opens[u][p] \/ (u = t /\ p = path[t])
    BY <1>0, <2>1
  <2>4. \A u \in Threads : pc'[u] = pc[u] \/ u = t
    BY <1>0, <2>1
  <2>5. ASSUME NEW u \in Threads, NEW p \in Paths, opens[u][p] > 0, ~Inserting(u, p)
        PROVE  opens'[u][p] > 0 /\ ~Inserting(u, p)'
    <3>1. u # t \/ p # path[t]
      BY <2>1, <2>5
    <3> QED
      BY <2>1, <2>3, <2>4, <2>5, <3>1 DEF Inserting
  <2>6. \A u \in Threads : pc'[u] \in {"map", "close", "relock", "put", "store"}
                               => opens'[u][path'[u]] > 0
    <3> SUFFICES ASSUME NEW u \in Threads,
                        pc'[u] \in {"map", "close", "relock", "put", "store"}
                 PROVE  opens'[u][path[u]] > 0
      BY <2>1
    <3>1. CASE u = t
      BY <2>2, <3>1
    <3>2. CASE u # t
      BY <1>0, <2>3, <2>4, <3>2 DEF RaceInv
    <3> QED
      BY <3>1, <3>2
  <2> QED
    BY <2>1, <2>5, <2>6 DEF RaceInv
<1>6. ASSUME NEW t \in Threads, Map(t) PROVE RaceInv'
  <2>1. /\ pc[t] = "map"
        /\ Goto(t, "close") \/ Goto(t, "relock")
        /\ UNCHANGED <<table, path, alive, opens>>
    BY <1>6 DEF Map, env
  <2> QED
    BY <1>0, <2>1, QuietStep
<1>7. ASSUME NEW t \in Threads, Close(t) PROVE RaceInv'
  <2>1. pc[t] = "close" /\ Goto(t, "relock") /\ UNCHANGED <<table, path, alive, opens>>
    BY <1>7 DEF Close, env
  <2> QED
    BY <1>0, <2>1, QuietStep
<1>8. ASSUME NEW t \in Threads, Put(t) \/ Store(t) PROVE RaceInv'
  <2>1. /\ pc[t] \in {"put", "store"}
        /\ Goto(t, "store") \/ Goto(t, "unlock")
        /\ UNCHANGED <<path, alive, opens>>
        /\ \A p \in Paths : p # path[t] => table'[p] = table[p]
    BY <1>0, <1>8 DEF Put, PutAndHold, Store, StoreValue, env
  <2>2. opens[t][path[t]] > 0
    BY <2>1 DEF RaceInv
  <2>3. \A u \in Threads : pc'[u] = pc[u] \/ (u = t /\ pc'[u] \in {"store", "unlock"})
    BY <1>0, <2>1
  <2>4. \A u \in Threads, p \in Paths : Inserting(u, p)' => Inserting(u, p)
    BY <2>1, <2>3 DEF Inserting
  <2>5. ~Inserting(t, path[t])'
    BY <1>0, <2>1 DEF Inserting
  <2>6. ASSUME NEW p \in Paths, alive', table'[p] # Absent
        PROVE  \E u \in Threads : opens'[u][p] > 0 /\ ~Inserting(u, p)'
    <3>1. CASE p = path[t]
      BY <2>1, <2>2, <2>5, <3>1
    <3>2. CASE p # path[t]
      <4>1. PICK u \in Threads : opens[u][p] > 0 /\ ~Inserting(u, p)
        BY <2>1, <2>6, <3>2 DEF RaceInv
      <4> QED
        BY <2>1, <2>4, <4>1
    <3> QED
      BY <3>1, <3>2
  <2>7. ASSUME NEW u \in Threads, pc'[u] \in {"map", "close", "relock", "put", "store"}
        PROVE  opens'[u][path'[u]] > 0
    BY <2>1, <2>2, <2>3, <2>7 DEF RaceInv
  <2> QED
    BY <2>6, <2>7 DEF RaceInv
<1>9. ASSUME NEW p \in Paths, Deploy(p) PROVE RaceInv'
  BY <1>9 DEF Deploy, RaceInv, Inserting, threadState
<1>10. ASSUME Release PROVE RaceInv'
  BY <1>10 DEF Release, RaceInv, threadState
<1>11. ASSUME UNCHANGED vars PROVE RaceInv'
  BY <1>11 DEF vars, RaceInv, Inserting, threadState, env
<1> QED
  BY <1>1, <1>2, <1>3, <1>4, <1>5, <1>6, <1>7, <1>8, <1>9, <1>10, <1>11
     DEF Next, Step, Stopped

\* kh_put finds its key in the table only when a second thread has opened the
\* same file.
THEOREM DoubleInsertOnlyInRace == Spec => []DoubleInsertNeedsRace
<1> DEFINE Inv == LockInv /\ OpenInv /\ RaceInv
<1>1. Init => Inv
  BY InitLockInv, InitOpenInv DEF Init, RaceInv
<1>2. Inv /\ [Next]_vars => Inv'
  BY NextLockInv, NextOpenInv, NextRaceInv
<1>3. ASSUME Inv PROVE DoubleInsertNeedsRace
  <2> SUFFICES ASSUME NEW t \in Threads, pc[t] = "put", InTable(path[t])
               PROVE  \E u \in Threads \ {t} : opens[u][path[t]] > 0
    BY DEF DoubleInsertNeedsRace
  <2>1. alive /\ path[t] \in Paths
    BY <1>3 DEF OpenInv, LockInv, TypeOK
  <2>2. PICK u \in Threads : opens[u][path[t]] > 0 /\ ~Inserting(u, path[t])
    BY <1>3, <2>1 DEF RaceInv, InTable
  <2> QED
    BY <2>2 DEF Inserting
<1> QED
  BY <1>1, <1>2, <1>3, PTL DEF Spec

-----------------------------------------------------------------------------
(* The views that are given out.  The local resmem is part of the          *)
(* invariant: it is what a hit has copied and what an insertion will store.*)

ViewInv ==
    alive => /\ ViewsStayMapped
             /\ \A t \in Threads : resmem[t] \in {Nothing, Failed} \union mapped

\* The initial state has the invariant.
LEMMA InitViewInv == Init => ViewInv
  BY DEF Init, ViewInv, ViewsStayMapped

\* Every step keeps it.
LEMMA NextViewInv == LockInv /\ OpenInv /\ ViewInv /\ [Next]_vars => ViewInv'
<1> SUFFICES ASSUME LockInv, OpenInv, ViewInv, [Next]_vars PROVE ViewInv'
  OBVIOUS
<1>0. TypeOK
  BY DEF LockInv
<1> USE DEF ViewInv, ViewsStayMapped, TypeOK
<1>1. ASSUME NEW t \in Threads, NEW p \in Paths, Call(t, p) PROVE ViewInv'
  BY <1>0, <1>1 DEF Call, resources
<1>2. ASSUME NEW t \in Threads, Lock(t) \/ Relock(t) PROVE ViewInv'
  BY <1>0, <1>2 DEF Lock, Relock, env, resources
<1>3. ASSUME NEW t \in Threads, Lookup(t) PROVE ViewInv'
  <2>1. CASE Hit(t)
    <3>1. alive => table[path[t]] \in {Nothing, Failed} \union mapped
      BY <1>0, <1>3, <2>1, NoGarbageSeen DEF Lookup, Hit, InTable, Critical
    <3> QED
      BY <1>0, <1>3, <2>1, <3>1 DEF Lookup, env, resources
  <2>2. CASE ~ Hit(t)
    BY <1>0, <1>3, <2>2 DEF Lookup, env, resources
  <2> QED
    BY <2>1, <2>2
<1>4. ASSUME NEW t \in Threads, UnlockHit(t) \/ UnlockMiss(t) \/ Unlock(t) PROVE ViewInv'
  BY <1>0, <1>4 DEF UnlockHit, UnlockMiss, Unlock, env, resources
<1>5. ASSUME NEW t \in Threads, Open(t) PROVE ViewInv'
  <2>1. /\ res' = res \/ res' = [res EXCEPT ![t] = Nothing]
        /\ UNCHANGED <<table, resmem, mapped, alive>>
    BY <1>5 DEF Open, env
  <2> QED
    BY <1>0, <2>1
<1>6. ASSUME NEW t \in Threads, Map(t) PROVE ViewInv'
  <2>1. CASE path[t] \in Unmappable
    <3>1. /\ resmem' = [resmem EXCEPT ![t] = Failed]
          /\ res' = [res EXCEPT ![t] = Failed]
          /\ UNCHANGED <<table, alive, mapped>>
      BY <1>6, <2>1 DEF Map, env
    <3> QED
      BY <1>0, <3>1
  <2>2. CASE path[t] \notin Unmappable
    <3>1. PICK r : /\ resmem' = [resmem EXCEPT ![t] = r]
                   /\ mapped' = mapped \union {r}
                   /\ UNCHANGED <<table, alive, res>>
      BY <1>6, <2>2 DEF Map, env
    <3> QED
      BY <1>0, <3>1
  <2> QED
    BY <2>1, <2>2
<1>7. ASSUME NEW t \in Threads, Close(t) PROVE ViewInv'
  BY <1>0, <1>7 DEF Close, env
<1>8. ASSUME NEW t \in Threads, Put(t) PROVE ViewInv'
  <2>1. /\ table' = table \/ table' = [table EXCEPT ![path[t]] = Garbage]
        /\ UNCHANGED <<resmem, res, mapped, alive>>
    BY <1>8 DEF Put, env, resources
  <2> QED
    BY <1>0, <2>1
<1>9. ASSUME NEW t \in Threads, Store(t) PROVE ViewInv'
  BY <1>0, <1>9 DEF Store, StoreValue, KeepOld, env
<1>10. ASSUME NEW p \in Paths, Deploy(p) PROVE ViewInv'
  BY <1>10 DEF Deploy, threadState, resources
<1>11. ASSUME Release PROVE ViewInv'
  BY <1>11 DEF Release
<1>12. ASSUME UNCHANGED vars PROVE ViewInv'
  BY <1>12 DEF vars, threadState, resources, env
<1> QED
  BY <1>1, <1>2, <1>3, <1>4, <1>5, <1>6, <1>7, <1>8, <1>9, <1>10, <1>11, <1>12
     DEF Next, Step, Stopped

\* As long as the server runs, every view that was given out is of a region
\* that is still mapped.
THEOREM ViewsAlwaysMapped == Spec => []ViewsStayMapped
<1> DEFINE Inv == LockInv /\ OpenInv /\ ViewInv
<1>1. Init => Inv
  BY InitLockInv, InitOpenInv, InitViewInv
<1>2. Inv /\ [Next]_vars => Inv'
  BY NextLockInv, NextOpenInv, NextViewInv
<1>3. Inv => ViewsStayMapped
  BY DEF ViewInv, ViewsStayMapped
<1> QED
  BY <1>1, <1>2, <1>3, PTL DEF Spec

-----------------------------------------------------------------------------
(* What is lost.  Whoever maps a file holds the region until the table has *)
(* it, and only a second opener can overwrite it there.                    *)

\* Where a thread holds the region it has mapped.
Carrying == {"close", "relock", "put", "store"}

Held(t, p) == table[p] = Region(t, p) \/ (path[t] = p /\ pc[t] \in Carrying)

LeakInv ==
    /\ \A t \in Threads, p \in Paths : Region(t, p) \in mapped => opens[t][p] > 0
    /\ \A t \in Threads : pc[t] = "map" => Region(t, path[t]) \notin mapped
    /\ \A t \in Threads : pc[t] \in Carrying /\ Region(t, path[t]) \in mapped
                              => resmem[t] = Region(t, path[t])
    /\ \A t \in Threads, p \in Paths : Region(t, p) \in mapped
           => Held(t, p) \/ \E u \in Threads \ {t} : opens[u][p] > 0

LEMMA RegionInjective ==
    \A t, u \in Threads, p, q \in Paths : Region(t, p) = Region(u, q) => t = u /\ p = q
  BY DEF Region

\* A step that leaves the table, the regions and the counters alone and neither
\* takes a region nor gives one up.
LEMMA LeakQuiet ==
    ASSUME LeakInv, TypeOK, UNCHANGED <<table, mapped, opens>>, NEW t \in Threads,
           \A u \in Threads \ {t} : pc'[u] = pc[u] /\ path'[u] = path[u]
                                        /\ resmem'[u] = resmem[u],
           \/ pc[t] \notin Carrying /\ pc'[t] \notin Carrying \union {"map"}
           \/ /\ path'[t] = path[t] /\ resmem'[t] = resmem[t]
              /\ pc[t] \in Carrying /\ pc'[t] \in Carrying
    PROVE  LeakInv'
<1>1. \A u \in Threads : pc'[u] = "map" => pc[u] = "map" /\ path'[u] = path[u]
  BY DEF Carrying
<1>2. \A u \in Threads : pc'[u] \in Carrying
          => pc[u] \in Carrying /\ path'[u] = path[u] /\ resmem'[u] = resmem[u]
  OBVIOUS
<1>3. \A u \in Threads : pc[u] \in Carrying => pc'[u] \in Carrying /\ path'[u] = path[u]
  OBVIOUS
<1>4. \A u \in Threads, p \in Paths : Held(u, p) => Held(u, p)'
  BY <1>3 DEF Held
<1> QED
  BY <1>1, <1>2, <1>4 DEF LeakInv

\* Every step keeps the invariant.
LEMMA NextLeakInv == LockInv /\ OpenInv /\ RaceInv /\ LeakInv /\ [Next]_vars => LeakInv'
<1> SUFFICES ASSUME LockInv, OpenInv, RaceInv, LeakInv, [Next]_vars PROVE LeakInv'
  OBVIOUS
<1>0. TypeOK
  BY DEF LockInv
<1> USE DEF TypeOK, Goto
<1>1. ASSUME NEW t \in Threads, NEW p \in Paths, Call(t, p) PROVE LeakInv'
  BY <1>0, <1>1, LeakQuiet DEF Call, resources, Carrying
<1>2. ASSUME NEW t \in Threads, Lock(t) \/ Relock(t) PROVE LeakInv'
  <2>1. UNCHANGED <<table, mapped, opens, path, resmem>>
    BY <1>2 DEF Lock, Relock, resources
  <2>2. \/ pc[t] = "lock" /\ pc' = [pc EXCEPT ![t] = "lookup"]
        \/ pc[t] = "relock" /\ pc' = [pc EXCEPT ![t] = "put"]
    BY <1>2 DEF Lock, Relock, Take
  <2> QED
    BY <1>0, <2>1, <2>2, LeakQuiet DEF Carrying
<1>3. ASSUME NEW t \in Threads, Lookup(t) PROVE LeakInv'
  <2>1. /\ UNCHANGED <<table, mapped, opens, path>> /\ pc[t] = "lookup"
        /\ Goto(t, "unlock_hit") \/ Goto(t, "unlock_miss")
        /\ \A u \in Threads \ {t} : resmem'[u] = resmem[u]
    BY <1>0, <1>3 DEF Lookup, resources
  <2> QED
    BY <1>0, <2>1, LeakQuiet DEF Carrying
<1>4. ASSUME NEW t \in Threads, UnlockHit(t) \/ UnlockMiss(t) \/ Unlock(t) PROVE LeakInv'
  <2>1. /\ UNCHANGED <<table, mapped, opens, path, resmem>>
        /\ pc[t] \in {"unlock_hit", "unlock_miss", "unlock"}
        /\ Goto(t, "idle") \/ Goto(t, "open")
    BY <1>4 DEF UnlockHit, UnlockMiss, Unlock, Give, resources
  <2> QED
    BY <1>0, <2>1, LeakQuiet DEF Carrying
<1>5. ASSUME NEW t \in Threads, Open(t) PROVE LeakInv'
  <2>1. /\ pc[t] = "open" /\ opens[t][path[t]] = 0
        /\ opens' = [opens EXCEPT ![t][path[t]] = @ + 1]
        /\ Goto(t, "map") \/ Goto(t, "relock")
        /\ UNCHANGED <<table, path, resmem, mapped>>
    BY <1>5 DEF Open, OpenInv, env
  <2>2. Region(t, path[t]) \notin mapped
    BY <1>0, <2>1 DEF LeakInv
  <2>3. \A u \in Threads, p \in Paths : opens[u][p] > 0 => opens'[u][p] > 0
    BY <1>0, <2>1
  <2>4. \A u \in Threads : pc'[u] = pc[u] \/ u = t
    BY <1>0, <2>1
  <2>5. \A u \in Threads, p \in Paths : Held(u, p) => Held(u, p)'
    BY <2>1, <2>4 DEF Held, Carrying
  <2>6. \A u \in Threads : pc'[u] = "map" => Region(u, path'[u]) \notin mapped'
    BY <2>1, <2>2, <2>4 DEF LeakInv
  <2>7. \A u \in Threads : pc'[u] \in Carrying /\ Region(u, path'[u]) \in mapped'
                               => resmem'[u] = Region(u, path'[u])
    BY <2>1, <2>2, <2>4 DEF LeakInv
  <2>8. \A u \in Threads, p \in Paths : Region(u, p) \in mapped' =>
            opens'[u][p] > 0 /\ (Held(u, p)' \/ \E v \in Threads \ {u} : opens'[v][p] > 0)
    BY <2>1, <2>3, <2>5 DEF LeakInv
  <2> QED
    BY <2>6, <2>7, <2>8 DEF LeakInv
<1>6. ASSUME NEW t \in Threads, Map(t) PROVE LeakInv'
  <2>0. pc[t] = "map" /\ path[t] \in Paths /\ opens[t][path[t]] > 0
    BY <1>0, <1>6 DEF Map, RaceInv
  <2>1. CASE path[t] \in Unmappable
    <3>1. /\ resmem' = [resmem EXCEPT ![t] = Failed]
          /\ Goto(t, "relock") /\ UNCHANGED <<table, path, opens, mapped>>
      BY <1>6, <2>1 DEF Map, env
    <3>2. Region(t, path[t]) \notin mapped
      BY <2>0 DEF LeakInv
    <3>3. \A u \in Threads : u = t \/ (pc'[u] = pc[u] /\ resmem'[u] = resmem[u])
      BY <1>0, <3>1
    <3>4. pc'[t] = "relock"
      BY <1>0, <3>1
    <3>5. \A u \in Threads, p \in Paths : Held(u, p) => Held(u, p)'
      BY <2>0, <3>1, <3>3 DEF Held, Carrying
    <3> QED
      BY <3>1, <3>2, <3>3, <3>4, <3>5 DEF LeakInv
  <2>2. CASE path[t] \notin Unmappable
    <3> DEFINE R == Region(t, path[t])
    <3>1. /\ resmem' = [resmem EXCEPT ![t] = R] /\ mapped' = mapped \union {R}
          /\ Goto(t, "close") /\ UNCHANGED <<table, path, opens>>
      BY <1>6, <2>2 DEF Map, env
    <3>2. \A u \in Threads, p \in Paths : Region(u, p) = R => u = t /\ p = path[t]
      BY <2>0, RegionInjective
    <3>3. \A u \in Threads : u = t \/ (pc'[u] = pc[u] /\ resmem'[u] = resmem[u])
      BY <1>0, <3>1
    <3>4. pc'[t] = "close" /\ resmem'[t] = Region(t, path'[t])
      BY <1>0, <3>1
    <3> HIDE DEF R
    <3>5. \A u \in Threads, p \in Paths : Held(u, p) => Held(u, p)'
      BY <2>0, <3>1, <3>3 DEF Held, Carrying
    <3>6. Held(t, path[t])'
      BY <3>1, <3>4 DEF Held, Carrying
    <3>7. \A u \in Threads, p \in Paths : Region(u, p) \in mapped' =>
              opens'[u][p] > 0 /\ (Held(u, p)' \/ \E v \in Threads \ {u} : opens'[v][p] > 0)
      <4> SUFFICES ASSUME NEW u \in Threads, NEW p \in Paths, Region(u, p) \in mapped'
                   PROVE  opens'[u][p] > 0 /\ (Held(u, p)' \/ \E v \in Threads \ {u} : opens'[v][p] > 0)
        OBVIOUS
      <4>1. CASE Region(u, p) = R
        BY <2>0, <3>1, <3>2, <3>6, <4>1
      <4>2. CASE Region(u, p) # R
        BY <3>1, <3>5, <4>2 DEF LeakInv
      <4> QED
        BY <4>1, <4>2
    <3>8. \A u \in Threads : path[u] \in Paths
      BY <1>0
    <3>9. \A u \in Threads : pc'[u] = "map" => Region(u, path'[u]) \notin mapped'
      BY <3>1, <3>2, <3>3, <3>4, <3>8 DEF LeakInv
    <3>10. \A u \in Threads : pc'[u] \in Carrying /\ Region(u, path'[u]) \in mapped'
                                 => resmem'[u] = Region(u, path'[u])
      BY <3>1, <3>2, <3>3, <3>4, <3>8 DEF LeakInv
    <3> QED
      BY <3>7, <3>9, <3>10 DEF LeakInv
  <2> QED
    BY <2>1, <2>2
<1>7. ASSUME NEW t \in Threads, Close(t) PROVE LeakInv'
  <2>1. /\ pc[t] = "close" /\ Goto(t, "relock")
        /\ UNCHANGED <<table, path, resmem, opens, mapped>>
    BY <1>7 DEF Close, env
  <2> QED
    BY <1>0, <2>1, LeakQuiet DEF Carrying
<1>8. ASSUME NEW t \in Threads, Put(t) PROVE LeakInv'
  <2>1. /\ pc[t] = "put" /\ Goto(t, "store") /\ UNCHANGED <<path, opens, resmem, mapped>>
        /\ \A p \in Paths : table'[p] = table[p] \/ table[p] = Absent
    BY <1>0, <1>8 DEF Put, PutAndHold, InTable, resources
  <2>2. \A u \in Threads : pc'[u] = pc[u] \/ (u = t /\ pc'[u] = "store")
    BY <1>0, <2>1
  <2>3. \A u \in Threads, p \in Paths : Held(u, p) => Held(u, p)'
    BY <1>0, <2>1, <2>2, MemoriesDistinct DEF Held, Carrying
  <2> QED
    BY <2>1, <2>2, <2>3 DEF LeakInv, Carrying
<1>9. ASSUME NEW t \in Threads, Store(t) PROVE LeakInv'
  <2>1. /\ pc[t] = "store" /\ Goto(t, "unlock") /\ UNCHANGED <<path, opens, resmem, mapped>>
        /\ table' = [table EXCEPT ![path[t]] = resmem[t]]
    BY <1>9 DEF Store, StoreValue, KeepOld, env
  <2>2. \A u \in Threads : (u = t /\ pc'[u] = "unlock") \/ (u # t /\ pc'[u] = pc[u])
    BY <1>0, <2>1
  <2>3. opens[t][path[t]] > 0 /\ path[t] \in Paths
    BY <1>0, <2>1 DEF RaceInv
  <2>4. ASSUME NEW u \in Threads, NEW p \in Paths, Region(u, p) \in mapped
        PROVE  Held(u, p)' \/ \E v \in Threads \ {u} : opens'[v][p] > 0
    <3>1. CASE p = path[t] /\ u = t
      <4>1. table'[p] = Region(t, p)
        BY <1>0, <2>1, <2>4, <3>1 DEF LeakInv, Carrying
      <4> QED
        BY <3>1, <4>1 DEF Held
    <3>2. CASE p = path[t] /\ u # t
      BY <2>1, <2>3, <3>2
    <3>3. CASE p # path[t]
      <4>1. table'[p] = table[p]
        BY <1>0, <2>1, <3>3
      <4>2. Held(u, p) => Held(u, p)'
        BY <2>1, <2>2, <3>3, <4>1 DEF Held
      <4> QED
        BY <2>1, <2>4, <4>2 DEF LeakInv
    <3> QED
      BY <3>1, <3>2, <3>3
  <2>5. \A u \in Threads : pc'[u] \in Carrying \union {"map"} => u # t /\ pc'[u] = pc[u]
    BY <2>2 DEF Carrying
  <2> QED
    BY <2>1, <2>4, <2>5 DEF LeakInv
<1>10. ASSUME NEW p \in Paths, Deploy(p) PROVE LeakInv'
  BY <1>10 DEF Deploy, threadState, resources, LeakInv, Held
<1>11. ASSUME Release PROVE LeakInv'
  <2>1. /\ \A t \in Threads : pc[t] = "idle"
        /\ mapped' = mapped \ {table[p] : p \in Paths}
        /\ UNCHANGED <<pc, path, opens>>
    BY <1>11 DEF Release, threadState
  <2>2. ASSUME NEW t \in Threads, NEW p \in Paths, Region(t, p) \in mapped'
        PROVE  opens'[t][p] > 0 /\ \E u \in Threads \ {t} : opens'[u][p] > 0
    <3>1. Region(t, p) \in mapped /\ ~Held(t, p)
      BY <2>1, <2>2 DEF Held, Carrying
    <3> QED
      BY <2>1, <3>1 DEF LeakInv
  <2> QED
    BY <2>1, <2>2 DEF LeakInv, Carrying
<1>12. ASSUME UNCHANGED vars PROVE LeakInv'
  BY <1>12 DEF vars, threadState, resources, LeakInv, Held
<1> QED
  BY <1>1, <1>2, <1>3, <1>4, <1>5, <1>6, <1>7, <1>8, <1>9, <1>10, <1>11, <1>12
     DEF Next, Step, Stopped

\* Overwriting an entry loses a mapping only when two threads have opened the
\* same file, and resource_getter_release gives back all the others.
THEOREM LeakOnlyInRace == Spec => []LeakNeedsRace
<1> DEFINE Inv == LockInv /\ OpenInv /\ RaceInv /\ LeakInv
<1>1. Init => Inv
  BY InitLockInv, InitOpenInv DEF Init, RaceInv, LeakInv, Carrying
<1>2. Inv /\ [Next]_vars => Inv'
  BY NextLockInv, NextOpenInv, NextRaceInv, NextLeakInv
<1>3. ASSUME Inv PROVE LeakNeedsRace
  <2> SUFFICES ASSUME NEW t \in Threads, NEW p \in Paths, Region(t, p) \in mapped,
                      ~Owned(Region(t, p))
               PROVE  \E u \in Threads \ {t} : opens[u][p] > 0
    BY DEF LeakNeedsRace
  <2>1. ASSUME path[t] = p, pc[t] \in Carrying PROVE FALSE
    <3>1. resmem[t] = Region(t, p)
      BY <1>3, <2>1 DEF LeakInv
    <3> QED
      BY <2>1, <3>1 DEF Owned, Carrying
  <2>2. ~Held(t, p)
    BY <2>1 DEF Held, Owned
  <2> QED
    BY <1>3, <2>2 DEF LeakInv
<1> QED
  BY <1>1, <1>2, <1>3, PTL DEF Spec

-----------------------------------------------------------------------------
(* Descriptors.                                                            *)

\* Every step keeps the bound of the descriptors.
LEMMA NextDescriptors == TypeOK /\ DescriptorsBounded /\ [Next]_vars => DescriptorsBounded'
<1> SUFFICES ASSUME TypeOK, DescriptorsBounded, [Next]_vars PROVE DescriptorsBounded'
  OBVIOUS
<1> USE DEF TypeOK, Goto, DescriptorsBounded
<1>1. ASSUME NEW t \in Threads, NEW p \in Paths, Call(t, p) PROVE DescriptorsBounded'
  BY <1>1 DEF Call, resources
<1>2. ASSUME NEW t \in Threads,
             Lock(t) \/ Lookup(t) \/ UnlockHit(t) \/ UnlockMiss(t) \/ Relock(t) \/ Put(t)
                 \/ Store(t) \/ Unlock(t)
      PROVE  DescriptorsBounded'
  <2>1. /\ UNCHANGED <<fds, path>> /\ pc[t] \notin {"map", "close"}
        /\ \A u \in Threads \ {t} : pc'[u] = pc[u]
    BY <1>2 DEF Lock, Lookup, UnlockHit, UnlockMiss, Relock, Put, Store, Unlock, Take, Give,
                PutAndHold, resources
  <2> QED
    BY <2>1
<1>3. ASSUME NEW t \in Threads, Open(t) PROVE DescriptorsBounded'
  <2>1. /\ pc[t] = "open" /\ UNCHANGED path
        /\ \/ fds' = fds \union {<<t, path[t]>>} /\ pc' = [pc EXCEPT ![t] = "map"]
           \/ fds' = fds /\ pc' = [pc EXCEPT ![t] = "relock"]
    BY <1>3 DEF Open
  <2> QED
    BY <2>1
<1>4. ASSUME NEW t \in Threads, Map(t) PROVE DescriptorsBounded'
  <2>1. /\ pc[t] = "map" /\ UNCHANGED <<path, fds>>
        /\ \/ path[t] \in Unmappable /\ pc' = [pc EXCEPT ![t] = "relock"]
           \/ pc' = [pc EXCEPT ![t] = "close"]
    BY <1>4 DEF Map
  <2> QED
    BY <2>1
<1>5. ASSUME NEW t \in Threads, Close(t) PROVE DescriptorsBounded'
  BY <1>5 DEF Close, CloseFd
<1>6. ASSUME NEW p \in Paths, Deploy(p) PROVE DescriptorsBounded'
  BY <1>6 DEF Deploy, threadState, resources
<1>7. ASSUME Release PROVE DescriptorsBounded'
  BY <1>7 DEF Release, threadState
<1>8. ASSUME UNCHANGED vars PROVE DescriptorsBounded'
  BY <1>8 DEF vars, threadState, resources
<1> QED
  BY <1>1, <1>2, <1>3, <1>4, <1>5, <1>6, <1>7, <1>8 DEF Next, Step, Stopped

\* The open descriptors are those of calls under way and those of files that
\* could not be mapped: no other return of open_resource leaves one open.
THEOREM DescriptorsAlwaysBounded == Spec => []DescriptorsBounded
<1>1. Init => DescriptorsBounded
  BY DEF Init, DescriptorsBounded
<1> QED
  BY <1>1, TypeAlways, NextDescriptors, PTL DEF Spec
=============================================================================
