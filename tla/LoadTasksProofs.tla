--------------------------- MODULE LoadTasksProofs ---------------------------
(***************************************************************************)
(* The tasks of a slave for any number of users, clients, hashes, retries  *)
(* and tasks: types, the first reads of the ring, the client pools, what   *)
(* the ring holds, and the statistics.                                     *)
(***************************************************************************)
EXTENDS LoadTasks, SequenceTheorems, FiniteSetTheorems, TLAPS

USE TasksAssumption DEF TasksAssumption

\* How many clients a user holds at each place.
Hands ==
    \A u \in Users :
        /\ pc[u] = "decide" => job[u].kind = "receipt"
        /\ pc[u] \in {"idle", "decide"} => job[u].held = <<>>
        /\ pc[u] = "alloc" => Len(job[u].held) < Needs(job[u].kind)
        /\ pc[u] \notin {"idle", "decide", "alloc"}
              => Len(job[u].held) \in 1..Needs(job[u].kind)

----------------------------------------------------------------------------
(* Types. *)

\* What the operations of the pool return.
LEMMA PoolOps ==
    ASSUME NEW p \in Pool
    PROVE  /\ Given(p) \in Nat /\ Alloc(p) \in Pool
           /\ \A c \in Nat : Free(p, c) \in Pool
<1>1. p.free \in Seq(Nat) /\ p.cnt \in Nat
  BY DEF Pool
<1>2. p.free # <<>> => Head(p.free) \in Nat /\ Tail(p.free) \in Seq(Nat)
  BY <1>1, HeadTailProperties
<1>3. \A c \in Nat : Append(p.free, c) \in Seq(Nat)
  BY <1>1, AppendProperties
<1>4. \A c \in Nat : Free(p, c) \in Pool
  BY <1>1, <1>3 DEF Pool, Free
<1>5. CASE p.free = <<>>
  BY <1>1, <1>4, <1>5 DEF Pool, Given, Alloc
<1>6. CASE p.free # <<>>
  BY <1>1, <1>2, <1>4, <1>6 DEF Pool, Given, Alloc
<1> QED
  BY <1>5, <1>6

\* A client a task asks for, and one it gives back, has its pool.
LEMMA PoolName ==
    ASSUME NEW kind \in Kinds, NEW i \in 1..Needs(kind)
    PROVE  <<kind, i>> \in PoolNames
  BY DEF PoolNames

LEMMA IdleIsJob == Idle \in Job
<1>1. (CHOOSE kind \in Kinds : TRUE) \in Kinds
  OBVIOUS
<1>2. <<>> \in Seq(Nat)
  BY EmptySeq
<1> QED
  BY <1>1, <1>2 DEF Idle, Job

\* What a task consists of.
LEMMA JobParts ==
    ASSUME TypeOK, NEW u \in Users
    PROVE  /\ job[u] \in Job /\ job[u].kind \in Kinds /\ job[u].task \in Nat
           /\ job[u].role \in {"send", "read"}
           /\ job[u].held \in Seq(Nat) /\ Len(job[u].held) \in Nat
<1>1. job[u] \in Job
  BY DEF TypeOK
<1>2. /\ job[u].kind \in Kinds /\ job[u].task \in Nat
      /\ job[u].role \in {"send", "read"} /\ job[u].held \in Seq(Nat)
  BY <1>1 DEF Job
<1> QED
  BY <1>1, <1>2, LenProperties

\* The places of one user and the two mutexes after a step of that user.
LEMMA AllocTypes ==
    ASSUME TypeOK, Hands, NEW u \in Users, AllocClient(u)
    PROVE  TypeOK' /\ Hands'
<1> DEFINE p == <<job[u].kind, Len(job[u].held) + 1>>
<1>1. /\ job[u] \in Job /\ job[u].held \in Seq(Nat) /\ Len(job[u].held) \in Nat
      /\ job[u].kind \in Kinds /\ Needs(job[u].kind) \in {1, 2}
      /\ job[u].role \in {"send", "read"}
  BY JobParts DEF Needs
<1>2. p \in PoolNames
  <2>1. Len(job[u].held) < Needs(job[u].kind)
    BY DEF AllocClient, Hands
  <2>2. Len(job[u].held) + 1 \in 1..Needs(job[u].kind)
    BY <1>1, <2>1
  <2> QED
    BY <1>1, <2>2, PoolName
<1>3. Given(pools[p]) \in Nat /\ Alloc(pools[p]) \in Pool
  BY <1>2, PoolOps DEF TypeOK
<1> DEFINE new == Append(job[u].held, Given(pools[p]))
<1>4. new \in Seq(Nat) /\ Len(new) = Len(job[u].held) + 1
  BY <1>1, <1>3, AppendProperties
<1>5. job' = [job EXCEPT ![u].held = new]
  BY DEF AllocClient
<1>6. job' \in [Users -> Job] /\ job'[u].held = new
  BY <1>1, <1>4, <1>5 DEF TypeOK, Job
<1>7. /\ pc' \in [Users -> Places]
      /\ pc'[u] = IF p[2] < Needs(p[1]) THEN "alloc" ELSE job[u].role
  BY <1>1 DEF TypeOK, AllocClient, Goto, Places
<1>8. \A v \in Users : v # u => pc'[v] = pc[v] /\ job'[v] = job[v]
  BY <1>5 DEF TypeOK, AllocClient, Goto
<1>9. /\ job'[u].task = job[u].task /\ job'[u].kind = job[u].kind
      /\ pc'[u] \in {"alloc", "send", "read"} /\ pc[u] = "alloc"
  <2>1. job'[u].task = job[u].task /\ job'[u].kind = job[u].kind
    BY <1>1, <1>5 DEF TypeOK
  <2> QED
    BY <1>1, <1>7, <2>1 DEF AllocClient
<1>10. pools' \in [PoolNames -> Pool]
  BY <1>2, <1>3 DEF TypeOK, AllocClient
<1>11. TypeOK'
  BY <1>6, <1>7, <1>8, <1>9, <1>10 DEF TypeOK, AllocClient, ringVars
<1>12. Hands'
  <2> SUFFICES ASSUME NEW v \in Users
               PROVE  /\ pc'[v] = "decide" => job'[v].kind = "receipt"
                      /\ pc'[v] \in {"idle", "decide"} => job'[v].held = <<>>
                      /\ pc'[v] = "alloc" => Len(job'[v].held) < Needs(job'[v].kind)
                      /\ pc'[v] \notin {"idle", "decide", "alloc"}
                            => Len(job'[v].held) \in 1..Needs(job'[v].kind)
    BY DEF Hands
  <2>1. CASE v # u
    BY <1>8, <2>1 DEF Hands
  <2>2. CASE v = u
    <3>1. Len(job[u].held) + 1 <= Needs(job[u].kind)
      BY <1>1, <1>9 DEF Hands
    <3> QED
      BY <1>1, <1>4, <1>6, <1>7, <1>9, <2>2, <3>1
  <2> QED
    BY <2>1, <2>2
<1> QED
  BY <1>11, <1>12

LEMMA FreeTypes ==
    ASSUME TypeOK, Hands, NEW u \in Users, FreeClient(u)
    PROVE  TypeOK' /\ Hands'
<1> DEFINE n == Len(job[u].held)
           p == <<job[u].kind, n>>
           rest == SubSeq(job[u].held, 1, n - 1)
<1>1. /\ job[u] \in Job /\ job[u].held \in Seq(Nat)
      /\ job[u].kind \in Kinds /\ Needs(job[u].kind) \in {1, 2}
  BY DEF TypeOK, Job, Needs
<1>2. n \in 1..Needs(job[u].kind)
  BY DEF FreeClient, Hands
<1>3. p \in PoolNames /\ job[u].held[n] \in Nat
  BY <1>1, <1>2, PoolName, ElementOfSeq
<1>4. pools' \in [PoolNames -> Pool]
  BY <1>3, PoolOps DEF TypeOK, FreeClient
<1>5. rest \in Seq(Nat) /\ Len(rest) = n - 1
  <2>1. n \in Nat /\ n >= 1 /\ n - 1 \in Nat
    BY <1>1, <1>2
  <2>2. \A i \in 1..(n - 1) : job[u].held[i] \in Nat
    BY <1>1, <2>1, ElementOfSeq
  <2> HIDE DEF n
  <2>3. /\ SubSeq(job[u].held, 1, n - 1) \in Seq(Nat)
        /\ Len(SubSeq(job[u].held, 1, n - 1)) = IF 1 <= n - 1 THEN n - 1 - 1 + 1 ELSE 0
    BY <2>1, <2>2, SubSeqProperties
  <2> QED
    BY <2>1, <2>3
<1>6. job' = [job EXCEPT ![u] = IF n = 1 THEN Idle ELSE [job[u] EXCEPT !.held = rest]]
  BY DEF FreeClient
<1>7. [job[u] EXCEPT !.held = rest] \in Job
  BY <1>1, <1>5 DEF Job
<1>8. job' \in [Users -> Job]
  BY <1>6, <1>7, IdleIsJob DEF TypeOK
<1>9. pc' = [pc EXCEPT ![u] = IF n = 1 THEN "idle" ELSE "free"]
  BY DEF FreeClient, Goto
<1>10. \A v \in Users : v # u => pc'[v] = pc[v] /\ job'[v] = job[v]
  BY <1>6, <1>9 DEF TypeOK
<1>11. /\ pc' \in [Users -> Places]
       /\ n = 1 => pc'[u] = "idle" /\ job'[u] = Idle
       /\ n # 1 => /\ pc'[u] = "free" /\ job'[u].task = job[u].task
                   /\ job'[u].kind = job[u].kind /\ job'[u].held = rest
  BY <1>1, <1>6, <1>9 DEF TypeOK, Places, Job
<1>12. pc[u] = "free"
  BY DEF FreeClient
<1>13. TypeOK'
  BY <1>4, <1>8, <1>10, <1>11, <1>12 DEF TypeOK, FreeClient, ringVars
<1>14. Hands'
  <2>1. \A v \in Users : v # u => pc'[v] = pc[v] /\ job'[v] = job[v]
    BY <1>10
  <2>2. n = 1 => pc'[u] = "idle" /\ job'[u].held = <<>>
    BY <1>11 DEF Idle
  <2>3. n # 1 => n - 1 \in 1..Needs(job[u].kind)
    <3>1. \A k \in {1, 2} : \A m \in 1..k : m # 1 => m - 1 \in 1..k
      OBVIOUS
    <3> HIDE DEF n
    <3> QED
      BY <1>1, <1>2, <3>1
  <2>4. n # 1 => /\ pc'[u] = "free" /\ job'[u].kind = job[u].kind
                 /\ Len(job'[u].held) \in 1..Needs(job[u].kind)
    BY <1>5, <1>11, <2>3
  <2> QED
    BY <2>1, <2>2, <2>4 DEF Hands
<1> QED
  BY <1>13, <1>14

\* A step of a user that holds clients, or none yet, and goes on to where it
\* holds as many.
Moves(u, from, to) ==
    /\ pc[u] = from
    /\ pc' = [pc EXCEPT ![u] = to]
    /\ \A v \in Users : /\ job'[v].held = job[v].held /\ job'[v].kind = job[v].kind
                        /\ job'[v].task = job[v].task

Holding == Places \ {"idle", "decide", "alloc"}

\* A count stays a count.
LEMMA PublishTypes ==
    ASSUME TypeOK, NEW task, Publish(task)
    PROVE  events' \in [1..MaxTasks -> Nat]
<1>1. events \in [1..MaxTasks -> Nat] /\ events' = [events EXCEPT ![task] = @ + 1]
  BY DEF TypeOK, Publish
<1>2. \A i \in 1..MaxTasks : events'[i] = IF i = task THEN events[i] + 1 ELSE events[i]
  BY <1>1
<1>3. \A i \in 1..MaxTasks : events'[i] \in Nat
  BY <1>1, <1>2
<1> QED
  BY <1>1, <1>3

LEMMA MoveKeepsHands ==
    ASSUME TypeOK, Hands, NEW u \in Users, NEW from \in Holding, NEW to \in Holding,
           Moves(u, from, to)
    PROVE  Hands' /\ pc' \in [Users -> Places]
<1>1. \A v \in Users : v # u => pc'[v] = pc[v]
  BY DEF TypeOK, Moves
<1>2. pc'[u] = to /\ pc[u] = from
  BY DEF TypeOK, Moves
<1>3. Hands'
  BY <1>1, <1>2 DEF Hands, Moves, Holding, Needs
<1>4. pc' \in [Users -> Places]
  BY DEF TypeOK, Moves, Holding
<1> QED
  BY <1>3, <1>4

\* A task begins.
LEMMA BeginTypes ==
    ASSUME TypeOK, Hands, NEW u \in Users, Begin(u)
    PROVE  TypeOK' /\ Hands'
<1>1. PICK kind \in Kinds :
        /\ cnt' = IF kind = "receipt" THEN (cnt + 1) % Width ELSE cnt
        /\ job' = [job EXCEPT ![u] = [kind |-> kind, task |-> started',
                                      nc |-> IF kind = "receipt" THEN cnt' ELSE 0,
                                      role |-> IF kind = "eth" THEN "send" ELSE "read",
                                      held |-> <<>>]]
        /\ pc' = [pc EXCEPT ![u] = IF kind = "receipt" THEN "decide" ELSE "alloc"]
  BY DEF Begin, Goto
<1>2. started \in 0..MaxTasks /\ started' = started + 1 /\ started < MaxTasks
  BY DEF TypeOK, Begin
<1>3. cnt' \in 0..(Width - 1)
  BY <1>1 DEF TypeOK
<1>4. <<>> \in Seq(Nat) /\ Len(<<>>) = 0
  BY EmptySeq
<1>5. [kind |-> kind, task |-> started', nc |-> IF kind = "receipt" THEN cnt' ELSE 0,
       role |-> IF kind = "eth" THEN "send" ELSE "read", held |-> <<>>] \in Job
  BY <1>2, <1>3, <1>4 DEF Job
<1>6. /\ job' \in [Users -> Job]
      /\ job'[u].task = started' /\ job'[u].kind = kind /\ job'[u].held = <<>>
  BY <1>1, <1>5 DEF TypeOK
<1>7. /\ pc' \in [Users -> Places]
      /\ pc'[u] = IF kind = "receipt" THEN "decide" ELSE "alloc"
  BY <1>1 DEF TypeOK, Places
<1>8. \A v \in Users : v # u => pc'[v] = pc[v] /\ job'[v] = job[v]
  BY <1>1 DEF TypeOK
<1>9. pc[u] = "idle"
  BY DEF Begin
<1>10. TypeOK'
  <2>1. rwMutex' = rwMutex /\ blockMutex' = blockMutex
    BY DEF Begin, ringVars
  <2>2. \A v \in Users : /\ pc[v] # "idle" => job[v].task \in 1..started
                         /\ pc[v] \in {"store", "advance"} <=> rwMutex = v
                         /\ pc[v] = "number" <=> blockMutex = v
    BY DEF TypeOK
  <2>3. ASSUME NEW v \in Users
        PROVE  /\ pc'[v] # "idle" => job'[v].task \in 1..started'
               /\ pc'[v] \in {"store", "advance"} <=> rwMutex' = v
               /\ pc'[v] = "number" <=> blockMutex' = v
    <3>1. CASE v = u
      BY <1>2, <1>6, <1>7, <1>9, <2>1, <2>2, <3>1
    <3>2. CASE v # u
      BY <1>2, <1>8, <2>1, <2>2, <3>2
    <3> QED
      BY <3>1, <3>2
  <2>4. checks' = checks /\ \A c \in checks : c.task \in 1..started'
    BY <1>2 DEF TypeOK, Begin
  <2> QED
    BY <1>2, <1>3, <1>6, <1>7, <2>3, <2>4 DEF TypeOK, Begin, ringVars
<1>11. Hands'
  BY <1>4, <1>6, <1>7, <1>8 DEF Hands, Needs
<1> QED
  BY <1>10, <1>11

LEMMA DecideTypes ==
    ASSUME TypeOK, Hands, NEW u \in Users, Decide(u)
    PROVE  TypeOK' /\ Hands'
<1>1. job[u] \in Job
  BY DEF TypeOK
<1>2. PICK role \in {"send", "read"} :
        job' = [job EXCEPT ![u].role = role, ![u].nc = 0]
  BY DEF Decide
<1>3. [job[u] EXCEPT !.role = role, !.nc = 0] \in Job
  BY <1>1 DEF Job
<1>4. /\ job' \in [Users -> Job]
      /\ \A v \in Users : /\ job'[v].held = job[v].held /\ job'[v].kind = job[v].kind
                          /\ job'[v].task = job[v].task
  BY <1>1, <1>2, <1>3 DEF TypeOK, Job
<1>5. /\ pc[u] = "decide" /\ pc'[u] = "alloc" /\ pc' \in [Users -> Places]
      /\ \A v \in Users : v # u => pc'[v] = pc[v]
  BY DEF TypeOK, Decide, Goto, Places
<1>6. initFlag' \in BOOLEAN
  BY DEF TypeOK, Decide
<1>7. TypeOK'
  BY <1>4, <1>5, <1>6 DEF TypeOK, Decide, ringVars
<1>8. job[u].held = <<>>
  BY <1>5 DEF Hands
<1>9. Len(job[u].held) = 0 /\ Needs(job[u].kind) \in {1, 2}
  BY <1>8, EmptySeq DEF Needs
<1>10. Hands'
  BY <1>4, <1>5, <1>9 DEF Hands
<1> QED
  BY <1>7, <1>10

\* The ring.
LEMMA RingTypes ==
    ASSUME TypeOK, Hands, NEW u \in Users,
           LockRing(u) \/ StoreHash(u) \/ AdvanceTail(u) \/ ReadHash(u)
    PROVE  TypeOK' /\ Hands'
<1> USE DEF Holding, Places
<1>1. CASE LockRing(u)
  <2>1. Moves(u, "send", "store")
    BY <1>1 DEF LockRing, Goto, Moves
  <2>2. Hands' /\ pc' \in [Users -> Places]
    BY <2>1, MoveKeepsHands
  <2> QED
    BY <1>1, <2>1, <2>2 DEF TypeOK, LockRing, Moves
<1>2. CASE StoreHash(u)
  <2>1. Moves(u, "store", "advance")
    BY <1>2 DEF StoreHash, Goto, Moves
  <2>2. Hands' /\ pc' \in [Users -> Places]
    BY <2>1, MoveKeepsHands
  <2>3. slots' \in [0..(Size - 1) -> Nat]
    BY <1>2 DEF TypeOK, StoreHash, Job
  <2> QED
    BY <1>2, <2>1, <2>2, <2>3 DEF TypeOK, StoreHash, Moves
<1>3. CASE AdvanceTail(u)
  <2>1. Moves(u, "advance", "free")
    BY <1>3 DEF AdvanceTail, Goto, Moves
  <2>2. Hands' /\ pc' \in [Users -> Places]
    BY <2>1, MoveKeepsHands
  <2>3. tail' \in 0..(Size - 1) /\ isFull' \in BOOLEAN
    BY <1>3 DEF TypeOK, AdvanceTail
  <2>4. events' \in [1..MaxTasks -> Nat]
    BY <1>3, PublishTypes DEF AdvanceTail
  <2>5. job[u].task \in Nat
    BY DEF TypeOK, Job
  <2>6. window' \in Seq(Nat) /\ Len(window') <= Size
    <3> DEFINE kept == IF Len(window) = Size THEN Tail(window) ELSE window
    <3>1. window \in Seq(Nat) /\ Len(window) <= Size /\ Len(window) \in Nat
      BY DEF TypeOK
    <3>2. kept \in Seq(Nat) /\ Len(kept) + 1 <= Size
      <4>1. CASE Len(window) = Size
        <5>1. window # <<>>
          BY <4>1, EmptySeq
        <5> QED
          BY <3>1, <4>1, <5>1, HeadTailProperties
      <4>2. CASE Len(window) # Size
        BY <3>1, <4>2
      <4> QED
        BY <4>1, <4>2
    <3>3. window' = Append(kept, job[u].task)
      BY <1>3 DEF AdvanceTail
    <3> QED
      BY <2>5, <3>2, <3>3, AppendProperties
  <2>7. /\ job' = job /\ checks' = checks /\ started' = started /\ pools' = pools
        /\ cnt' = cnt /\ initFlag' = initFlag /\ slots' = slots
        /\ rwMutex' = None /\ blockMutex' = blockMutex
        /\ pc[u] = "advance" /\ pc' = [pc EXCEPT ![u] = "free"]
    BY <1>3, <2>1 DEF AdvanceTail, Moves
  <2>8. \A v \in Users : /\ pc'[v] # "idle" => job'[v].task \in 1..started'
                         /\ pc'[v] \in {"store", "advance"} <=> rwMutex' = v
                         /\ pc'[v] = "number" <=> blockMutex' = v
    BY <2>7 DEF TypeOK
  <2> QED
    BY <2>2, <2>3, <2>4, <2>6, <2>7, <2>8 DEF TypeOK
<1>4. CASE ReadHash(u)
  <2>1. Moves(u, "read", "free")
    BY <1>4 DEF ReadHash, Goto, Moves
  <2>2. Hands' /\ pc' \in [Users -> Places]
    BY <2>1, MoveKeepsHands
  <2>3. events' \in [1..MaxTasks -> Nat]
    BY <1>4, PublishTypes DEF ReadHash
  <2> QED
    BY <1>4, <2>1, <2>2, <2>3 DEF TypeOK, ReadHash, Moves, ringVars
<1> QED
  BY <1>1, <1>2, <1>3, <1>4

\* The Ethereum tasks and the read requests.
LEMMA RequestTypes ==
    ASSUME TypeOK, Hands, NEW u \in Users,
           \/ EthAccepted(u) \/ EthFails(u)
           \/ LockNumber(u) \/ BlockNumber(u) \/ Request(u)
    PROVE  TypeOK' /\ Hands'
<1> USE DEF Holding, Places
<1>1. CASE EthAccepted(u)
  <2>1. Moves(u, "send", "free")
    BY <1>1 DEF EthAccepted, Goto, Moves
  <2>2. Hands' /\ pc' \in [Users -> Places]
    BY <2>1, MoveKeepsHands
  <2>3. [task |-> job[u].task, retries |-> 0] \in Check /\ job[u].task \in 1..started
    BY <1>1 DEF EthAccepted, TypeOK, Job, Check
  <2>4. checks' \subseteq Check /\ \A c \in checks' : c.task \in 1..started
    BY <1>1, <2>3 DEF EthAccepted, TypeOK
  <2> QED
    BY <1>1, <2>1, <2>2, <2>4 DEF TypeOK, EthAccepted, Moves, ringVars
<1>2. CASE EthFails(u)
  <2>1. Moves(u, "send", "free")
    BY <1>2 DEF EthFails, Goto, Moves
  <2>2. Hands' /\ pc' \in [Users -> Places]
    BY <2>1, MoveKeepsHands
  <2>3. events' \in [1..MaxTasks -> Nat]
    BY <1>2, PublishTypes DEF EthFails
  <2> QED
    BY <1>2, <2>1, <2>2, <2>3 DEF TypeOK, EthFails, Moves, ringVars
<1>3. CASE LockNumber(u)
  <2>1. Moves(u, "read", "number")
    BY <1>3 DEF LockNumber, Goto, Moves
  <2>2. Hands' /\ pc' \in [Users -> Places]
    BY <2>1, MoveKeepsHands
  <2> QED
    BY <1>3, <2>1, <2>2 DEF TypeOK, LockNumber, Moves, ringVars
<1>4. CASE BlockNumber(u)
  <2>1. Moves(u, "number", "free")
    BY <1>4 DEF BlockNumber, Goto, Moves
  <2>2. Hands' /\ pc' \in [Users -> Places]
    BY <2>1, MoveKeepsHands
  <2>3. events' \in [1..MaxTasks -> Nat]
    BY <1>4, PublishTypes DEF BlockNumber
  <2> QED
    BY <1>4, <2>1, <2>2, <2>3 DEF TypeOK, BlockNumber, Moves, ringVars
<1>5. CASE Request(u)
  <2>1. Moves(u, "read", "free")
    BY <1>5 DEF Request, Goto, Moves
  <2>2. Hands' /\ pc' \in [Users -> Places]
    BY <2>1, MoveKeepsHands
  <2>3. events' \in [1..MaxTasks -> Nat]
    BY <1>5, PublishTypes DEF Request
  <2> QED
    BY <1>5, <2>1, <2>2, <2>3 DEF TypeOK, Request, Moves, ringVars
<1> QED
  BY <1>1, <1>2, <1>3, <1>4, <1>5

LEMMA CheckerTypes ==
    ASSUME TypeOK, Hands, NEW c \in checks, Checker(c)
    PROVE  TypeOK' /\ Hands'
<1>1. c \in Check /\ c.task \in 1..started /\ c.task \in 1..MaxTasks
  BY DEF TypeOK
<1>2. UNCHANGED <<pc, job, pools, cnt, initFlag, ringVars, blockMutex, started>>
  BY DEF Checker, Retry
<1>3. /\ checks' \subseteq Check /\ \A d \in checks' : d.task \in 1..started
      /\ events' \in [1..MaxTasks -> Nat]
  <2>1. CASE NotFound(c)
    <3>1. [c EXCEPT !.retries = @ + 1] \in Check /\ [c EXCEPT !.retries = @ + 1].task = c.task
      BY <1>1, <2>1 DEF NotFound, Check
    <3> QED
      BY <1>1, <2>1, <3>1 DEF NotFound, TypeOK
  <2>2. CASE GivesUp(c) \/ Answered(c)
    BY <1>1, <2>2, PublishTypes DEF GivesUp, Answered, TypeOK
  <2> QED
    BY <2>1, <2>2 DEF Checker, Retry
<1> QED
  BY <1>2, <1>3 DEF TypeOK, Hands, ringVars

\* The types are right in every reachable state, and a user holds the clients
\* that its place in the code calls for.
LEMMA TypesKept == TypeOK /\ Hands /\ [Next]_vars => TypeOK' /\ Hands'
<1> SUFFICES ASSUME TypeOK, Hands, [Next]_vars PROVE TypeOK' /\ Hands'
  OBVIOUS
<1>1. CASE UNCHANGED vars
  BY <1>1 DEF TypeOK, Hands, vars, ringVars
<1>2. ASSUME NEW u \in Users, User(u) PROVE TypeOK' /\ Hands'
  BY <1>2, BeginTypes, AllocTypes, FreeTypes, DecideTypes, RingTypes, RequestTypes DEF User
<1>3. ASSUME NEW c \in checks, Checker(c) PROVE TypeOK' /\ Hands'
  BY <1>3, CheckerTypes
<1> QED
  BY <1>1, <1>2, <1>3 DEF Next, Exhausted

LEMMA TypesInit == Init => TypeOK /\ Hands
<1> SUFFICES ASSUME Init PROVE TypeOK /\ Hands
  OBVIOUS
<1>1. job \in [Users -> Job] /\ \A u \in Users : job[u].held = <<>> /\ pc[u] = "idle"
  BY IdleIsJob DEF Init, Idle
<1>2. pools \in [PoolNames -> Pool]
  <2>1. [i \in 1..InitPool |-> i] \in Seq(Nat)
    BY SeqDef
  <2> QED
    BY <2>1 DEF Init, NewPool, Pool
<1>3. window \in Seq(Nat) /\ Len(window) <= Size
  BY EmptySeq DEF Init
<1>4. Hands
  BY <1>1 DEF Hands
<1>5. TypeOK
  BY <1>1, <1>2, <1>3 DEF Init, TypeOK, Places
<1> QED
  BY <1>4, <1>5

\* Every variable keeps its type, and each mutex is held by the one user whose
\* place in the code says so.
THEOREM TypeCorrect == Spec => []TypeOK
<1>1. Spec => [](TypeOK /\ Hands)
  BY TypesInit, TypesKept, PTL DEF Spec
<1> QED
  BY <1>1, PTL

----------------------------------------------------------------------------
(* No read before the first hash.  As long as the ring is empty, every     *)
(* receipt task that has begun is still sending, so that the counter is at *)
(* most the number of users.                                               *)

Counted == {u \in Users : pc[u] # "idle" /\ job[u].kind = "receipt"}

Filling ==
    window = <<>> =>
        /\ ~initFlag
        /\ cnt <= Cardinality(Counted)
        /\ \A u \in Counted :
              /\ pc[u] \in {"decide", "alloc", "send", "store", "advance"}
              /\ pc[u] = "decide" => job[u].nc < InitSends
              /\ pc[u] # "decide" => job[u].role = "send"

Drawable == window # <<>> => isFull \/ tail # 0

LEMMA CountedBound ==
    /\ IsFiniteSet(Counted) /\ Cardinality(Counted) \in Nat
    /\ Cardinality(Counted) < InitSends
<1>1. Counted \subseteq Users
  BY DEF Counted
<1>2. Cardinality(Counted) <= Cardinality(Users) /\ IsFiniteSet(Counted)
  BY <1>1, FS_Subset
<1>3. Cardinality(Counted) \in Nat /\ Cardinality(Users) \in Nat
  BY <1>2, FS_CardinalityType
<1> QED
  BY <1>2, <1>3

LEMMA CountedBoundAfter ==
    /\ IsFiniteSet(Counted') /\ Cardinality(Counted') \in Nat
    /\ Cardinality(Counted') < InitSends
<1>1. Counted' \subseteq Users
  BY DEF Counted
<1>2. Cardinality(Counted') <= Cardinality(Users) /\ IsFiniteSet(Counted')
  BY <1>1, FS_Subset
<1>3. Cardinality(Counted') \in Nat /\ Cardinality(Users) \in Nat
  BY <1>2, FS_CardinalityType
<1> QED
  BY <1>2, <1>3

\* A task that begins is counted once, and the counter does not wrap.
LEMMA BeginFills ==
    ASSUME TypeOK, Filling, NEW u \in Users, Begin(u)
    PROVE  Filling'
<1> SUFFICES ASSUME window' = <<>> PROVE Filling'
  BY DEF Filling
<1>1. PICK kind \in Kinds :
        /\ cnt' = IF kind = "receipt" THEN (cnt + 1) % Width ELSE cnt
        /\ job' = [job EXCEPT ![u] = [kind |-> kind, task |-> started',
                                      nc |-> IF kind = "receipt" THEN cnt' ELSE 0,
                                      role |-> IF kind = "eth" THEN "send" ELSE "read",
                                      held |-> <<>>]]
        /\ pc' = [pc EXCEPT ![u] = IF kind = "receipt" THEN "decide" ELSE "alloc"]
  BY DEF Begin, Goto
<1>2. window = <<>> /\ ~initFlag' /\ pc[u] = "idle" /\ cnt \in Nat
  BY DEF Begin, ringVars, Filling, TypeOK
<1>3. \A v \in Users : v # u => pc'[v] = pc[v] /\ job'[v] = job[v]
  BY <1>1 DEF TypeOK
<1>4. /\ job'[u].kind = kind /\ pc'[u] # "idle"
      /\ kind = "receipt" => pc'[u] = "decide" /\ job'[u].nc = cnt'
  BY <1>1 DEF TypeOK
<1>5. CASE kind = "receipt"
  <2>1. Counted' = Counted \cup {u} /\ u \notin Counted
    BY <1>2, <1>3, <1>4, <1>5 DEF Counted
  <2>2. Cardinality(Counted') = Cardinality(Counted) + 1
    BY <2>1, CountedBound, FS_AddElement
  <2>3. cnt + 1 <= Cardinality(Counted') /\ Cardinality(Counted') < InitSends
    BY <1>2, <2>2, CountedBound, CountedBoundAfter DEF Filling
  <2>4. cnt' = cnt + 1
    <3>1. cnt + 1 \in 0..(Width - 1)
      BY <1>2, <2>3, CountedBoundAfter
    <3>2. cnt' = (cnt + 1) % Width
      BY <1>1, <1>5
    <3> QED
      BY <3>1, <3>2
  <2>5. cnt' < InitSends
    BY <1>2, <2>3, <2>4, CountedBoundAfter
  <2> QED
    BY <1>2, <1>3, <1>4, <1>5, <2>1, <2>3, <2>4, <2>5 DEF Filling, Counted
<1>6. CASE kind # "receipt"
  <2>1. Counted' = Counted
    BY <1>2, <1>3, <1>4, <1>6 DEF Counted
  <2> QED
    BY <1>1, <1>2, <1>3, <1>6, <2>1 DEF Filling, Counted
<1> QED
  BY <1>5, <1>6

\* The ring is not empty after a hash was added, and there is one to draw.
LEMMA AdvanceFills ==
    ASSUME TypeOK, NEW u \in Users, AdvanceTail(u)
    PROVE  window' # <<>> /\ Drawable'
<1> DEFINE kept == IF Len(window) = Size THEN Tail(window) ELSE window
<1>1. window' = Append(kept, job[u].task)
  BY DEF AdvanceTail
<1>2. window \in Seq(Nat) /\ job[u].task \in Nat
  BY DEF TypeOK, Job
<1>3. kept \in Seq(Nat)
  <2>1. Len(<<>>) = 0 /\ Size # 0
    BY EmptySeq
  <2> QED
    BY <1>2, <2>1, HeadTailProperties
<1>4. window' # <<>>
  BY <1>1, <1>2, <1>3, AppendProperties, EmptySeq
<1>5. Drawable'
  BY DEF AdvanceTail, Drawable
<1> QED
  BY <1>4, <1>5

\* As long as the ring is empty every step but a Begin leaves the counter alone
\* and no receipt task comes or goes.
LEMMA UserFills ==
    ASSUME TypeOK, Hands, Filling, NEW u \in Users, User(u), ~Begin(u)
    PROVE  Filling'
<1> SUFFICES ASSUME window' = <<>> PROVE Filling'
  BY DEF Filling
<1>1. window = <<>> /\ ~AdvanceTail(u)
  BY AdvanceFills DEF User, Begin, AllocClient, FreeClient, Decide, LockRing, StoreHash,
                      ReadHash, EthAccepted, EthFails, LockNumber, BlockNumber, Request, ringVars
<1>2. /\ ~initFlag /\ cnt <= Cardinality(Counted)
      /\ \A v \in Counted :
              /\ pc[v] \in {"decide", "alloc", "send", "store", "advance"}
              /\ pc[v] = "decide" => job[v].nc < InitSends
              /\ pc[v] # "decide" => job[v].role = "send"
  BY <1>1 DEF Filling
<1>3. ~AdvanceTail(u) /\ ~ReadHash(u)
  BY <1>1, <1>2 DEF ReadHash, Counted
<1>4. /\ \A v \in Users : v # u => pc'[v] = pc[v] /\ job'[v] = job[v]
      /\ cnt' = cnt
  BY <1>3 DEF TypeOK, User, AllocClient, FreeClient, Decide, LockRing, StoreHash,
              EthAccepted, EthFails, LockNumber, BlockNumber, Request, Goto
<1> DEFINE Sends == /\ u \in Counted /\ u \in Counted' /\ ~initFlag'
                    /\ pc'[u] \in {"alloc", "send", "store", "advance"}
                    /\ job'[u].role = "send"
           Other == u \notin Counted /\ u \notin Counted' /\ ~initFlag'
<1>5. Sends \/ Other
  <2>1. CASE AllocClient(u)
    <3>1. /\ job'[u].kind = job[u].kind /\ job'[u].role = job[u].role
          /\ pc[u] = "alloc" /\ pc'[u] \in {"alloc", job[u].role} /\ job[u].role # "idle"
      <4>1. job' = [job EXCEPT ![u].held = Append(@, Given(pools[<<job[u].kind, Len(@) + 1>>]))]
        BY <2>1 DEF AllocClient
      <4>2. job'[u].kind = job[u].kind /\ job'[u].role = job[u].role
        BY <4>1, JobParts DEF TypeOK, Job
      <4>3. pc[u] = "alloc" /\ pc'[u] \in {"alloc", job[u].role}
        BY <2>1 DEF TypeOK, AllocClient, Goto
      <4> QED
        BY <4>2, <4>3, JobParts
    <3> QED
      BY <1>2, <2>1, <3>1 DEF Counted, AllocClient
  <2>2. CASE FreeClient(u)
    <3>1. pc[u] = "free"
      BY <2>2 DEF FreeClient
    <3>2. u \notin Counted
      BY <1>2, <3>1
    <3>3. pc'[u] = "idle" \/ job'[u].kind = job[u].kind
      BY <2>2 DEF TypeOK, Job, FreeClient, Goto
    <3> QED
      BY <1>2, <2>2, <3>1, <3>2, <3>3 DEF Counted, FreeClient
  <2>3. CASE Decide(u)
    <3>1. pc[u] = "decide" /\ job[u] \in Job /\ u \in Counted
      BY <2>3 DEF Decide, TypeOK, Hands, Counted
    <3>2. job[u].nc < InitSends /\ ~initFlag
      BY <1>2, <3>1
    <3>3. job' = [job EXCEPT ![u].role = "send", ![u].nc = 0] /\ initFlag' = initFlag
      <4>1. PICK seen \in {initFlag, FALSE} :
              IF ~seen /\ job[u].nc < InitSends
                THEN /\ job' = [job EXCEPT ![u].role = "send", ![u].nc = 0]
                     /\ UNCHANGED initFlag
                ELSE /\ job' = [job EXCEPT ![u].nc = 0, ![u].role =
                                   IF job[u].nc % (Ratio + 1) = Ratio THEN "send" ELSE "read"]
                     /\ initFlag' = TRUE
        BY <2>3 DEF Decide
      <4>2. ~seen
        BY <3>2, <4>1, Zenon
      <4> QED
        BY <3>2, <4>1, <4>2
    <3>4. job'[u].role = "send" /\ job'[u].kind = job[u].kind /\ pc'[u] = "alloc"
      BY <2>3, <3>1, <3>3 DEF Decide, Goto, TypeOK, Job
    <3> QED
      BY <3>1, <3>2, <3>3, <3>4 DEF Counted
  <2>4. CASE LockRing(u) \/ StoreHash(u)
    BY <1>2, <2>4 DEF TypeOK, LockRing, StoreHash, Goto, Counted
  <2>5. CASE EthAccepted(u) \/ EthFails(u) \/ LockNumber(u) \/ BlockNumber(u) \/ Request(u)
    BY <1>2, <2>5 DEF TypeOK, EthAccepted, EthFails, LockNumber, BlockNumber, Request,
                      Goto, Counted
  <2> QED
    BY <1>3, <2>1, <2>2, <2>3, <2>4, <2>5 DEF User
<1>6. Counted' = Counted
  BY <1>4, <1>5 DEF Counted
<1> QED
  BY <1>2, <1>4, <1>5, <1>6 DEF Filling, Counted

FillInv == TypeOK /\ Hands /\ Filling /\ Drawable

LEMMA FillKept == FillInv /\ [Next]_vars => FillInv'
<1> SUFFICES ASSUME FillInv, [Next]_vars PROVE FillInv'
  OBVIOUS
<1> USE DEF FillInv
<1>1. TypeOK' /\ Hands'
  BY TypesKept
<1>2. CASE UNCHANGED vars
  <2>1. Filling'
    BY <1>2 DEF Filling, Counted, vars, ringVars
  <2> QED
    BY <1>1, <1>2, <2>1 DEF Drawable, vars, ringVars
<1>3. ASSUME NEW u \in Users, User(u) PROVE Filling' /\ Drawable'
  <2>1. Filling'
    BY <1>3, BeginFills, UserFills
  <2>2. CASE AdvanceTail(u)
    BY <2>1, <2>2, AdvanceFills
  <2>3. CASE ~AdvanceTail(u)
    <3>1. window' = window /\ isFull' = isFull /\ tail' = tail
      BY <1>3, <2>3 DEF User, Begin, AllocClient, FreeClient, Decide, LockRing, StoreHash,
                        ReadHash, EthAccepted, EthFails, LockNumber, BlockNumber, Request,
                        ringVars
    <3> QED
      BY <2>1, <3>1 DEF Drawable
  <2> QED
    BY <2>2, <2>3
<1>4. ASSUME NEW c \in checks, Checker(c) PROVE Filling' /\ Drawable'
  <2>1. UNCHANGED <<pc, job, pools, cnt, initFlag, ringVars, blockMutex, started>>
    BY <1>4 DEF Checker, Retry
  <2>2. Filling'
    BY <2>1 DEF Filling, Counted, ringVars
  <2> QED
    BY <2>1, <2>2 DEF Drawable, ringVars
<1> QED
  BY <1>1, <1>2, <1>3, <1>4 DEF Next, Exhausted

LEMMA FillInit == Init => FillInv
<1> SUFFICES ASSUME Init PROVE Filling /\ Drawable
  BY TypesInit DEF FillInv
<1>1. Counted = {} /\ cnt = 0 /\ initFlag = FALSE /\ window = <<>>
  BY DEF Init, Counted
<1>2. Cardinality(Counted) \in Nat
  BY CountedBound
<1> QED
  BY <1>1, <1>2 DEF Filling, Drawable

LEMMA FillShows == FillInv => NoEmptyRead
<1> SUFFICES ASSUME FillInv, NEW u \in Users, pc[u] = "read", job[u].kind = "receipt"
             PROVE  Readable # {}
  BY DEF NoEmptyRead
<1>1. u \in Counted
  BY DEF Counted
<1>2. window # <<>>
  BY <1>1 DEF FillInv, Filling
<1>3. isFull \/ tail # 0
  BY <1>2 DEF FillInv, Drawable
<1>4. 0 \in Readable
  BY <1>3 DEF FillInv, TypeOK, Readable
<1> QED
  BY <1>4

\* getHash never divides by zero, whatever the number of users below the number
\* of hashes to send first, and wherever the counter wraps.
THEOREM NoEmptyReadAlways == Spec => []NoEmptyRead
<1>1. Spec => []FillInv
  BY FillInit, FillKept, PTL DEF Spec
<1> QED
  BY <1>1, FillShows, PTL

----------------------------------------------------------------------------
(* Where the clients of a pool are: pools and hands as plain values.       *)

Apart(free, held, made) ==
    /\ \A i, k \in 1..Len(free) : free[i] = free[k] => i = k
    /\ \A u \in Users : \A c \in held[u] :
          /\ \A i \in 1..Len(free) : free[i] # c
          /\ \A v \in Users : c \in held[v] => u = v
    /\ \A i \in 1..Len(free) : free[i] \in 1..made
    /\ \A u \in Users : held[u] \subseteq 1..made
    /\ \A c \in 1..made : \/ \E i \in 1..Len(free) : free[i] = c
                          \/ \E u \in Users : c \in held[u]

Hold(p) == [u \in Users |-> Held(u, p)]

Spread == \A p \in PoolNames : Apart(pools[p].free, Hold(p), pools[p].cnt)

LEMMA OnePlaceIsSpread == TypeOK => (OnePlace <=> Spread)
<1> SUFFICES ASSUME TypeOK PROVE OnePlace <=> Spread
  OBVIOUS
<1>1. ASSUME NEW p \in PoolNames
      PROVE  DOMAIN pools[p].free = 1..Len(pools[p].free)
  <2>1. pools[p].free \in Seq(Nat)
    BY DEF TypeOK, Pool
  <2> QED
    BY <2>1, LenProperties
<1>2. ASSUME NEW p \in PoolNames, Apart(pools[p].free, Hold(p), pools[p].cnt)
      PROVE  {pools[p].free[i] : i \in DOMAIN pools[p].free}
                \cup UNION {Held(u, p) : u \in Users} = 1..pools[p].cnt
  BY <1>1, <1>2 DEF Apart, Hold
<1>3. ASSUME OnePlace, NEW p \in PoolNames
      PROVE  Apart(pools[p].free, Hold(p), pools[p].cnt)
  <2> DEFINE free == pools[p].free
             made == pools[p].cnt
  <2>1. {free[i] : i \in 1..Len(free)} \cup UNION {Held(u, p) : u \in Users} = 1..made
    BY <1>1, <1>3 DEF OnePlace
  <2>2. \A i \in 1..Len(free) : free[i] \in 1..made
    BY <2>1
  <2>3. \A u \in Users : Held(u, p) \subseteq 1..made
    BY <2>1
  <2>4. \A c \in 1..made : \/ \E i \in 1..Len(free) : free[i] = c
                           \/ \E u \in Users : c \in Held(u, p)
    BY <2>1
  <2>5. /\ \A i, k \in 1..Len(free) : free[i] = free[k] => i = k
        /\ \A u \in Users : \A c \in Held(u, p) :
              /\ \A i \in 1..Len(free) : free[i] # c
              /\ \A v \in Users : c \in Held(v, p) => u = v
    BY <1>1, <1>3 DEF OnePlace
  <2> QED
    BY <2>2, <2>3, <2>4, <2>5 DEF Apart, Hold
<1>4. ASSUME Spread
      PROVE  OnePlace
  <2>1. ASSUME NEW p \in PoolNames
        PROVE  /\ \A i, k \in DOMAIN pools[p].free :
                     pools[p].free[i] = pools[p].free[k] => i = k
               /\ \A u \in Users : \A c \in Held(u, p) :
                     /\ \A i \in DOMAIN pools[p].free : pools[p].free[i] # c
                     /\ \A v \in Users : c \in Held(v, p) => u = v
    BY <1>1, <1>4 DEF Spread, Apart, Hold
  <2> QED
    BY <1>2, <1>4, <2>1 DEF Spread, OnePlace
<1> QED
  BY <1>3, <1>4 DEF Spread

\* Alloc takes the first free client, or makes one.
LEMMA AllocApart ==
    ASSUME NEW q \in Pool, NEW u \in Users, NEW held \in [Users -> SUBSET Nat],
           Apart(q.free, held, q.cnt), held[u] = {}
    PROVE  Apart(Alloc(q).free, [held EXCEPT ![u] = {Given(q)}], Alloc(q).cnt)
<1> DEFINE after == [held EXCEPT ![u] = {Given(q)}]
<1>1. /\ q.free \in Seq(Nat) /\ q.cnt \in Nat /\ Len(q.free) \in Nat
      /\ after[u] = {Given(q)} /\ \A v \in Users : v # u => after[v] = held[v]
  BY DEF Pool
<1>2. CASE q.free = <<>>
  <2>1. Alloc(q).free = <<>> /\ Alloc(q).cnt = q.cnt + 1 /\ Given(q) = q.cnt + 1
    BY <1>2 DEF Alloc, Given, Pool
  <2>2. Len(<<>>) = 0 /\ Len(q.free) = 0
    BY <1>2, EmptySeq
  <2>3. \A v \in Users : held[v] \subseteq 1..q.cnt
    BY DEF Apart
  <2>4. q.cnt + 1 \notin 1..q.cnt /\ 1..(q.cnt + 1) = 1..q.cnt \cup {q.cnt + 1}
    BY <1>1
  <2>5. \A c \in 1..q.cnt : \E v \in Users : c \in held[v]
    BY <2>2 DEF Apart
  <2>6. \A c \in 1..(q.cnt + 1) : \E v \in Users : c \in after[v]
    BY <1>1, <2>1, <2>4, <2>5
  <2>7. \A v \in Users : after[v] \subseteq 1..(q.cnt + 1)
    BY <1>1, <2>1, <2>3, <2>4
  <2>8. \A v, w \in Users : \A c \in after[v] : c \in after[w] => v = w
    BY <1>1, <2>1, <2>3, <2>4 DEF Apart
  <2> QED
    BY <2>1, <2>2, <2>6, <2>7, <2>8 DEF Apart
<1>3. CASE q.free # <<>>
  <2> DEFINE first == Head(q.free)
             rest == Tail(q.free)
  <2>1. Alloc(q).free = rest /\ Alloc(q).cnt = q.cnt /\ Given(q) = first
    BY <1>3 DEF Alloc, Given, Pool
  <2>2. /\ Len(q.free) >= 1 /\ Len(rest) = Len(q.free) - 1 /\ first = q.free[1]
        /\ \A i \in 1..Len(rest) : rest[i] = q.free[i + 1]
    BY <1>1, <1>3, HeadTailProperties, EmptySeq
  <2>3. \A i \in 1..Len(rest) : i + 1 \in 1..Len(q.free) /\ i + 1 # 1 /\ 1 \in 1..Len(q.free)
    BY <1>1, <2>2
  <2>4. \A i, k \in 1..Len(rest) : rest[i] = rest[k] => i = k
    BY <2>2, <2>3 DEF Apart
  <2>5. \A i \in 1..Len(rest) : rest[i] # first /\ rest[i] \in 1..q.cnt
    BY <2>2, <2>3 DEF Apart
  <2>6. first \in 1..q.cnt /\ \A v \in Users : first \notin held[v]
    BY <1>1, <2>2 DEF Apart
  <2>7. \A v \in Users : \A c \in after[v] :
           /\ \A i \in 1..Len(rest) : rest[i] # c
           /\ \A w \in Users : c \in after[w] => v = w
    BY <1>1, <2>1, <2>2, <2>3, <2>5, <2>6 DEF Apart
  <2>8. \A v \in Users : after[v] \subseteq 1..q.cnt
    BY <1>1, <2>1, <2>6 DEF Apart
  <2>9. ASSUME NEW c \in 1..q.cnt
        PROVE  (\E i \in 1..Len(rest) : rest[i] = c) \/ \E v \in Users : c \in after[v]
    <3>1. CASE \E v \in Users : c \in held[v]
      BY <1>1, <3>1
    <3>2. CASE \E i \in 1..Len(q.free) : q.free[i] = c
      <4>1. PICK i \in 1..Len(q.free) : q.free[i] = c
        BY <3>2
      <4>2. CASE i = 1
        BY <1>1, <2>1, <2>2, <4>1, <4>2
      <4>3. CASE i # 1
        <5>1. i - 1 \in 1..Len(rest) /\ (i - 1) + 1 = i
          BY <1>1, <2>2, <4>3
        <5> QED
          BY <2>2, <4>1, <5>1
      <4> QED
        BY <4>2, <4>3
    <3> QED
      BY <3>1, <3>2 DEF Apart
  <2> QED
    BY <2>1, <2>4, <2>5, <2>7, <2>8, <2>9 DEF Apart
<1> QED
  BY <1>2, <1>3

\* Free puts it back at the end.
LEMMA FreeApart ==
    ASSUME NEW q \in Pool, NEW u \in Users, NEW held \in [Users -> SUBSET Nat], NEW c \in Nat,
           Apart(q.free, held, q.cnt), held[u] = {c}
    PROVE  Apart(Free(q, c).free, [held EXCEPT ![u] = {}], Free(q, c).cnt)
<1> DEFINE after == [held EXCEPT ![u] = {}]
           new == Append(q.free, c)
<1>1. /\ q.free \in Seq(Nat) /\ q.cnt \in Nat /\ Len(q.free) \in Nat
      /\ after[u] = {} /\ \A v \in Users : v # u => after[v] = held[v]
  BY DEF Pool
<1>2. Free(q, c).free = new /\ Free(q, c).cnt = q.cnt
  BY DEF Free, Pool
<1>3. /\ Len(new) = Len(q.free) + 1 /\ new[Len(q.free) + 1] = c
      /\ \A i \in 1..Len(q.free) : new[i] = q.free[i]
  BY <1>1, AppendProperties
<1>4. 1..Len(new) = 1..Len(q.free) \cup {Len(q.free) + 1}
  BY <1>1, <1>3
<1>5. c \in 1..q.cnt /\ \A i \in 1..Len(q.free) : q.free[i] # c
  BY DEF Apart
<1>6. \A i, k \in 1..Len(new) : new[i] = new[k] => i = k
  BY <1>3, <1>4, <1>5 DEF Apart
<1>7. \A v \in Users : \A d \in after[v] :
         /\ d # c /\ d \in held[v]
         /\ \A w \in Users : d \in after[w] => v = w
  BY <1>1 DEF Apart
<1>8. \A v \in Users : \A d \in after[v] : \A i \in 1..Len(new) : new[i] # d
  BY <1>3, <1>4, <1>7 DEF Apart
<1>9. /\ \A i \in 1..Len(new) : new[i] \in 1..q.cnt
      /\ \A v \in Users : after[v] \subseteq 1..q.cnt
  BY <1>1, <1>3, <1>4, <1>5 DEF Apart
<1>10. ASSUME NEW d \in 1..q.cnt
       PROVE  (\E i \in 1..Len(new) : new[i] = d) \/ \E v \in Users : d \in after[v]
  <2>1. CASE \E i \in 1..Len(q.free) : q.free[i] = d
    BY <1>3, <1>4, <2>1
  <2>2. CASE d = c
    BY <1>3, <1>4, <2>2
  <2>3. CASE d # c /\ \E v \in Users : d \in held[v]
    BY <1>1, <2>3
  <2> QED
    BY <2>1, <2>2, <2>3 DEF Apart
<1> QED
  BY <1>2, <1>6, <1>7, <1>8, <1>9, <1>10 DEF Apart

LEMMA PoolParts ==
    ASSUME NEW p \in PoolNames
    PROVE  p[1] \in Kinds /\ p[2] \in 1..Needs(p[1]) /\ p[2] \in Nat /\ p = <<p[1], p[2]>>
<1>1. PICK kind \in Kinds : p \in {kind} \X (1..Needs(kind))
  BY DEF PoolNames
<1>2. Needs(kind) \in Nat
  BY DEF Needs
<1> QED
  BY <1>1, <1>2

LEMMA HoldType ==
    ASSUME TypeOK, NEW p \in PoolNames
    PROVE  Hold(p) \in [Users -> SUBSET Nat]
<1>1. ASSUME NEW u \in Users PROVE Held(u, p) \subseteq Nat
  <2>1. job[u].held \in Seq(Nat) /\ p[2] \in 1..Needs(p[1]) /\ Needs(p[1]) \in Nat
    BY PoolParts, JobParts DEF Needs
  <2>2. p[2] <= Len(job[u].held) => job[u].held[p[2]] \in Nat
    <3>1. p[2] <= Len(job[u].held) => p[2] \in 1..Len(job[u].held)
      BY <2>1, JobParts
    <3>2. \A i \in 1..Len(job[u].held) : job[u].held[i] \in Nat
      BY <2>1, ElementOfSeq
    <3> QED
      BY <3>1, <3>2
  <2> QED
    BY <2>2 DEF Held
<1> QED
  BY <1>1 DEF Hold

\* A step that moves no client.
LEMMA KeepsPlaces ==
    ASSUME TypeOK, Spread, pools' = pools,
           \A v \in Users :
              /\ job'[v].held = job[v].held
              /\ job'[v].kind = job[v].kind \/ job[v].held = <<>>
    PROVE  Spread'
<1>1. ASSUME NEW p \in PoolNames, NEW v \in Users
      PROVE  Held(v, p)' = Held(v, p)
  <2>1. p[2] >= 1 /\ p[2] \in Nat /\ Len(<<>>) = 0
    BY PoolParts, EmptySeq DEF Needs
  <2>2. CASE job[v].held = <<>>
    <3>1. job'[v].held = <<>> /\ ~(p[2] <= Len(<<>>))
      BY <2>1, <2>2
    <3> QED
      BY <2>2, <3>1 DEF Held
  <2>3. CASE job'[v].kind = job[v].kind
    BY <2>3 DEF Held
  <2> QED
    BY <2>2, <2>3
<1>2. \A p \in PoolNames : Hold(p)' = Hold(p)
  BY <1>1 DEF Hold
<1> QED
  BY <1>2 DEF Spread

\* A client goes from the pool to a task.
LEMMA AllocSpreads ==
    ASSUME TypeOK, Hands, Spread, NEW u \in Users, AllocClient(u)
    PROVE  Spread'
<1> DEFINE n == Len(job[u].held) + 1
<1>1. /\ job[u] \in Job /\ job[u].held \in Seq(Nat) /\ job[u].kind \in Kinds
      /\ n \in Nat /\ n - 1 = Len(job[u].held) /\ n >= 1
  <2>1. job[u] \in Job /\ job[u].held \in Seq(Nat) /\ job[u].kind \in Kinds
    BY DEF TypeOK, Job
  <2> QED
    BY <2>1, LenProperties
<1>2. PICK p \in PoolNames : p = <<job[u].kind, n>>
  <2>1. Needs(job[u].kind) \in {1, 2} /\ Len(job[u].held) < Needs(job[u].kind)
    BY DEF Hands, AllocClient, Needs
  <2>2. n \in 1..Needs(job[u].kind)
    BY <1>1, <2>1
  <2> QED
    BY <1>1, <2>2, PoolName
<1> DEFINE c == Given(pools[p])
<1>3. pools[p] \in Pool /\ c \in Nat
  BY <1>2, PoolOps DEF TypeOK
<1>4. /\ Len(Append(job[u].held, c)) = n /\ Append(job[u].held, c)[n] = c
      /\ \A i \in 1..(n - 1) : Append(job[u].held, c)[i] = job[u].held[i]
  BY <1>1, <1>3, AppendProperties
<1>5. job'[u].held = Append(job[u].held, c) /\ job'[u].kind = job[u].kind
  <2>1. job' = [job EXCEPT ![u].held = Append(@, c)]
    BY <1>2 DEF AllocClient
  <2> QED
    BY <1>1, <2>1 DEF TypeOK, Job
<1>6. \A v \in Users : v # u => job'[v] = job[v]
  BY DEF AllocClient, TypeOK
<1>7. /\ pools'[p] = Alloc(pools[p])
      /\ \A q \in PoolNames : q # p => pools'[q] = pools[q]
  BY <1>2 DEF AllocClient, TypeOK
<1> HIDE DEF c
<1>8. ASSUME NEW q \in PoolNames, q # p
      PROVE  Hold(q)' = Hold(q)
  <2>1. q[2] \in Nat /\ q[2] >= 1 /\ (q[1] = job[u].kind => q[2] # n)
    BY <1>2, <1>8, PoolParts DEF Needs
  <2>2. Held(u, q)' = Held(u, q)
    <3>1. CASE q[1] = job[u].kind /\ q[2] <= n - 1
      <4>1. q[2] \in 1..(n - 1) /\ q[2] <= n
        BY <1>1, <2>1, <3>1
      <4>2. /\ q[2] <= Len(job'[u].held) /\ job'[u].held[q[2]] = job[u].held[q[2]]
            /\ q[2] <= Len(job[u].held)
        BY <1>1, <1>4, <1>5, <3>1, <4>1
      <4> QED
        BY <1>5, <3>1, <4>2 DEF Held
    <3>2. CASE ~(q[1] = job[u].kind /\ q[2] <= n - 1)
      <4>1. ~(q[1] = job[u].kind /\ q[2] <= n)
        BY <1>1, <2>1, <3>2
      <4> QED
        BY <1>1, <1>4, <1>5, <3>2, <4>1 DEF Held
    <3> QED
      BY <3>1, <3>2
  <2>3. \A v \in Users : Held(v, q)' = Held(v, q)
    BY <1>6, <2>2 DEF Held
  <2> QED
    BY <2>3 DEF Hold
<1>9. Hold(p)' = [Hold(p) EXCEPT ![u] = {c}] /\ Hold(p)[u] = {}
  <2>1. Held(u, p)' = {c}
    <3>1. p[1] = job'[u].kind /\ p[2] = n /\ n <= Len(job'[u].held) /\ job'[u].held[n] = c
      BY <1>1, <1>2, <1>4, <1>5
    <3> QED
      BY <3>1 DEF Held
  <2>2. Held(u, p) = {}
    BY <1>1, <1>2 DEF Held
  <2>3. \A v \in Users : v # u => Held(v, p)' = Held(v, p)
    BY <1>6 DEF Held
  <2> QED
    BY <2>1, <2>2, <2>3 DEF Hold
<1>10. Apart(pools'[p].free, Hold(p)', pools'[p].cnt)
  <2>1. Apart(pools[p].free, Hold(p), pools[p].cnt) /\ Hold(p) \in [Users -> SUBSET Nat]
    BY <1>2, HoldType DEF Spread
  <2>2. Apart(Alloc(pools[p]).free, [Hold(p) EXCEPT ![u] = {c}], Alloc(pools[p]).cnt)
    BY <1>3, <1>9, <2>1, AllocApart DEF c
  <2> QED
    BY <1>7, <1>9, <2>2
<1> QED
  BY <1>7, <1>8, <1>10 DEF Spread

\* And back.
LEMMA FreeSpreads ==
    ASSUME TypeOK, Hands, Spread, NEW u \in Users, FreeClient(u)
    PROVE  Spread'
<1> DEFINE n == Len(job[u].held)
           rest == SubSeq(job[u].held, 1, n - 1)
<1>1. /\ job[u] \in Job /\ job[u].held \in Seq(Nat) /\ job[u].kind \in Kinds
      /\ n \in 1..Needs(job[u].kind) /\ n \in Nat /\ n >= 1 /\ n - 1 \in Nat
  <2>1. job[u] \in Job /\ job[u].held \in Seq(Nat) /\ job[u].kind \in Kinds
    BY DEF TypeOK, Job
  <2>2. n \in 1..Needs(job[u].kind)
    BY DEF FreeClient, Hands
  <2>3. n \in Nat /\ n >= 1
    BY <2>1, <2>2, LenProperties DEF Needs
  <2> QED
    BY <2>1, <2>2, <2>3
<1>2. /\ \E p \in PoolNames : p = <<job[u].kind, n>>
      /\ \E c \in Nat : c = job[u].held[n]
  <2>1. job[u].held[n] \in Nat
    BY <1>1, ElementOfSeq
  <2> QED
    BY <1>1, <2>1, PoolName
<1>p. PICK p \in PoolNames : p = <<job[u].kind, n>>
  BY <1>2
<1>c. PICK c \in Nat : c = job[u].held[n]
  BY <1>2
<1>3. pools[p] \in Pool
  BY DEF TypeOK
<1>4. Len(rest) = n - 1 /\ \A i \in 1..(n - 1) : rest[i] = job[u].held[i]
  <2>1. n - 1 \in 0..n /\ 1 \in 1..(n + 1)
    BY <1>1
  <2>2. Len(rest) = n - 1 /\ \A i \in 1..(n - 1) : rest[i] = job[u].held[1 + i - 1]
    BY <1>1, <2>1, SubSeqProperties
  <2>3. \A i \in 1..(n - 1) : 1 + i - 1 = i
    BY <1>1
  <2> QED
    BY <2>2, <2>3
<1>5. /\ n = 1 => job'[u].held = <<>>
      /\ n # 1 => job'[u].held = rest /\ job'[u].kind = job[u].kind
  BY <1>1 DEF FreeClient, TypeOK, Job, Idle
<1>6. \A v \in Users : v # u => job'[v] = job[v]
  BY DEF FreeClient, TypeOK
<1>7. /\ pools'[p] = Free(pools[p], c)
      /\ \A q \in PoolNames : q # p => pools'[q] = pools[q]
  BY <1>p, <1>c DEF FreeClient, TypeOK
<1>8. ASSUME NEW q \in PoolNames
      PROVE  Held(u, q)' = IF q = p THEN {} ELSE Held(u, q)
  <2>1. /\ q[2] \in Nat /\ q[2] >= 1 /\ Len(<<>>) = 0
        /\ q[1] = job[u].kind /\ q[2] = n <=> q = p
    BY <1>p, PoolParts, EmptySeq DEF Needs
  <2>2. CASE n = 1
    <3>1. Held(u, q)' = {}
      BY <1>5, <2>1, <2>2 DEF Held
    <3>2. q # p => Held(u, q) = {}
      BY <1>1, <2>1, <2>2 DEF Held
    <3> QED
      BY <3>1, <3>2
  <2>3. CASE n # 1
    <3>1. CASE q[1] = job[u].kind /\ q[2] <= n - 1
      <4>1. q[2] \in 1..(n - 1) /\ q[2] <= n /\ q # p
        BY <1>1, <2>1, <3>1
      <4> QED
        BY <1>1, <1>4, <1>5, <2>3, <3>1, <4>1 DEF Held
    <3>2. CASE ~(q[1] = job[u].kind /\ q[2] <= n - 1)
      <4>1. Held(u, q)' = {}
        BY <1>4, <1>5, <2>3, <3>2 DEF Held
      <4>2. q # p => Held(u, q) = {}
        <5>1. q # p => ~(q[1] = job[u].kind /\ q[2] <= n)
          BY <1>1, <2>1, <3>2
        <5> QED
          BY <5>1 DEF Held
      <4> QED
        BY <4>1, <4>2
    <3> QED
      BY <3>1, <3>2
  <2> QED
    BY <2>2, <2>3
<1>9. \A q \in PoolNames : \A v \in Users : v # u => Held(v, q)' = Held(v, q)
  BY <1>6 DEF Held
<1>10. \A q \in PoolNames : q # p => Hold(q)' = Hold(q)
  BY <1>8, <1>9 DEF Hold
<1>11. Hold(p)' = [Hold(p) EXCEPT ![u] = {}] /\ Hold(p)[u] = {c}
  <2>1. Held(u, p) = {c}
    BY <1>1, <1>p, <1>c DEF Held
  <2> QED
    BY <1>8, <1>9, <2>1 DEF Hold
<1>12. Apart(pools'[p].free, Hold(p)', pools'[p].cnt)
  <2>1. Apart(pools[p].free, Hold(p), pools[p].cnt) /\ Hold(p) \in [Users -> SUBSET Nat]
    BY HoldType DEF Spread
  <2>2. Apart(Free(pools[p], c).free, [Hold(p) EXCEPT ![u] = {}], Free(pools[p], c).cnt)
    BY <1>3, <1>11, <2>1, FreeApart
  <2> QED
    BY <1>7, <1>11, <2>2
<1> QED
  BY <1>7, <1>10, <1>12 DEF Spread

SpreadInv == TypeOK /\ Hands /\ Spread

LEMMA SpreadKept == SpreadInv /\ [Next]_vars => SpreadInv'
<1> SUFFICES ASSUME TypeOK, Hands, Spread, [Next]_vars PROVE Spread'
  BY TypesKept DEF SpreadInv
<1>1. CASE UNCHANGED vars
  BY <1>1, KeepsPlaces DEF vars
<1>2. ASSUME NEW u \in Users, User(u) PROVE Spread'
  <2>1. CASE AllocClient(u) \/ FreeClient(u)
    BY <2>1, AllocSpreads, FreeSpreads
  <2>2. CASE Begin(u)
    <3>1. job[u].held = <<>> /\ job'[u].held = <<>> /\ pools' = pools
      BY <2>2 DEF Begin, Hands, TypeOK
    <3>2. \A v \in Users : v # u => job'[v] = job[v]
      BY <2>2 DEF Begin, TypeOK
    <3> QED
      BY <3>1, <3>2, KeepsPlaces
  <2>3. CASE Decide(u)
    <3>1. PICK role \in {"send", "read"} : job' = [job EXCEPT ![u].role = role, ![u].nc = 0]
      BY <2>3 DEF Decide
    <3>2. pools' = pools /\ \A v \in Users : job[v] \in Job
      BY <2>3 DEF Decide, TypeOK
    <3>3. \A v \in Users : job'[v].held = job[v].held /\ job'[v].kind = job[v].kind
      BY <3>1, <3>2 DEF TypeOK, Job
    <3> QED
      BY <3>2, <3>3, KeepsPlaces
  <2>4. CASE \/ LockRing(u) \/ StoreHash(u) \/ AdvanceTail(u) \/ ReadHash(u)
             \/ EthAccepted(u) \/ EthFails(u)
             \/ LockNumber(u) \/ BlockNumber(u) \/ Request(u)
    <3>1. pools' = pools /\ job' = job
      BY <2>4 DEF LockRing, StoreHash, AdvanceTail, ReadHash, EthAccepted, EthFails,
                  LockNumber, BlockNumber, Request
    <3> QED
      BY <3>1, KeepsPlaces
  <2> QED
    BY <1>2, <2>1, <2>2, <2>3, <2>4 DEF User
<1>3. ASSUME NEW c \in checks, Checker(c) PROVE Spread'
  <2>1. pools' = pools /\ job' = job
    BY <1>3 DEF Checker, Retry
  <2> QED
    BY <2>1, KeepsPlaces
<1> QED
  BY <1>1, <1>2, <1>3 DEF Next, Exhausted

LEMMA SpreadInit == Init => SpreadInv
<1> SUFFICES ASSUME Init, TypeOK PROVE Spread
  BY TypesInit DEF SpreadInv
<1> DEFINE free == [i \in 1..InitPool |-> i]
<1>1. free \in Seq(Nat) /\ Len(free) = InitPool
  <2>1. free \in Seq(Nat)
    BY SeqDef
  <2> QED
    BY <2>1, LenProperties
<1>2. ASSUME NEW p \in PoolNames
      PROVE  Hold(p) = [u \in Users |-> {}]
  <2>1. \A u \in Users : job[u].held = <<>>
    BY DEF Init, Idle
  <2>2. p[2] \in Nat /\ p[2] >= 1 /\ Len(<<>>) = 0
    BY PoolParts, EmptySeq DEF Needs
  <2>3. \A u \in Users : Held(u, p) = {}
    BY <2>1, <2>2 DEF Held
  <2> QED
    BY <2>3 DEF Hold
<1>3. \A p \in PoolNames : pools[p].free = free /\ pools[p].cnt = InitPool
  BY DEF Init, NewPool
<1>4. Apart(free, [u \in Users |-> {}], InitPool)
  BY <1>1 DEF Apart
<1> QED
  BY <1>2, <1>3, <1>4 DEF Spread

\* No client is lost and none is given to two tasks, for any number of users
\* and clients: what a task allocates it gives back, and nothing else.
THEOREM OnePlaceAlways == Spec => []OnePlace
<1>1. Spec => []SpreadInv
  BY SpreadInit, SpreadKept, PTL DEF Spec
<1>2. SpreadInv => OnePlace
  BY OnePlaceIsSpread DEF SpreadInv
<1> QED
  BY <1>1, <1>2, PTL

----------------------------------------------------------------------------
(* How far a pool grows: Alloc makes a client only where each of those it  *)
(* made before is in the hands of another user.                            *)

LEMMA GrowthIsBounded ==
    ASSUME NEW made \in Nat, NEW u \in Users, NEW held \in [Users -> SUBSET Nat],
           held[u] = {},
           \A v \in Users : \A c, d \in held[v] : c = d,
           \A c \in 1..made : \E v \in Users : c \in held[v]
    PROVE  made + 1 <= Cardinality(Users)
<1> DEFINE others == Users \ {u}
           holder == [c \in 1..made |-> CHOOSE v \in others : c \in held[v]]
<1>1. /\ IsFiniteSet(others) /\ Cardinality(Users) \in Nat
      /\ Cardinality(others) = Cardinality(Users) - 1
  BY FS_RemoveElement, FS_CardinalityType
<1>2. IsFiniteSet(1..made) /\ Cardinality(1..made) = made
  <2>1. IsFiniteSet(1..made) /\ Cardinality(1..made) = IF 1 > made THEN 0 ELSE made - 1 + 1
    BY FS_Interval
  <2> QED
    BY <2>1
<1>3. \A c \in 1..made : \E v \in others : c \in held[v]
  OBVIOUS
<1>4. \A c \in 1..made : holder[c] \in others /\ c \in held[holder[c]]
  BY <1>3
<1>5. holder \in [1..made -> others]
  BY <1>4
<1>6. \A c, d \in 1..made : holder[c] = holder[d] => c = d
  BY <1>4
<1> HIDE DEF holder, others
<1>7. ~(Cardinality(others) < Cardinality(1..made))
  BY <1>1, <1>2, <1>5, <1>6, FS_PigeonHole
<1> QED
  BY <1>1, <1>2, <1>7

GrowInv == SpreadInv /\ PoolBounded

LEMMA GrowKept == GrowInv /\ [Next]_vars => GrowInv'
<1> SUFFICES ASSUME TypeOK, Hands, Spread, PoolBounded, [Next]_vars PROVE PoolBounded'
  BY SpreadKept DEF GrowInv, SpreadInv
<1>1. CASE UNCHANGED pools
  BY <1>1 DEF PoolBounded
<1>2. ASSUME NEW u \in Users, FreeClient(u) PROVE PoolBounded'
  <2>1. ASSUME NEW p \in PoolNames PROVE pools'[p].cnt = pools[p].cnt
    BY <1>2, <2>1 DEF FreeClient, Free, TypeOK, Pool
  <2> QED
    BY <2>1 DEF PoolBounded
<1>3. ASSUME NEW u \in Users, AllocClient(u) PROVE PoolBounded'
  <2> DEFINE n == Len(job[u].held) + 1
             bound == IF InitPool > Cardinality(Users) THEN InitPool ELSE Cardinality(Users)
  <2>1. /\ pools' = [pools EXCEPT ![<<job[u].kind, n>>] = Alloc(@)]
        /\ Len(job[u].held) \in Nat
    <3>1. job[u].held \in Seq(Nat)
      BY DEF TypeOK, Job
    <3> QED
      BY <1>3, <3>1, LenProperties DEF AllocClient
  <2>2. ASSUME NEW p \in PoolNames PROVE pools'[p].cnt <= bound
    <3>1. /\ pools[p] \in Pool /\ pools[p].cnt \in Nat /\ Cardinality(Users) \in Nat
          /\ pools[p].cnt <= bound
      BY FS_CardinalityType DEF TypeOK, Pool, PoolBounded
    <3>2. CASE p # <<job[u].kind, n>>
      BY <2>1, <3>1, <3>2 DEF TypeOK
    <3>3. CASE p = <<job[u].kind, n>> /\ pools[p].free # <<>>
      <4>1. pools'[p] = [pools[p] EXCEPT !.free = Tail(@)]
        BY <2>1, <3>3 DEF TypeOK, Alloc
      <4> QED
        BY <3>1, <4>1 DEF Pool
    <3>4. CASE p = <<job[u].kind, n>> /\ pools[p].free = <<>>
      <4>1. pools'[p].cnt = pools[p].cnt + 1
        <5>1. pools'[p] = [pools[p] EXCEPT !.cnt = @ + 1]
          BY <2>1, <3>4 DEF TypeOK, Alloc
        <5> QED
          BY <3>1, <5>1 DEF Pool
      <4>2. Len(pools[p].free) = 0 /\ 1..0 = {}
        BY <3>4, EmptySeq
      <4>3. Hold(p)[u] = {}
        BY <2>1, <3>4 DEF Hold, Held
      <4>4. \A v \in Users : \A c, d \in Hold(p)[v] : c = d
        BY DEF Hold, Held
      <4>5. \A c \in 1..pools[p].cnt : \E v \in Users : c \in Hold(p)[v]
        <5>1. Apart(pools[p].free, Hold(p), pools[p].cnt)
          BY DEF Spread
        <5> QED
          BY <4>2, <5>1 DEF Apart
      <4>6. pools[p].cnt + 1 <= Cardinality(Users)
        BY <3>1, <4>3, <4>4, <4>5, HoldType, GrowthIsBounded
      <4> QED
        BY <3>1, <4>1, <4>6
    <3> QED
      BY <3>2, <3>3, <3>4
  <2> QED
    BY <2>2 DEF PoolBounded
<1>4. CASE \E u \in Users : User(u)
  BY <1>1, <1>2, <1>3, <1>4 DEF User, Begin, Decide, LockRing, StoreHash, AdvanceTail, ReadHash,
                               EthAccepted, EthFails, LockNumber, BlockNumber, Request
<1>5. CASE \E c \in checks : Checker(c)
  BY <1>1, <1>5 DEF Checker, Retry
<1> QED
  BY <1>1, <1>4, <1>5 DEF Next, Exhausted, vars

LEMMA GrowInit == Init => GrowInv
<1> SUFFICES ASSUME Init PROVE PoolBounded
  BY SpreadInit DEF GrowInv
<1>1. \A p \in PoolNames : pools[p].cnt = InitPool
  BY DEF Init, NewPool
<1>2. Cardinality(Users) \in Nat
  BY FS_CardinalityType
<1> QED
  BY <1>1, <1>2 DEF PoolBounded

\* A pool never makes more clients than there are users, or were at the start,
\* for any number of either: the maximum that Alloc ignores is not needed.
THEOREM PoolBoundedAlways == Spec => []PoolBounded
<1>1. Spec => []GrowInv
  BY GrowInit, GrowKept, PTL DEF Spec
<1> QED
  BY <1>1, PTL DEF GrowInv

----------------------------------------------------------------------------
(* The ring and the window.  Once it is full the oldest hash is at tail,   *)
(* unless the holder of the lock has just put the next one there.          *)

\* The slot of hash number i of the window, once the ring is full.
SlotOf(i) == IF tail + i - 1 < Size THEN tail + i - 1 ELSE tail + i - 1 - Size

Stored == \E u \in Users : pc[u] = "advance"

RingInv ==
    /\ ~isFull => /\ Len(window) = tail
                  /\ \A i \in 1..Len(window) : window[i] = slots[i - 1]
    /\ isFull => /\ Len(window) = Size
                 /\ \A i \in 1..Size : (i # 1 \/ ~Stored) => window[i] = slots[SlotOf(i)]
    /\ \A u \in Users : pc[u] = "advance" => slots[tail] = job[u].task

\* One step of tail around the ring.
LEMMA NextTail ==
    ASSUME NEW t \in 0..(Size - 1)
    PROVE  (t + 1) % Size = IF t + 1 = Size THEN 0 ELSE t + 1
<1>1. CASE t + 1 = Size
  BY <1>1
<1>2. CASE t + 1 # Size
  <2>1. t + 1 \in 0..(Size - 1)
    BY <1>2
  <2> QED
    BY <1>2, <2>1
<1> QED
  BY <1>1, <1>2

\* Only the holder of the lock is in the middle of addHash.
LEMMA OneAdvance ==
    ASSUME TypeOK, NEW u \in Users, NEW v \in Users,
           pc[u] \in {"store", "advance"}, pc[v] \in {"store", "advance"}
    PROVE  u = v
  BY DEF TypeOK

LEMMA StoreKeepsRing ==
    ASSUME TypeOK, RingInv, NEW u \in Users, StoreHash(u)
    PROVE  RingInv'
<1>1. /\ tail \in 0..(Size - 1) /\ window \in Seq(Nat) /\ Len(window) \in Nat
      /\ slots \in [0..(Size - 1) -> Nat]
  BY DEF TypeOK
<1>2. /\ tail' = tail /\ isFull' = isFull /\ window' = window /\ job' = job
      /\ slots' = [slots EXCEPT ![tail] = job[u].task] /\ pc[u] = "store"
      /\ pc' = [pc EXCEPT ![u] = "advance"]
  BY DEF StoreHash, Goto
<1>3. \A v \in Users : v # u => pc[v] # "advance" /\ pc'[v] # "advance"
  BY <1>2, OneAdvance DEF TypeOK
<1>4. ~Stored /\ pc'[u] = "advance" /\ Stored'
  BY <1>2, <1>3 DEF TypeOK, Stored
<1>5. ~isFull => \A i \in 1..Len(window) : window[i] = slots'[i - 1]
  <2> SUFFICES ASSUME ~isFull, NEW i \in 1..Len(window) PROVE window[i] = slots'[i - 1]
    OBVIOUS
  <2>1. window[i] = slots[i - 1] /\ Len(window) = tail
    BY DEF RingInv
  <2>2. i - 1 \in 0..(Size - 1) /\ i - 1 # tail
    BY <1>1, <2>1
  <2> QED
    BY <1>1, <1>2, <2>1, <2>2
<1>6. isFull => \A i \in 1..Size : i # 1 => window[i] = slots'[SlotOf(i)]
  <2> SUFFICES ASSUME isFull, NEW i \in 1..Size, i # 1 PROVE window[i] = slots'[SlotOf(i)]
    OBVIOUS
  <2>1. window[i] = slots[SlotOf(i)]
    BY <1>4 DEF RingInv
  <2>2. SlotOf(i) \in 0..(Size - 1) /\ SlotOf(i) # tail
    BY <1>1 DEF SlotOf
  <2> QED
    BY <1>1, <1>2, <2>1, <2>2
<1>7. \A v \in Users : pc'[v] = "advance" => slots'[tail] = job[v].task
  BY <1>1, <1>2, <1>3
<1>8. \A i \in 1..Size : SlotOf(i)' = SlotOf(i)
  BY <1>2 DEF SlotOf
<1> QED
  BY <1>2, <1>4, <1>5, <1>6, <1>7, <1>8 DEF RingInv

LEMMA AdvanceKeepsRing ==
    ASSUME TypeOK, RingInv, NEW u \in Users, AdvanceTail(u)
    PROVE  RingInv'
<1> DEFINE task == job[u].task
<1>1. /\ tail \in 0..(Size - 1) /\ window \in Seq(Nat) /\ Len(window) \in Nat
      /\ slots \in [0..(Size - 1) -> Nat] /\ isFull \in BOOLEAN /\ Len(window) <= Size
      /\ task \in Nat
  <2>1. window \in Seq(Nat) /\ Len(window) \in Nat /\ Len(window) <= Size
    BY LenProperties DEF TypeOK
  <2>2. tail \in 0..(Size - 1) /\ slots \in [0..(Size - 1) -> Nat] /\ isFull \in BOOLEAN
    BY DEF TypeOK
  <2> QED
    BY <2>1, <2>2, JobParts
<1>2. /\ slots' = slots /\ pc[u] = "advance" /\ pc' = [pc EXCEPT ![u] = "free"]
      /\ tail' = (tail + 1) % Size /\ isFull' = (isFull \/ tail' = 0)
      /\ window' = Append(IF Len(window) = Size THEN Tail(window) ELSE window, task)
  BY DEF AdvanceTail, Goto
<1>3. tail' = IF tail + 1 = Size THEN 0 ELSE tail + 1
  BY <1>1, <1>2, NextTail
<1>4. \A v \in Users : pc'[v] # "advance"
  BY <1>2, OneAdvance DEF TypeOK
<1>5. ~Stored'
  BY <1>4 DEF Stored
<1>6. slots[tail] = task
  BY <1>2 DEF RingInv
<1>7. CASE ~isFull
  <2>1. Len(window) = tail /\ \A i \in 1..tail : window[i] = slots[i - 1]
    BY <1>7 DEF RingInv
  <2>2. window' = Append(window, task)
    BY <1>1, <1>2, <2>1
  <2>3. /\ Len(window') = tail + 1 /\ window'[tail + 1] = task
        /\ \A i \in 1..tail : window'[i] = window[i]
    BY <1>1, <2>1, <2>2, AppendProperties
  <2>4. ASSUME NEW i \in 1..(tail + 1) PROVE window'[i] = slots[i - 1]
    <3>1. CASE i \in 1..tail
      BY <2>1, <2>3, <3>1
    <3>2. CASE i = tail + 1
      BY <1>1, <1>6, <2>3, <3>2
    <3> QED
      BY <1>1, <3>1, <3>2
  <2>5. CASE tail + 1 = Size
    <3>1. tail' = 0 /\ isFull'
      BY <1>2, <1>3, <2>5
    <3>2. \A i \in 1..Size : SlotOf(i)' = i - 1
      BY <3>1 DEF SlotOf
    <3>3. Len(window') = Size /\ \A i \in 1..Size : window'[i] = slots'[SlotOf(i)']
      BY <1>2, <2>3, <2>4, <2>5, <3>2
    <3> QED
      BY <1>4, <3>1, <3>3 DEF RingInv
  <2>6. CASE tail + 1 # Size
    <3>1. tail' = tail + 1 /\ ~isFull'
      BY <1>1, <1>2, <1>3, <1>7, <2>6
    <3> QED
      BY <1>2, <1>4, <2>3, <2>4, <3>1 DEF RingInv
  <2> QED
    BY <2>5, <2>6
<1>8. CASE isFull
  <2>1. /\ Len(window) = Size
        /\ \A i \in 1..Size : i # 1 => window[i] = slots[SlotOf(i)]
    BY <1>8 DEF RingInv
  <2>2. window' = Append(Tail(window), task) /\ window # <<>>
    BY <1>2, <2>1, EmptySeq
  <2>3. /\ Tail(window) \in Seq(Nat) /\ Len(Tail(window)) = Size - 1
        /\ \A i \in 1..(Size - 1) : Tail(window)[i] = window[i + 1]
    BY <1>1, <2>1, <2>2, HeadTailProperties
  <2>4. /\ Len(window') = Size /\ window'[Size] = task
        /\ \A i \in 1..(Size - 1) : window'[i] = window[i + 1]
    BY <1>1, <2>2, <2>3, AppendProperties
  <2>5. isFull'
    BY <1>2, <1>8
  <2>6. ASSUME NEW i \in 1..Size PROVE window'[i] = slots[SlotOf(i)']
    <3>1. SlotOf(i)' = IF tail' + i - 1 < Size THEN tail' + i - 1 ELSE tail' + i - 1 - Size
      BY DEF SlotOf
    <3>2. CASE i = Size
      <4>1. SlotOf(i)' = tail
        BY <1>1, <1>3, <3>1, <3>2
      <4> QED
        BY <1>6, <2>4, <3>2, <4>1
    <3>3. CASE i # Size
      <4>1. i \in 1..(Size - 1) /\ i + 1 \in 1..Size /\ i + 1 # 1
        BY <3>3
      <4>2. SlotOf(i)' = SlotOf(i + 1)
        BY <1>1, <1>3, <3>1, <4>1 DEF SlotOf
      <4> QED
        BY <2>1, <2>4, <4>1, <4>2
    <3> QED
      BY <3>2, <3>3
  <2> QED
    BY <1>2, <1>4, <2>4, <2>5, <2>6 DEF RingInv
<1> QED
  BY <1>1, <1>7, <1>8

RingSpecInv == TypeOK /\ Hands /\ RingInv

LEMMA RingKept == RingSpecInv /\ [Next]_vars => RingSpecInv'
<1> SUFFICES ASSUME TypeOK, Hands, RingInv, [Next]_vars PROVE RingInv'
  BY TypesKept DEF RingSpecInv
<1>1. ASSUME UNCHANGED <<slots, tail, isFull, window>>,
             \A u \in Users : pc'[u] = "advance" => pc[u] = "advance",
             \A u \in Users : pc[u] = "advance" => pc'[u] = "advance" /\ job'[u] = job[u]
      PROVE  RingInv'
  <2>1. Stored' = Stored
    BY <1>1 DEF Stored
  <2>2. \A i \in 1..Size : SlotOf(i)' = SlotOf(i)
    BY <1>1 DEF SlotOf
  <2> QED
    BY <1>1, <2>1, <2>2 DEF RingInv
<1>2. CASE UNCHANGED vars
  BY <1>1, <1>2 DEF vars, ringVars
<1>3. ASSUME NEW u \in Users, User(u) PROVE RingInv'
  <2>1. CASE StoreHash(u)
    BY <2>1, StoreKeepsRing
  <2>2. CASE AdvanceTail(u)
    BY <2>2, AdvanceKeepsRing
  <2>3. CASE \/ Begin(u) \/ AllocClient(u) \/ FreeClient(u) \/ Decide(u)
    <3>1. pc[u] # "advance" /\ pc'[u] # "advance" /\ UNCHANGED <<slots, tail, isFull, window>>
      BY <2>3 DEF Begin, AllocClient, FreeClient, Decide, Goto, TypeOK, Job, ringVars
    <3>2. \A v \in Users : v # u => pc'[v] = pc[v] /\ job'[v] = job[v]
      BY <2>3 DEF Begin, AllocClient, FreeClient, Decide, Goto, TypeOK
    <3> QED
      BY <1>1, <3>1, <3>2
  <2>4. CASE \/ LockRing(u) \/ ReadHash(u) \/ EthAccepted(u) \/ EthFails(u)
             \/ LockNumber(u) \/ BlockNumber(u) \/ Request(u)
    <3>1. /\ pc[u] # "advance" /\ pc'[u] # "advance" /\ job' = job
          /\ UNCHANGED <<slots, tail, isFull, window>>
      BY <2>4 DEF LockRing, ReadHash, EthAccepted, EthFails, LockNumber, BlockNumber, Request,
                  Goto, TypeOK, ringVars
    <3>2. \A v \in Users : v # u => pc'[v] = pc[v]
      BY <2>4 DEF LockRing, ReadHash, EthAccepted, EthFails, LockNumber, BlockNumber, Request,
                  Goto, TypeOK
    <3> QED
      BY <1>1, <3>1, <3>2
  <2> QED
    BY <1>3, <2>1, <2>2, <2>3, <2>4 DEF User
<1>4. ASSUME NEW c \in checks, Checker(c) PROVE RingInv'
  BY <1>1, <1>4 DEF Checker, Retry, ringVars
<1> QED
  BY <1>2, <1>3, <1>4 DEF Next, Exhausted

LEMMA RingInit == Init => RingSpecInv
<1> SUFFICES ASSUME Init PROVE RingInv
  BY TypesInit DEF RingSpecInv
<1>1. /\ ~isFull /\ tail = 0 /\ window = <<>> /\ Len(<<>>) = 0
      /\ \A u \in Users : pc[u] # "advance"
  BY EmptySeq DEF Init
<1> QED
  BY <1>1 DEF RingInv

LEMMA RingShows == RingSpecInv => RingIsWindow
<1> SUFFICES ASSUME TypeOK, RingInv, rwMutex = None
             PROVE  {slots[i] : i \in Readable} = {window[i] : i \in DOMAIN window}
  BY DEF RingSpecInv, RingIsWindow
<1>1. /\ tail \in 0..(Size - 1) /\ DOMAIN window = 1..Len(window) /\ Len(window) \in Nat
  BY LenProperties DEF TypeOK
<1>2. ~Stored
  BY DEF Stored, TypeOK
<1>3. CASE ~isFull
  <2>1. /\ Len(window) = tail /\ Readable = 0..(tail - 1)
        /\ \A i \in 1..tail : window[i] = slots[i - 1]
    BY <1>3 DEF RingInv, Readable
  <2>2. \A s \in Readable : s + 1 \in 1..tail /\ slots[s] = window[s + 1]
    BY <1>1, <2>1
  <2>3. \A i \in 1..tail : i - 1 \in Readable /\ window[i] = slots[i - 1]
    BY <1>1, <2>1
  <2> QED
    BY <1>1, <2>1, <2>2, <2>3
<1>4. CASE isFull
  <2>1. /\ Len(window) = Size /\ Readable = 0..(Size - 1)
        /\ \A i \in 1..Size : window[i] = slots[SlotOf(i)]
    BY <1>2, <1>4 DEF RingInv, Readable
  <2>2. \A i \in 1..Size : SlotOf(i) \in Readable
    BY <1>1, <2>1 DEF SlotOf
  <2>3. ASSUME NEW s \in Readable PROVE \E i \in 1..Size : slots[s] = window[i]
    <3>1. CASE s >= tail
      <4>1. s - tail + 1 \in 1..Size /\ SlotOf(s - tail + 1) = s
        BY <1>1, <2>1, <3>1 DEF SlotOf
      <4> QED
        BY <2>1, <4>1
    <3>2. CASE s < tail
      <4>1. s - tail + 1 + Size \in 1..Size /\ SlotOf(s - tail + 1 + Size) = s
        BY <1>1, <2>1, <3>2 DEF SlotOf
      <4> QED
        BY <2>1, <4>1
    <3> QED
      BY <1>1, <2>1, <3>1, <3>2
  <2>4. {slots[i] : i \in Readable} = {window[i] : i \in 1..Size}
    <3>1. {slots[i] : i \in Readable} \subseteq {window[i] : i \in 1..Size}
      BY <2>3
    <3>2. \A i \in 1..Size : window[i] \in {slots[k] : k \in Readable}
      BY <2>1, <2>2
    <3> QED
      BY <3>1, <3>2
  <2> QED
    BY <1>1, <2>1, <2>4
<1> QED
  BY <1>3, <1>4

\* What getHash may draw are the last hashes added, for any size of the ring
\* and any number of tasks that add to it.
THEOREM RingIsWindowAlways == Spec => []RingIsWindow
<1>1. Spec => []RingSpecInv
  BY RingInit, RingKept, PTL DEF Spec
<1> QED
  BY <1>1, RingShows, PTL

----------------------------------------------------------------------------
(* The statistics.  An open task is in the hands of one user or of one     *)
(* check, so that what publishes its result closes it.                     *)

Working(u) == pc[u] \notin {"idle", "free"}
Open(i) == \/ \E u \in Users : Working(u) /\ job[u].task = i
           \/ \E c \in checks : c.task = i

Unique ==
    /\ \A u, v \in Users : Working(u) /\ Working(v) /\ job[u].task = job[v].task => u = v
    /\ \A u \in Users : \A c \in checks : Working(u) => job[u].task # c.task
    /\ \A c, d \in checks : c.task = d.task => c = d

CountInv == TypeOK /\ Hands /\ Unique /\ CountedOnce

LEMMA TaskNumbers ==
    ASSUME TypeOK
    PROVE  /\ \A u \in Users : Working(u) => job[u].task \in 1..started
           /\ \A c \in checks : c.task \in 1..started
           /\ started \in 0..MaxTasks /\ events \in [1..MaxTasks -> Nat]
<1>1. /\ \A u \in Users : pc[u] # "idle" => job[u].task \in 1..started
      /\ \A c \in checks : c.task \in 1..started
      /\ started \in 0..MaxTasks /\ events \in [1..MaxTasks -> Nat]
  BY DEF TypeOK
<1> QED
  BY <1>1 DEF Working

\* CountedOnce in terms of Open, before and after a step.
LEMMA CountedOpen == CountedOnce <=>
    \A i \in 1..MaxTasks : events[i] = IF i <= started /\ ~Open(i) THEN 1 ELSE 0
  BY DEF CountedOnce, Open, Working

LEMMA CountedOpenAfter == CountedOnce' <=>
    \A i \in 1..MaxTasks : events'[i] = IF i <= started' /\ ~Open(i)' THEN 1 ELSE 0
  BY DEF CountedOnce, Open, Working

\* A step that publishes nothing and opens and closes no task.
LEMMA SameOpen ==
    ASSUME CountedOnce, events' = events, started' = started,
           \A i \in 1..MaxTasks : Open(i)' <=> Open(i)
    PROVE  CountedOnce'
  BY CountedOpen, CountedOpenAfter

\* A step that publishes the result of a task and closes it.
LEMMA ClosesOne ==
    ASSUME TypeOK, CountedOnce, NEW task \in 1..started, Open(task), Publish(task),
           started' = started,
           \A i \in 1..MaxTasks : Open(i)' <=> Open(i) /\ i # task
    PROVE  CountedOnce'
<1>1. /\ \A i \in 1..MaxTasks : events[i] = IF i <= started /\ ~Open(i) THEN 1 ELSE 0
      /\ started \in 0..MaxTasks /\ events \in [1..MaxTasks -> Nat]
  BY CountedOpen, TaskNumbers
<1>2. \A i \in 1..MaxTasks : events'[i] = IF i = task THEN events[i] + 1 ELSE events[i]
  BY <1>1 DEF Publish
<1>3. ASSUME NEW i \in 1..MaxTasks
      PROVE  events'[i] = IF i <= started' /\ ~Open(i)' THEN 1 ELSE 0
  <2>1. CASE i = task
    <3>1. events'[i] = 1 /\ i <= started' /\ ~Open(i)'
      BY <1>1, <1>2, <2>1
    <3> QED
      BY <3>1
  <2>2. CASE i # task
    <3>1. events'[i] = events[i] /\ (Open(i)' <=> Open(i))
      BY <1>2, <2>2
    <3> QED
      BY <1>1, <3>1
  <2> QED
    BY <2>1, <2>2
<1> QED
  BY <1>3, CountedOpenAfter

\* A user is done with its task.
LEMMA UserCloses ==
    ASSUME TypeOK, Unique, CountedOnce, NEW u \in Users, Working(u),
           pc' = [pc EXCEPT ![u] = "free"], job' = job, checks' = checks, started' = started,
           Publish(job[u].task)
    PROVE  Unique' /\ CountedOnce'
<1>1. \A v \in Users : Working(v)' <=> Working(v) /\ v # u
  BY DEF TypeOK, Working
<1>2. Unique'
  BY <1>1 DEF Unique
<1>3. job[u].task \in 1..started /\ Open(job[u].task)
  BY TaskNumbers DEF Open
<1>4. \A i \in 1..MaxTasks : Open(i)' <=> Open(i) /\ i # job[u].task
  BY <1>1 DEF Open, Unique
<1> QED
  BY <1>2, <1>3, <1>4, ClosesOne

LEMMA CheckCounts ==
    ASSUME TypeOK, Unique, CountedOnce, NEW c \in checks, Checker(c)
    PROVE  Unique' /\ CountedOnce'
<1>1. UNCHANGED <<pc, job, pools, cnt, initFlag, ringVars, blockMutex, started>>
  BY DEF Checker, Retry
<1>2. \A v \in Users : Working(v)' <=> Working(v)
  BY <1>1 DEF Working
<1>3. c.task \in 1..started /\ c \in Check
  BY DEF TypeOK
<1>4. CASE NotFound(c)
  <2> DEFINE next == [c EXCEPT !.retries = @ + 1]
  <2>1. checks' = (checks \ {c}) \cup {next} /\ events' = events /\ next.task = c.task
    BY <1>3, <1>4 DEF NotFound, Check
  <2>2. Unique'
    <3> HIDE DEF next
    <3>1. /\ \A d \in checks' : \E e \in checks : d.task = e.task
          /\ \A d \in checks' : d = next \/ (d \in checks /\ d # c)
      BY <2>1
    <3>2. \A d \in checks : d.task = c.task => d = c
      BY DEF Unique
    <3>3. \A d, e \in checks : d.task = e.task => d = e
      BY DEF Unique
    <3>4. \A d, e \in checks' : d.task = e.task => d = e
      BY <2>1, <3>1, <3>2, <3>3
    <3>5. \A u \in Users : \A d \in checks' : Working(u)' => job'[u].task # d.task
      BY <1>1, <1>2, <3>1 DEF Unique
    <3>6. \A u, v \in Users :
             Working(u)' /\ Working(v)' /\ job'[u].task = job'[v].task => u = v
      BY <1>1, <1>2 DEF Unique
    <3> QED
      BY <3>4, <3>5, <3>6 DEF Unique
  <2>3. \A i \in 1..MaxTasks : Open(i)' <=> Open(i)
    BY <1>1, <1>2, <2>1 DEF Open
  <2> QED
    BY <1>1, <2>1, <2>2, <2>3, SameOpen
<1>5. CASE GivesUp(c) \/ Answered(c)
  <2>1. checks' = checks \ {c} /\ Publish(c.task)
    BY <1>5 DEF GivesUp, Answered
  <2>2. Unique'
    BY <1>1, <1>2, <2>1 DEF Unique
  <2>3. \A i \in 1..MaxTasks : Open(i)' <=> Open(i) /\ i # c.task
    BY <1>1, <1>2, <2>1 DEF Open, Unique
  <2>4. Open(c.task)
    BY DEF Open
  <2> QED
    BY <1>1, <1>3, <2>1, <2>2, <2>3, <2>4, ClosesOne
<1> QED
  BY <1>4, <1>5 DEF Checker, Retry

LEMMA UserCounts ==
    ASSUME TypeOK, Hands, Unique, CountedOnce, NEW u \in Users, User(u)
    PROVE  Unique' /\ CountedOnce'
<1>1. CASE Begin(u)
  <2>1. /\ pc[u] = "idle" /\ started' = started + 1 /\ started < MaxTasks
        /\ checks' = checks /\ events' = events
        /\ pc'[u] \in {"decide", "alloc"} /\ job'[u].task = started'
        /\ \A v \in Users : v # u => pc'[v] = pc[v] /\ job'[v] = job[v]
    BY <1>1 DEF Begin, Goto, TypeOK
  <2>2. /\ \A v \in Users : Working(v)' <=> Working(v) \/ v = u
        /\ ~Working(u)
    BY <2>1 DEF Working
  <2>3. /\ \A v \in Users : Working(v) => job[v].task \in 1..started
        /\ \A c \in checks : c.task \in 1..started
        /\ started \in 0..MaxTasks /\ events \in [1..MaxTasks -> Nat]
    BY TaskNumbers
  <2>4. started' \notin 1..started
    BY <2>1, <2>3
  <2>5. Unique'
    <3>1. \A v \in Users : Working(v)' =>
             IF v = u THEN job'[v].task = started'
                      ELSE /\ Working(v) /\ job'[v].task = job[v].task
                           /\ job'[v].task # started'
      BY <2>1, <2>2, <2>3, <2>4
    <3>2. \A c \in checks : c.task # started'
      BY <2>3, <2>4
    <3> QED
      BY <2>1, <3>1, <3>2 DEF Unique
  <2>6. \A i \in 1..MaxTasks : Open(i)' <=> Open(i) \/ i = started'
    BY <2>1, <2>2 DEF Open
  <2>7. ASSUME NEW i \in 1..MaxTasks
        PROVE  events'[i] = IF i <= started' /\ ~Open(i)' THEN 1 ELSE 0
    <3>1. events[i] = IF i <= started /\ ~Open(i) THEN 1 ELSE 0
      BY CountedOpen
    <3>2. CASE i = started'
      <4>1. ~(i <= started) /\ Open(i)'
        BY <2>1, <2>3, <2>6, <3>2
      <4> QED
        BY <2>1, <3>1, <4>1
    <3>3. CASE i # started'
      <4>1. (i <= started' <=> i <= started) /\ (Open(i)' <=> Open(i))
        BY <2>1, <2>3, <2>6, <3>3
      <4> QED
        BY <2>1, <3>1, <4>1
    <3> QED
      BY <3>2, <3>3
  <2> QED
    BY <2>5, <2>7, CountedOpenAfter
<1>2. CASE \/ AllocClient(u) \/ FreeClient(u) \/ Decide(u)
           \/ LockRing(u) \/ StoreHash(u) \/ LockNumber(u)
  <2>1. \A v \in Users : v # u => pc'[v] = pc[v] /\ job'[v] = job[v]
    BY <1>2 DEF AllocClient, FreeClient, Decide, LockRing, StoreHash, LockNumber, Goto, TypeOK
  <2>2. events' = events /\ started' = started /\ checks' = checks
    BY <1>2 DEF AllocClient, FreeClient, Decide, LockRing, StoreHash, LockNumber
  <2>3. (Working(u)' <=> Working(u)) /\ (Working(u) => job'[u].task = job[u].task)
    <3>1. CASE AllocClient(u)
      <4>1. pc[u] = "alloc" /\ pc'[u] \in {"alloc", job[u].role}
        BY <3>1 DEF AllocClient, Goto, TypeOK
      <4>2. PICK held : job' = [job EXCEPT ![u].held = held]
        BY <3>1 DEF AllocClient
      <4>3. job'[u].task = job[u].task
        BY <4>2, JobParts DEF TypeOK, Job
      <4> QED
        BY <4>1, <4>3, JobParts DEF Working
    <3>2. CASE FreeClient(u)
      BY <3>2 DEF FreeClient, Goto, TypeOK, Working
    <3>3. CASE Decide(u)
      <4>1. PICK role \in {"send", "read"} : job' = [job EXCEPT ![u].role = role, ![u].nc = 0]
        BY <3>3 DEF Decide
      <4>2. job'[u].task = job[u].task
        BY <4>1, JobParts DEF TypeOK, Job
      <4> QED
        BY <3>3, <4>2 DEF Decide, Goto, TypeOK, Working
    <3>4. CASE LockRing(u) \/ StoreHash(u) \/ LockNumber(u)
      BY <3>4 DEF LockRing, StoreHash, LockNumber, Goto, TypeOK, Working
    <3> QED
      BY <1>2, <3>1, <3>2, <3>3, <3>4
  <2>4. \A v \in Users : /\ Working(v)' <=> Working(v)
                         /\ Working(v) => job'[v].task = job[v].task
    BY <2>1, <2>3 DEF Working
  <2>5. Unique'
    BY <2>2, <2>4 DEF Unique
  <2>6. \A i \in 1..MaxTasks : Open(i)' <=> Open(i)
    BY <2>2, <2>4 DEF Open
  <2> QED
    BY <2>2, <2>5, <2>6, SameOpen
<1>3. CASE EthAccepted(u)
  <2> DEFINE new == [task |-> job[u].task, retries |-> 0]
  <2>1. /\ job' = job /\ events' = events /\ started' = started
        /\ checks' = checks \cup {new} /\ new.task = job[u].task
        /\ pc[u] = "send" /\ pc' = [pc EXCEPT ![u] = "free"]
    BY <1>3 DEF EthAccepted, Goto
  <2>2. Working(u) /\ \A v \in Users : Working(v)' <=> Working(v) /\ v # u
    BY <2>1 DEF TypeOK, Working
  <2>3. Unique'
    BY <2>1, <2>2 DEF Unique
  <2>4. \A i \in 1..MaxTasks : Open(i)' <=> Open(i)
    BY <2>1, <2>2 DEF Open
  <2> QED
    BY <2>1, <2>3, <2>4, SameOpen
<1>4. CASE AdvanceTail(u) \/ ReadHash(u) \/ EthFails(u) \/ BlockNumber(u) \/ Request(u)
  <2>1. /\ job' = job /\ checks' = checks /\ started' = started
        /\ pc[u] \in {"advance", "read", "send", "number"}
        /\ pc' = [pc EXCEPT ![u] = "free"] /\ Publish(job[u].task)
    BY <1>4 DEF AdvanceTail, ReadHash, EthFails, BlockNumber, Request, Goto
  <2> QED
    BY <2>1, UserCloses DEF Working
<1> QED
  BY <1>1, <1>2, <1>3, <1>4 DEF User

LEMMA CountKept == CountInv /\ [Next]_vars => CountInv'
<1> SUFFICES ASSUME TypeOK, Hands, Unique, CountedOnce, [Next]_vars PROVE Unique' /\ CountedOnce'
  BY TypesKept DEF CountInv
<1>1. CASE UNCHANGED vars
  BY <1>1 DEF Unique, CountedOnce, Working, vars
<1> QED
  BY <1>1, UserCounts, CheckCounts DEF Next, Exhausted

LEMMA CountInit == Init => CountInv
<1> SUFFICES ASSUME Init PROVE Unique /\ CountedOnce
  BY TypesInit DEF CountInv
<1>1. /\ checks = {} /\ started = 0 /\ events = [i \in 1..MaxTasks |-> 0]
      /\ \A u \in Users : ~Working(u)
  BY DEF Init, Working
<1> QED
  BY <1>1, CountedOpen DEF Unique

\* boomer counts every task once, never before it is over, for any number of
\* users, tasks and retries.
THEOREM CountedOnceAlways == Spec => []CountedOnce
<1>1. Spec => []CountInv
  BY CountInit, CountKept, PTL DEF Spec
<1> QED
  BY <1>1, PTL DEF CountInv
=============================================================================
