------------------------------- MODULE LoadTasks -------------------------------
(***************************************************************************)
(* The users of a slave at work: boomer runs the test cases, each with     *)
(* client pools of its own, and counts what they publish.  Modelled are    *)
(* those whose state outlives a call:                                      *)
(*   receipt    RunReceiptCheckTC       (testcase/run_receipt_check.go)    *)
(*   eth        RunEthereumTxLegacyTC and its four siblings                *)
(*                                      (testcase/run_ethereum.go)         *)
(*   read, block, consensus             (testcase/run_read_api_call.go)    *)
(* The node answers or fails as it likes; how an account sends is          *)
(* TestSenders.                                                            *)
(***************************************************************************)
EXTENDS ClientPool, Integers, FiniteSets

CONSTANTS Users,      \* goroutines of boomer
          Kinds,      \* test cases that run
          None,       \* holder of a free mutex
          InitPool,   \* clients of a pool at the start (20 in the code)
          Size,       \* hashPoolSize
          InitSends,  \* defaultInitSendTx
          Ratio,      \* ratioReadPerSend
          Width,      \* cnt is a number modulo Width (2^32 in the code)
          MaxRetry,   \* maxRetryCount of getReceipt
          MaxTasks    \* bound: tasks begun

VARIABLES
    pc,         \* what each user does next
    job,        \* the task of each user
    pools,      \* the client pools
    cnt, initFlag,
    slots, tail, isFull,  \* the ring of hashes
    rwMutex,    \* who writes the ring
    blockMutex, \* readApiCallMutex
    checks,     \* goroutines that wait for a receipt of an Ethereum task
    started,    \* tasks begun: each is named by its number
    events,     \* events published for each task
    window      \* the last Size hashes given to addHash (history)

ringVars == <<slots, tail, isFull, rwMutex, window>>
vars == <<pc, job, pools, cnt, initFlag, ringVars, blockMutex, checks, started, events>>

\* Test cases that allocate from RpcCliPool after CliPool; the others have one pool.
Needs(kind) == IF kind = "consensus" THEN 2 ELSE 1

PoolNames == UNION {{kind} \X (1..Needs(kind)) : kind \in Kinds}

Places == {"idle", "decide", "alloc", "send", "store", "advance", "read", "number", "free"}

Job == [kind : Kinds, task : Nat, role : {"send", "read"}, nc : Nat, held : Seq(Nat)]
Check == [task : Nat, retries : 0..MaxRetry]

ASSUME TasksAssumption ==
    /\ IsFiniteSet(Users) /\ None \notin Users
    /\ Kinds # {} /\ Kinds \subseteq {"receipt", "eth", "read", "block", "consensus"}
    /\ InitPool \in Nat /\ Size \in Nat \ {0} /\ Ratio \in Nat
    /\ MaxRetry \in Nat /\ MaxTasks \in Nat
    \* A slave has fewer users than hashes to add before the first is read.
    /\ InitSends \in Nat /\ Cardinality(Users) < InitSends
    /\ Width \in Nat /\ InitSends <= Width

TypeOK ==
    /\ pc \in [Users -> Places] /\ job \in [Users -> Job]
    /\ pools \in [PoolNames -> Pool]
    /\ cnt \in 0..(Width - 1) /\ initFlag \in BOOLEAN
    /\ slots \in [0..(Size - 1) -> Nat] /\ tail \in 0..(Size - 1) /\ isFull \in BOOLEAN
    /\ rwMutex \in Users \cup {None} /\ blockMutex \in Users \cup {None}
    /\ checks \subseteq Check
    /\ started \in 0..MaxTasks /\ events \in [1..MaxTasks -> Nat]
    /\ window \in Seq(Nat) /\ Len(window) <= Size
    /\ \A u \in Users : /\ pc[u] # "idle" => job[u].task \in 1..started
                        /\ pc[u] \in {"store", "advance"} <=> rwMutex = u
                        /\ pc[u] = "number" <=> blockMutex = u
    /\ \A c \in checks : c.task \in 1..started

Idle == [kind |-> CHOOSE kind \in Kinds : TRUE, task |-> 0,
         role |-> "send", nc |-> 0, held |-> <<>>]

Init ==
    /\ pc = [u \in Users |-> "idle"]
    /\ job = [u \in Users |-> Idle]
    /\ pools = [p \in PoolNames |-> NewPool(InitPool)]
    /\ cnt = 0 /\ initFlag = FALSE
    /\ slots = [i \in 0..(Size - 1) |-> 0] /\ tail = 0 /\ isFull = FALSE /\ window = <<>>
    /\ rwMutex = None /\ blockMutex = None
    /\ checks = {}
    /\ started = 0 /\ events = [i \in 1..MaxTasks |-> 0]

Goto(u, place) == pc' = [pc EXCEPT ![u] = place]
Publish(task)  == events' = [events EXCEPT ![task] = @ + 1]

----------------------------------------------------------------------------
(* What every task does: clients first, given back when the call returns. *)

\* boomer starts the next task of a user; a receipt task counts itself.
Begin(u) ==
    /\ pc[u] = "idle" /\ started < MaxTasks
    /\ started' = started + 1
    /\ \E kind \in Kinds :
          /\ cnt' = IF kind = "receipt" THEN (cnt + 1) % Width ELSE cnt
          /\ job' = [job EXCEPT ![u] = [kind |-> kind, task |-> started',
                                        nc |-> IF kind = "receipt" THEN cnt' ELSE 0,
                                        role |-> IF kind = "eth" THEN "send" ELSE "read",
                                        held |-> <<>>]]
          /\ Goto(u, IF kind = "receipt" THEN "decide" ELSE "alloc")
    /\ UNCHANGED <<pools, initFlag, ringVars, blockMutex, checks, events>>

AllocClient(u) ==
    LET p == <<job[u].kind, Len(job[u].held) + 1>> IN
    /\ pc[u] = "alloc"
    /\ job' = [job EXCEPT ![u].held = Append(@, Given(pools[p]))]
    /\ pools' = [pools EXCEPT ![p] = Alloc(@)]
    /\ Goto(u, IF p[2] < Needs(p[1]) THEN "alloc" ELSE job[u].role)
    /\ UNCHANGED <<cnt, initFlag, ringVars, blockMutex, checks, started, events>>

\* The deferred Free, last client first.
FreeClient(u) ==
    LET n == Len(job[u].held)
        p == <<job[u].kind, n>> IN
    /\ pc[u] = "free"
    /\ pools' = [pools EXCEPT ![p] = Free(@, job[u].held[n])]
    /\ job' = [job EXCEPT ![u] = IF n = 1 THEN Idle
                                  ELSE [job[u] EXCEPT !.held = SubSeq(job[u].held, 1, n - 1)]]
    /\ Goto(u, IF n = 1 THEN "idle" ELSE "free")
    /\ UNCHANGED <<cnt, initFlag, ringVars, blockMutex, checks, started, events>>

----------------------------------------------------------------------------
(* The receipt check. *)

\* Mutant of Decide: the last hash is sent too late to count on.
DecideEarly(u) ==
    LET nc == job[u].nc IN
    /\ pc[u] = "decide"
    /\ IF ~initFlag /\ nc + 1 < InitSends
         THEN /\ job' = [job EXCEPT ![u].role = "send", ![u].nc = 0]
              /\ UNCHANGED initFlag
         ELSE /\ job' = [job EXCEPT ![u].nc = 0, ![u].role =
                            IF nc % (Ratio + 1) = Ratio THEN "send" ELSE "read"]
              /\ initFlag' = TRUE
    /\ Goto(u, "alloc")
    /\ UNCHANGED <<pools, cnt, ringVars, blockMutex, checks, started, events>>

\* Send while the ring fills up, then one send for Ratio reads.  initFlag is
\* read and written without a lock: the reader may still see its old value.
Decide(u) ==
    LET nc == job[u].nc IN
    /\ pc[u] = "decide"
    /\ \E seen \in {initFlag, FALSE} :
          IF ~seen /\ nc < InitSends
            THEN /\ job' = [job EXCEPT ![u].role = "send", ![u].nc = 0]
                 /\ UNCHANGED initFlag
            ELSE /\ job' = [job EXCEPT ![u].nc = 0, ![u].role =
                               IF nc % (Ratio + 1) = Ratio THEN "send" ELSE "read"]
                 /\ initFlag' = TRUE
    /\ Goto(u, "alloc")
    /\ UNCHANGED <<pools, cnt, ringVars, blockMutex, checks, started, events>>

\* Mutant of LockRing: the ring is written without the lock.
LockRingFree(u) ==
    /\ pc[u] = "send" /\ job[u].kind = "receipt"
    /\ rwMutex' = u
    /\ Goto(u, "store")
    /\ UNCHANGED <<job, pools, cnt, initFlag, slots, tail, isFull, window, blockMutex,
                   checks, started, events>>

\* TransferSignedTx returns a hash whether it fails or not, and addHash takes
\* the lock.
LockRing(u) ==
    /\ pc[u] = "send" /\ job[u].kind = "receipt"
    /\ rwMutex = None /\ rwMutex' = u
    /\ Goto(u, "store")
    /\ UNCHANGED <<job, pools, cnt, initFlag, slots, tail, isFull, window, blockMutex,
                   checks, started, events>>

StoreHash(u) ==
    /\ pc[u] = "store"
    /\ slots' = [slots EXCEPT ![tail] = job[u].task]
    /\ Goto(u, "advance")
    /\ UNCHANGED <<job, pools, cnt, initFlag, tail, isFull, rwMutex, window, blockMutex,
                   checks, started, events>>

\* Mutant of AdvanceTail: the ring does not wrap around.
AdvanceNoWrap(u) ==
    /\ pc[u] = "advance"
    /\ tail' = tail + 1
    /\ rwMutex' = None
    /\ window' = Append(window, job[u].task)
    /\ Publish(job[u].task)
    /\ Goto(u, "free")
    /\ UNCHANGED <<job, pools, cnt, initFlag, slots, isFull, blockMutex, checks, started>>

AdvanceTail(u) ==
    /\ pc[u] = "advance"
    /\ tail' = (tail + 1) % Size
    /\ isFull' = (isFull \/ tail' = 0)
    /\ rwMutex' = None
    /\ window' = Append(IF Len(window) = Size THEN Tail(window) ELSE window, job[u].task)
    /\ Publish(job[u].task)
    /\ Goto(u, "free")
    /\ UNCHANGED <<job, pools, cnt, initFlag, slots, blockMutex, checks, started>>

\* The slots that getHash draws from; where there is none it divides by zero.
Readable == IF isFull THEN 0..(Size - 1) ELSE 0..(tail - 1)

ReadHash(u) ==
    /\ pc[u] = "read" /\ job[u].kind = "receipt"
    /\ rwMutex = None
    /\ Readable # {}
    /\ Publish(job[u].task)
    /\ Goto(u, "free")
    /\ UNCHANGED <<job, pools, cnt, initFlag, ringVars, blockMutex, checks, started>>

----------------------------------------------------------------------------
(* The Ethereum tasks: the receipt is checked by a goroutine of its own,   *)
(* which publishes the result, on a client that has gone back to the pool. *)

EthAccepted(u) ==
    /\ pc[u] = "send" /\ job[u].kind = "eth"
    /\ checks' = checks \cup {[task |-> job[u].task, retries |-> 0]}
    /\ Goto(u, "free")
    /\ UNCHANGED <<job, pools, cnt, initFlag, ringVars, blockMutex, started, events>>

\* Mutants of EthFails: a return before the deferred Free is set up; no return.
EthFailsLeaks(u) ==
    /\ pc[u] = "send" /\ job[u].kind = "eth"
    /\ Publish(job[u].task)
    /\ job' = [job EXCEPT ![u] = Idle]
    /\ Goto(u, "idle")
    /\ UNCHANGED <<pools, cnt, initFlag, ringVars, blockMutex, checks, started>>

EthFailsGoesOn(u) ==
    /\ pc[u] = "send" /\ job[u].kind = "eth"
    /\ Publish(job[u].task)
    /\ checks' = checks \cup {[task |-> job[u].task, retries |-> 0]}
    /\ Goto(u, "free")
    /\ UNCHANGED <<job, pools, cnt, initFlag, ringVars, blockMutex, started>>

EthFails(u) ==
    /\ pc[u] = "send" /\ job[u].kind = "eth"
    /\ Publish(job[u].task)
    /\ Goto(u, "free")
    /\ UNCHANGED <<job, pools, cnt, initFlag, ringVars, blockMutex, checks, started>>

\* Mutant of NotFound: the retries are not counted.
NotFoundForEver(c) ==
    /\ c.retries < MaxRetry
    /\ UNCHANGED <<checks, events>>

\* getReceipt asks again as long as the answer is NotFound and retries are left.
NotFound(c) ==
    /\ c.retries < MaxRetry
    /\ checks' = (checks \ {c}) \cup {[c EXCEPT !.retries = @ + 1]}
    /\ UNCHANGED events

\* NotFound once too often.
GivesUp(c) ==
    /\ c.retries = MaxRetry
    /\ checks' = checks \ {c} /\ Publish(c.task)

\* A receipt, which is checked, or an error: the node may come to either.
Answered(c) == checks' = checks \ {c} /\ Publish(c.task)

Retry(c) == /\ NotFound(c) \/ GivesUp(c)
            /\ UNCHANGED <<pc, job, pools, cnt, initFlag, ringVars, blockMutex, started>>

Checker(c) == \/ Retry(c)
              \/ /\ Answered(c)
                 /\ UNCHANGED <<pc, job, pools, cnt, initFlag, ringVars, blockMutex, started>>

----------------------------------------------------------------------------
(* The read requests: getRandomBlockNumber holds a mutex of the process,   *)
(* over a request of its own every so often.                               *)

LockNumber(u) ==
    /\ pc[u] = "read" /\ job[u].kind \in {"block", "consensus"}
    /\ blockMutex = None /\ blockMutex' = u
    /\ Goto(u, "number")
    /\ UNCHANGED <<job, pools, cnt, initFlag, ringVars, checks, started, events>>

\* The number is refreshed or not; the request for the block follows.
BlockNumber(u) ==
    /\ pc[u] = "number"
    /\ blockMutex' = None
    /\ Publish(job[u].task)
    /\ Goto(u, "free")
    /\ UNCHANGED <<job, pools, cnt, initFlag, ringVars, checks, started>>

Request(u) ==
    /\ pc[u] = "read" /\ job[u].kind = "read"
    /\ Publish(job[u].task)
    /\ Goto(u, "free")
    /\ UNCHANGED <<job, pools, cnt, initFlag, ringVars, blockMutex, checks, started>>

----------------------------------------------------------------------------
User(u) == \/ Begin(u) \/ AllocClient(u) \/ FreeClient(u)
           \/ Decide(u) \/ LockRing(u) \/ StoreHash(u) \/ AdvanceTail(u) \/ ReadHash(u)
           \/ EthAccepted(u) \/ EthFails(u)
           \/ LockNumber(u) \/ BlockNumber(u) \/ Request(u)

\* Nothing is left to do within the bound.
Exhausted == /\ started = MaxTasks /\ checks = {} /\ \A u \in Users : pc[u] = "idle"
             /\ UNCHANGED vars

Next == \/ \E u \in Users : User(u)
        \/ \E c \in checks : Checker(c)
        \/ Exhausted

Spec == Init /\ [][Next]_vars

\* Goroutines run on, and no receipt ever has to come.  (Tasks are bounded, so
\* that a mutex is free for good in the end; without the bound Go's mutexes
\* would have to be fair as well.)
Fairness == /\ \A u \in Users : WF_vars(User(u))
            /\ WF_vars(\E c \in checks : Retry(c))

FairSpec == Spec /\ Fairness

----------------------------------------------------------------------------
Held(u, p) == IF job[u].kind = p[1] /\ p[2] <= Len(job[u].held)
                THEN {job[u].held[p[2]]} ELSE {}

\* Every client that a pool has made is free, once, or in the hands of one
\* running task (clipool.go:31-51): no early return loses one and none is
\* given to two tasks.
OnePlace ==
    \A p \in PoolNames :
        LET free == pools[p].free IN
        /\ \A i, k \in DOMAIN free : free[i] = free[k] => i = k
        /\ \A u \in Users : \A c \in Held(u, p) :
              /\ \A i \in DOMAIN free : free[i] # c
              /\ \A v \in Users : c \in Held(v, p) => u = v
        /\ {free[i] : i \in DOMAIN free} \cup UNION {Held(u, p) : u \in Users}
              = 1..pools[p].cnt

\* The pool's maximum, which Alloc never looks at (clipool.go:36), is not
\* needed: a pool grows to the number of users and no further, although the
\* Ethereum tasks leave any number of checks behind.
PoolBounded ==
    \A p \in PoolNames :
        LET bound == IF InitPool > Cardinality(Users) THEN InitPool ELSE Cardinality(Users)
        IN  pools[p].cnt <= bound

\* getHash (run_receipt_check.go:57) divides by the number of hashes: when a
\* task comes to read there is one, whatever sends are still under way.
NoEmptyRead ==
    \A u \in Users : pc[u] = "read" /\ job[u].kind = "receipt" => Readable # {}

\* What may be read are the last Size hashes given to addHash, no slot stale
\* and none skipped, whatever tasks add at the same time.
RingIsWindow ==
    rwMutex = None =>
        {slots[i] : i \in Readable} = {window[i] : i \in DOMAIN window}

\* boomer's statistics count requests: a task that is over has been counted
\* once, though three places of an Ethereum task publish (run_ethereum.go:177,
\* 185, 189).
CountedOnce ==
    \A i \in 1..MaxTasks :
        LET open == \/ \E u \in Users : pc[u] \notin {"idle", "free"} /\ job[u].task = i
                    \/ \E c \in checks : c.task = i
        IN  events[i] = IF i <= started /\ ~open THEN 1 ELSE 0

\* Every task begun is counted in the end, also where its transaction is never
\* mined and whichever users compete for the two mutexes: nothing stays open.
EveryTaskCounted == []<>(\A i \in 1..started : events[i] = 1)
=============================================================================
