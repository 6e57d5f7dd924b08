------------------------ MODULE TransferCheckProofs ------------------------
(***************************************************************************)
(* The checked transfer for every number of accounts, tasks and amounts.   *)
(* Where every task checks, the mutexes a task holds make the balances it  *)
(* has read its own: only its own transfer can move them.  The invariant   *)
(* says at each step which mutexes are held, that a transfer in flight     *)
(* belongs to a waiting task, and how the balances compare with the ones   *)
(* the task remembers.                                                     *)
(***************************************************************************)
EXTENDS TransferCheck, TLAPS

USE CheckAssumption DEF CheckAssumption

\* Amounts and the fee are numbers.
LEMMA Amounts == Fee \in Int /\ \A v \in Values : v \in Int
  OBVIOUS

\* The task has both mutexes and works with the balances.
Busy == {"readFrom", "readTo", "send", "wait", "checkFrom", "checkTo"}

Holds(t) ==
    /\ pc[t] = "lock2" => /\ job[t].from # job[t].to
                          /\ mutex[First(job[t])] = t
    /\ pc[t] \in Busy \cup {"unlock1"} => /\ mutex[job[t].from] = t
                                          /\ mutex[job[t].to] = t
    /\ pc[t] = "unlock2" => /\ job[t].from # job[t].to
                            /\ mutex[Second(job[t])] = t

Locks == \A t \in Tasks : Holds(t)

Before(t) == /\ balance[job[t].from] = job[t].fromBalance
             /\ balance[job[t].to] = job[t].toBalance

Moved(t) == IF job[t].from = job[t].to THEN 0 ELSE job[t].value

After(t) == /\ balance[job[t].from] = job[t].fromBalance - Moved(t) - Fee
            /\ job[t].from # job[t].to =>
                  balance[job[t].to] = job[t].toBalance + Moved(t)

Right(t) ==
    /\ pc[t] = "readTo" => balance[job[t].from] = job[t].fromBalance
    /\ pc[t] = "send" => Before(t)
    /\ pc[t] = "wait" => IF Sent(job[t]) \in pending THEN Before(t) ELSE After(t)
    /\ pc[t] = "checkFrom" =>
          /\ balance[job[t].from] = job[t].fromBalance
          /\ job[t].from # job[t].to => balance[job[t].to] = job[t].toBalance
    /\ pc[t] = "checkTo" => balance[job[t].to] = job[t].toBalance

Owned == \A x \in pending : \E t \in Tasks : /\ pc[t] = "wait" /\ Sent(job[t]) = x

Clear == faults = 0 => Owned /\ ~alarm /\ \A t \in Tasks : Right(t)

----------------------------------------------------------------------------
\* doubleLock takes the mutexes of both accounts, one of them each time.
LEMMA Pair ==
    ASSUME NEW j \in Job
    PROVE  /\ First(j) \in Accounts /\ Second(j) \in Accounts
           /\ {First(j), Second(j)} = {j.from, j.to}
           /\ j.from # j.to => First(j) # Second(j)
  BY DEF First, Second, Job, Accounts

\* Every reachable state is well typed, plain tasks or not.
LEMMA NextType == TypeOK /\ [Next]_vars => TypeOK'
<1> SUFFICES ASSUME TypeOK, [Next]_vars PROVE TypeOK'
  OBVIOUS
<1> USE DEF TypeOK, Steps, Goto, node
<1>1. CASE \E t \in Tasks : Task(t)
  <2> PICK t \in Tasks : Task(t)
    BY <1>1
  <2>1. CASE Begin(t)
    <3>1. PICK from \in Accounts, to \in Accounts, v \in Values :
             job' = [job EXCEPT ![t] = Drawn(from, to, v)]
      BY <2>1 DEF Begin
    <3>2. Drawn(from, to, v) \in Job
      BY DEF Drawn, Job
    <3> QED
      BY <2>1, <3>1, <3>2 DEF Begin
  <2>2. CASE Lock1(t)
    BY <2>2 DEF Lock1, Take
  <2>3. CASE Lock2(t)
    BY <2>3 DEF Lock2, Take
  <2>4. CASE ReadFrom(t)
    <3>1. job[t] \in Job /\ balance[job[t].from] \in Int
      BY <2>4 DEF ReadFrom, Job
    <3>2. [job[t] EXCEPT !.fromBalance = balance[job[t].from]] \in Job
      BY <3>1 DEF Job
    <3> QED
      BY <2>4, <3>2 DEF ReadFrom
  <2>5. CASE ReadTo(t)
    <3>1. job[t] \in Job /\ balance[job[t].to] \in Int
      BY <2>5 DEF ReadTo, Job
    <3>2. [job[t] EXCEPT !.toBalance = balance[job[t].to]] \in Job
      BY <3>1 DEF Job
    <3> QED
      BY <2>5, <3>2 DEF ReadTo
  <2>6. ASSUME pc[t] = "send", Accept(job[t])
        PROVE  nonces' \in [Accounts -> Nat] /\ pending' \subseteq Transfer
    <3>1. [Sent(job[t]) EXCEPT !.nonce = nonces[job[t].from]] \in Transfer
      BY <2>6 DEF Sent, Transfer, Job
    <3> QED
      BY <2>6, <3>1 DEF Accept, Job
  <2>7. CASE SendAccepted(t)
    <3>1. [job[t] EXCEPT !.nonce = nonces[job[t].from]] \in Job
      BY <2>7 DEF SendAccepted, Job
    <3> QED
      BY <2>6, <2>7, <3>1 DEF SendAccepted, Accept
  <2>8. CASE SendFailed(t)
    BY <2>6, <2>8 DEF SendFailed, Accept, Fault
  <2>9. CASE Receipt(t)
    <3>1. job[t] \in Job
      BY <2>9 DEF Receipt
    <3>2. job[t].value \in Int /\ job[t].fromBalance \in Int /\ job[t].toBalance \in Int
      BY <3>1, Amounts DEF Job
    <3>3. ASSUME NEW f \in Int, NEW g \in Int
          PROVE  [job[t] EXCEPT !.fromBalance = f, !.toBalance = g] \in Job
      BY <3>1 DEF Job
    <3> DEFINE moved == IF job[t].from = job[t].to THEN 0 ELSE job[t].value
    <3>4. job[t].fromBalance - moved - Fee \in Int /\ job[t].toBalance + moved \in Int
      BY <3>2, Amounts
    <3>5. job' = [job EXCEPT ![t] = [job[t] EXCEPT
                     !.fromBalance = job[t].fromBalance - moved - Fee,
                     !.toBalance = job[t].toBalance + moved]]
      BY <2>9 DEF Receipt
    <3>6. \E k \in Job : job' = [job EXCEPT ![t] = k]
      BY <3>3, <3>4, <3>5
    <3> QED
      BY <2>9, <3>6 DEF Receipt
  <2>10. CASE Timeout(t)
    BY <2>10 DEF Timeout, Fault
  <2>11. CASE CheckFrom(t) \/ CheckTo(t)
    BY <2>11 DEF CheckFrom, CheckTo
  <2>12. CASE Unlock1(t) \/ Unlock2(t)
    BY <2>12 DEF Unlock1, Unlock2
  <2> QED
    BY <2>1, <2>2, <2>3, <2>4, <2>5, <2>7, <2>8, <2>9, <2>10, <2>11, <2>12 DEF Task
<1>2. CASE \E x \in pending : Execute(x)
  <2> PICK x \in pending : Execute(x)
    BY <1>2
  <2>1. x \in Transfer
    OBVIOUS
  <2>2. x.value \in Values
    BY <2>1 DEF Transfer
  <2>3. x.value + Fee \in Int /\ x.value \in Int
    BY ONLY <2>2, Amounts
  <2> QED
    BY <2>3 DEF Execute
<1>3. CASE UNCHANGED vars
  BY <1>3 DEF vars
<1> QED
  BY <1>1, <1>2, <1>3 DEF Next, Terminated

\* The types of TransferCheck hold in every reachable state.
THEOREM TypeCorrect == Spec => []TypeOK
<1>1. Init => TypeOK
  <2> SUFFICES ASSUME Init PROVE TypeOK
    OBVIOUS
  <2>1. \A t \in Tasks : pc[t] = "idle"
    BY DEF Init
  <2>2. /\ pc \in [Tasks -> Steps] /\ job \in [Tasks -> Job \cup {NoJob}]
        /\ mutex \in [Accounts -> Tasks \cup {NoTask}]
    BY DEF Init, Steps
  <2>3. /\ balance \in [Accounts -> Int] /\ nonces \in [Accounts -> Nat]
        /\ pending \subseteq Transfer
        /\ starts \in Nat /\ faults \in Nat
    BY DEF Init
  <2>4. alarm \in BOOLEAN
    BY DEF Init
  <2> QED
    BY <2>1, <2>2, <2>3, <2>4 DEF TypeOK
<1> QED
  BY <1>1, NextType, PTL DEF Spec
----------------------------------------------------------------------------
\* A step of one task leaves the program points, the parameters and the mutexes
\* of the others alone.
Others(t) == \A u \in Tasks \ {t} :
                /\ pc'[u] = pc[u] /\ job'[u] = job[u]
                /\ \A a \in Accounts : mutex[a] = u => mutex'[a] = u

LEMMA OthersKeep ==
    ASSUME TypeOK, Locks, NEW t \in Tasks, Task(t)
    PROVE  Others(t)
<1> USE DEF TypeOK, Goto, Others
<1>1. CASE Begin(t)
  BY <1>1 DEF Begin
<1>2. CASE Lock1(t)
  BY <1>2 DEF Lock1, Take
<1>3. CASE Lock2(t)
  BY <1>3 DEF Lock2, Take
<1>4. CASE ReadFrom(t) \/ ReadTo(t)
  BY <1>4 DEF ReadFrom, ReadTo
<1>5. CASE SendAccepted(t) \/ SendFailed(t)
  BY <1>5 DEF SendAccepted, SendFailed
<1>6. CASE Receipt(t) \/ Timeout(t) \/ CheckFrom(t) \/ CheckTo(t)
  BY <1>6 DEF Receipt, Timeout, CheckFrom, CheckTo
<1>7. CASE Unlock1(t)
  <2>1. job[t] \in Job
    BY <1>7 DEF Unlock1
  <2>2. mutex[First(job[t])] = t
    <3>1. mutex[job[t].from] = t /\ mutex[job[t].to] = t
      BY <1>7 DEF Unlock1, Locks, Holds
    <3>2. First(job[t]) \in {job[t].from, job[t].to}
      BY <2>1, Pair
    <3> QED
      BY <3>1, <3>2
  <2> QED
    BY <1>7, <2>2 DEF Unlock1
<1>8. CASE Unlock2(t)
  <2>1. mutex[Second(job[t])] = t
    BY <1>8 DEF Unlock2, Locks, Holds
  <2> QED
    BY <1>8, <2>1 DEF Unlock2
<1> QED
  BY <1>1, <1>2, <1>3, <1>4, <1>5, <1>6, <1>7, <1>8 DEF Task

\* Each task holds the mutexes its program point says.
LEMMA LocksNext ==
    ASSUME TypeOK, Locks, [Next]_vars
    PROVE  Locks'
<1>1. ASSUME NEW t \in Tasks, Task(t)
      PROVE  Locks'
  <2>1. ASSUME NEW u \in Tasks, u # t
        PROVE  Holds(u)'
    <3>1. Others(t) /\ Holds(u)
      BY <1>1, OthersKeep DEF Locks
    <3>2. pc'[u] = pc[u] /\ job'[u] = job[u]
      BY <2>1, <3>1 DEF Others
    <3>3. ASSUME NEW a \in Accounts, mutex[a] = u PROVE mutex'[a] = u
      BY <2>1, <3>1, <3>3 DEF Others
    <3>4. pc[u] # "idle" => job[u] \in Job
      BY DEF TypeOK
    <3>5. pc[u] # "idle" => /\ job[u].from \in Accounts /\ job[u].to \in Accounts
                            /\ First(job[u]) \in Accounts /\ Second(job[u]) \in Accounts
      BY <3>4, Pair DEF Job
    <3> QED
      BY <3>1, <3>2, <3>3, <3>5 DEF Holds, First, Second, Busy
  <2>2. Holds(t)'
    <3> USE DEF TypeOK, Goto, Holds, Busy
    <3>1. CASE Begin(t)
      BY <3>1 DEF Begin
    <3>2. CASE Lock1(t)
      <4>1. job[t] \in Job /\ job' = job
        BY <3>2 DEF Lock1
      <4>2. First(job[t]) \in Accounts /\ mutex'[First(job[t])] = t
        BY <3>2, <4>1, Pair DEF Lock1, Take
      <4>3. pc'[t] \in {"readFrom", "lock2"}
        BY <3>2 DEF Lock1
      <4>4. pc'[t] = "readFrom" <=> job[t].from = job[t].to
        BY <3>2 DEF Lock1
      <4> QED
        BY <4>1, <4>2, <4>3, <4>4 DEF First
    <3>3. CASE Lock2(t)
      <4>1. job[t] \in Job /\ job' = job /\ pc'[t] = "readFrom"
        BY <3>3 DEF Lock2
      <4>2. mutex'[Second(job[t])] = t
        BY <3>3, <4>1, Pair DEF Lock2, Take
      <4>3. mutex'[First(job[t])] = t
        BY <3>3, <4>1, Pair DEF Lock2, Take, Locks
      <4>4. {First(job[t]), Second(job[t])} = {job[t].from, job[t].to}
        BY <4>1, Pair
      <4> QED
        BY <4>1, <4>2, <4>3, <4>4
    <3>4. CASE ReadFrom(t) \/ ReadTo(t)
      <4>1. job[t] \in Job /\ mutex' = mutex
        BY <3>4 DEF ReadFrom, ReadTo
      <4>2. job'[t].from = job[t].from /\ job'[t].to = job[t].to
        BY <3>4, <4>1 DEF ReadFrom, ReadTo, Job
      <4>3. pc[t] \in {"readFrom", "readTo"} /\ pc'[t] \in {"readTo", "send"}
        BY <3>4 DEF ReadFrom, ReadTo
      <4> QED
        BY <4>1, <4>2, <4>3 DEF Locks
    <3>5. CASE SendAccepted(t) \/ SendFailed(t)
      <4>1. job[t] \in Job /\ mutex' = mutex
        BY <3>5 DEF SendAccepted, SendFailed
      <4>2. job'[t].from = job[t].from /\ job'[t].to = job[t].to
        BY <3>5, <4>1 DEF SendAccepted, SendFailed, Job
      <4>3. pc[t] = "send" /\ pc'[t] \in {"wait", "unlock1"}
        BY <3>5 DEF SendAccepted, SendFailed
      <4> QED
        BY <4>1, <4>2, <4>3 DEF Locks
    <3>6. CASE Receipt(t)
      <4>1. job[t] \in Job /\ mutex' = mutex
        BY <3>6 DEF Receipt
      <4>2. job'[t].from = job[t].from /\ job'[t].to = job[t].to
        BY <3>6, <4>1 DEF Receipt, Job
      <4>3. pc[t] = "wait" /\ pc'[t] = "checkFrom"
        BY <3>6 DEF Receipt
      <4> QED
        BY <4>1, <4>2, <4>3 DEF Locks
    <3>7. CASE Timeout(t) \/ CheckFrom(t) \/ CheckTo(t)
      BY <3>7 DEF Timeout, CheckFrom, CheckTo, Locks
    <3>8. CASE Unlock1(t)
      <4>1. job[t] \in Job /\ job' = job
        BY <3>8 DEF Unlock1
      <4>2. CASE job[t].from = job[t].to
        BY <3>8, <4>2 DEF Unlock1
      <4>3. CASE job[t].from # job[t].to
        <5>1. mutex[Second(job[t])] = t
          <6>1. mutex[job[t].from] = t /\ mutex[job[t].to] = t
            BY <3>8 DEF Unlock1, Locks
          <6>2. Second(job[t]) \in {job[t].from, job[t].to}
            BY <4>1, Pair
          <6> QED
            BY <6>1, <6>2
        <5>2. mutex'[Second(job[t])] = t
          BY <3>8, <4>1, <4>3, <5>1, Pair DEF Unlock1
        <5> QED
          BY <3>8, <4>1, <4>3, <5>2 DEF Unlock1
      <4> QED
        BY <4>2, <4>3
    <3>9. CASE Unlock2(t)
      BY <3>9 DEF Unlock2
    <3> QED
      BY <1>1, <3>1, <3>2, <3>3, <3>4, <3>5, <3>6, <3>7, <3>8, <3>9 DEF Task
  <2> QED
    BY <2>1, <2>2 DEF Locks
<1>2. CASE UNCHANGED <<mutex, pc, job>>
  BY <1>2 DEF Locks, Holds, Busy, First, Second
<1> QED
  BY <1>1, <1>2 DEF Next, Execute, Terminated, vars

\* Tasks that work with balances work with different accounts.
LEMMA Disjoint ==
    ASSUME Locks, NEW t \in Tasks, NEW u \in Tasks, t # u,
           pc[t] \in Busy, pc[u] \in Busy
    PROVE  {job[t].from, job[t].to} \cap {job[u].from, job[u].to} = {}
  BY DEF Locks, Holds

\* A step of a task leaves what the others know of the balances true.
LEMMA OthersRight ==
    ASSUME TypeOK, Locks, NEW t \in Tasks, Task(t),
           NEW u \in Tasks, u # t, Right(u)
    PROVE  Right(u)'
<1>1. pc'[u] = pc[u] /\ job'[u] = job[u] /\ balance' = balance
  <2>1. balance' = balance
    BY DEF Task, Begin, Lock1, Lock2, ReadFrom, ReadTo, SendAccepted, SendFailed,
           Accept, Receipt, Timeout, CheckFrom, CheckTo, Unlock1, Unlock2, node
  <2> QED
    BY <2>1, OthersKeep DEF Others
<1>2. pc[u] = "wait" => (Sent(job[u]) \in pending' <=> Sent(job[u]) \in pending)
  <2>1. CASE pending' = pending
    BY <2>1
  <2>2. CASE pc[t] = "send" /\ Accept(job[t])
    <3>1. \A x \in pending' : x \in pending \/ x.from = job[t].from
      BY <2>2 DEF Accept, Sent
    <3>2. pending \subseteq pending'
      BY <2>2 DEF Accept
    <3>3. pc[u] = "wait" => job[u].from # job[t].from
      BY <2>2, Disjoint DEF Busy
    <3>4. Sent(job[u]).from = job[u].from
      BY DEF Sent
    <3> QED
      BY <3>1, <3>2, <3>3, <3>4
  <2> QED
    BY <2>1, <2>2
    DEF Task, Begin, Lock1, Lock2, ReadFrom, ReadTo, SendAccepted, SendFailed,
        Receipt, Timeout, CheckFrom, CheckTo, Unlock1, Unlock2, node
<1> QED
  BY <1>1, <1>2 DEF Right, Before, After, Moved

\* A step of a task keeps Clear.
LEMMA TaskClear ==
    ASSUME TypeOK, Locks, Clear, NEW t \in Tasks, Task(t), TypeOK'
    PROVE  Clear'
<1>0. faults' = 0 => faults = 0 /\ ~Fault
  BY DEF Task, TypeOK, Begin, Lock1, Lock2, ReadFrom, ReadTo, SendAccepted, SendFailed,
         Receipt, Timeout, Fault, CheckFrom, CheckTo, Unlock1, Unlock2
<1> SUFFICES ASSUME faults' = 0
             PROVE  Owned' /\ ~alarm' /\ Right(t)'
  BY <1>0, OthersRight DEF Clear
<1>1. faults = 0 /\ ~Fault
  BY <1>0
<1>2. Owned /\ ~alarm /\ Right(t)
  BY <1>1 DEF Clear
<1>3. ASSUME pending' = pending, pc[t] # "wait"
      PROVE  Owned'
  BY <1>2, <1>3, OthersKeep DEF Owned, Others
<1> USE DEF TypeOK, Goto, Right
<1>4. CASE Begin(t)
  BY <1>2, <1>3, <1>4 DEF Begin, node
<1>5. CASE Lock1(t)
  BY <1>2, <1>3, <1>5 DEF Lock1, node
<1>6. CASE Lock2(t)
  BY <1>2, <1>3, <1>6 DEF Lock2, node
<1>7. CASE ReadFrom(t)
  BY <1>2, <1>3, <1>7 DEF ReadFrom, node
<1>8. CASE ReadTo(t)
  <2>1. /\ pc[t] = "readTo" /\ pc'[t] = "send" /\ job[t] \in Job
        /\ UNCHANGED <<balance, pending, alarm>>
    BY <1>8 DEF ReadTo, node
  <2>2. /\ job'[t].from = job[t].from /\ job'[t].to = job[t].to
        /\ job'[t].fromBalance = job[t].fromBalance
        /\ job'[t].toBalance = balance[job[t].to]
    BY <1>8, <2>1 DEF ReadTo, Job
  <2> QED
    BY <1>2, <1>3, <2>1, <2>2 DEF Before
<1>9. CASE SendAccepted(t)
  <2>1. job[t] \in Job /\ Before(t) /\ balance' = balance
    BY <1>2, <1>9 DEF SendAccepted, Accept
  <2>2. Sent(job'[t]) = [Sent(job[t]) EXCEPT !.nonce = nonces[job[t].from]]
    <3>1. job'[t] = [job[t] EXCEPT !.nonce = nonces[job[t].from]]
      BY <1>9, <2>1 DEF SendAccepted
    <3> QED
      BY <2>1, <3>1 DEF Sent, Job
  <2>3. Sent(job'[t]) \in pending' /\ pc'[t] = "wait"
    BY <1>9, <2>2 DEF SendAccepted, Accept
  <2>4. Before(t)'
    BY <1>9, <2>1 DEF SendAccepted, Before, Job
  <2>5. Owned'
    <3> SUFFICES ASSUME NEW x \in pending'
                 PROVE  \E u \in Tasks : pc'[u] = "wait" /\ Sent(job'[u]) = x
      BY DEF Owned
    <3>1. CASE x \in pending
      <4>1. PICK u \in Tasks : pc[u] = "wait" /\ Sent(job[u]) = x
        BY <1>2, <3>1 DEF Owned
      <4>2. u # t
        BY <1>9, <4>1 DEF SendAccepted
      <4> QED
        BY <4>1, <4>2, OthersKeep DEF Others
    <3>2. CASE x = Sent(job'[t])
      BY <2>3, <3>2
    <3> QED
      BY <1>9, <2>2, <3>1, <3>2 DEF SendAccepted, Accept
  <2> QED
    BY <1>2, <1>9, <2>3, <2>4, <2>5 DEF SendAccepted
<1>10. CASE SendFailed(t)
  BY <1>1, <1>2, <1>3, <1>10 DEF SendFailed, node
<1>11. CASE Receipt(t)
  <2>1. job[t] \in Job /\ Sent(job[t]) \notin pending
    BY <1>11 DEF Receipt, Mined, Sent
  <2>2. After(t)
    BY <1>2, <1>11, <2>1 DEF Receipt
  <2>3. /\ job'[t].from = job[t].from /\ job'[t].to = job[t].to
        /\ job'[t].fromBalance = job[t].fromBalance - Moved(t) - Fee
        /\ job'[t].toBalance = job[t].toBalance + Moved(t)
    BY <1>11, <2>1 DEF Receipt, Job, Moved
  <2>4. Owned'
    <3> SUFFICES ASSUME NEW x \in pending'
                 PROVE  \E u \in Tasks : pc'[u] = "wait" /\ Sent(job'[u]) = x
      BY DEF Owned
    <3>1. PICK u \in Tasks : pc[u] = "wait" /\ Sent(job[u]) = x
      BY <1>2, <1>11 DEF Owned, Receipt, node
    <3>2. u # t
      BY <1>11, <2>1, <3>1 DEF Receipt, node
    <3> QED
      BY <3>1, <3>2, OthersKeep DEF Others
  <2>5. pc'[t] = "checkFrom" /\ balance' = balance /\ alarm' = alarm
    BY <1>11 DEF Receipt, node
  <2> QED
    BY <1>2, <2>2, <2>3, <2>4, <2>5 DEF After
<1>12. CASE Timeout(t)
  BY <1>1, <1>12 DEF Timeout
<1>13. CASE CheckFrom(t)
  BY <1>2, <1>3, <1>13 DEF CheckFrom, node
<1>14. CASE CheckTo(t)
  BY <1>2, <1>3, <1>14 DEF CheckTo, node
<1>15. CASE Unlock1(t)
  BY <1>2, <1>3, <1>15 DEF Unlock1, node
<1>16. CASE Unlock2(t)
  BY <1>2, <1>3, <1>16 DEF Unlock2, node
<1> QED
  BY <1>4, <1>5, <1>6, <1>7, <1>8, <1>9, <1>10, <1>11, <1>12, <1>13, <1>14, <1>15,
     <1>16 DEF Task
\* Execution of a transfer moves the balances of the task that waits for it.
LEMMA ExecuteClear ==
    ASSUME TypeOK, Locks, Clear, NEW x \in pending, Execute(x)
    PROVE  Clear'
<1> SUFFICES ASSUME faults = 0
             PROVE  Owned' /\ ~alarm' /\ \A u \in Tasks : Right(u)'
  BY DEF Clear, Execute
<1>1. Owned /\ ~alarm /\ \A u \in Tasks : Right(u)
  BY DEF Clear
<1>2. /\ pc' = pc /\ job' = job /\ pending' = pending \ {x} /\ alarm' = alarm
      /\ balance' = [a \in Accounts |->
                        balance[a] - (IF a = x.from THEN x.value + Fee ELSE 0)
                                   + (IF a = x.to THEN x.value ELSE 0)]
  BY DEF Execute
<1>3. PICK t \in Tasks : pc[t] = "wait" /\ Sent(job[t]) = x
  BY <1>1 DEF Owned
<1>4. job[t] \in Job /\ x.from = job[t].from /\ x.to = job[t].to /\ x.value = job[t].value
  BY <1>3 DEF TypeOK, Sent
<1>5. Owned'
  BY <1>1, <1>2 DEF Owned, Sent
<1>6. ASSUME NEW u \in Tasks, u # t
      PROVE  Right(u)'
  <2>1. CASE pc[u] \in Busy
    <3>1. {job[u].from, job[u].to} \cap {x.from, x.to} = {}
      BY <1>3, <1>4, <1>6, <2>1, Disjoint DEF Busy
    <3>2. job[u] \in Job
      BY <2>1 DEF TypeOK, Busy
    <3>3. \A a \in {job[u].from, job[u].to} : balance'[a] = balance[a]
      <4> SUFFICES ASSUME NEW a \in {job[u].from, job[u].to}
                   PROVE  balance'[a] = balance[a]
        OBVIOUS
      <4>1. a \in Accounts /\ a # x.from /\ a # x.to
        BY <3>1, <3>2 DEF Job
      <4>2. balance[a] \in Int
        BY <4>1 DEF TypeOK
      <4>3. balance'[a] = balance[a] - 0 + 0
        BY <1>2, <4>1
      <4> QED
        BY <4>2, <4>3
    <3>4. Sent(job[u]) # x
      <4>1. Sent(job[u]).from = job[u].from /\ job[u].from # x.from
        BY <3>1 DEF Sent
      <4> QED
        BY <4>1
    <3> QED
      BY <1>1, <1>2, <3>3, <3>4 DEF Right, Before, After, Moved, Sent
  <2>2. CASE pc[u] \notin Busy
    BY <1>2, <2>2 DEF Right, Busy
  <2> QED
    BY <2>1, <2>2
<1>7. Right(t)'
  <2>1. Before(t) /\ Sent(job'[t]) \notin pending' /\ pc'[t] = "wait"
    BY <1>1, <1>2, <1>3 DEF Right
  <2>2. /\ job[t].from \in Accounts /\ job[t].to \in Accounts /\ job[t].value \in Int
        /\ job[t].fromBalance \in Int /\ job[t].toBalance \in Int
    BY <1>4, Amounts DEF Job
  <2>3. After(t)'
    <3>1. CASE job[t].from = job[t].to
      <4>1. balance'[job[t].from] = balance[job[t].from] - (job[t].value + Fee) + job[t].value
        BY <1>2, <1>4, <2>2, <3>1
      <4>2. balance'[job[t].from] = balance[job[t].from] - 0 - Fee
        BY <2>1, <2>2, <4>1, Amounts DEF Before
      <4> QED
        BY <1>2, <2>1, <3>1, <4>2 DEF After, Before, Moved
    <3>2. CASE job[t].from # job[t].to
      <4>1. /\ balance'[job[t].from] = balance[job[t].from] - (job[t].value + Fee) + 0
            /\ balance'[job[t].to] = balance[job[t].to] - 0 + job[t].value
        BY <1>2, <1>4, <2>2, <3>2
      <4>2. /\ balance[job[t].from] = job[t].fromBalance
            /\ balance[job[t].to] = job[t].toBalance
        BY <2>1 DEF Before
      <4>3. /\ balance'[job[t].from] = job[t].fromBalance - job[t].value - Fee
            /\ balance'[job[t].to] = job[t].toBalance + job[t].value
        BY <2>2, <4>1, <4>2, Amounts
      <4> QED
        BY <1>2, <3>2, <4>3 DEF After, Moved
    <3> QED
      BY <3>1, <3>2
  <2> QED
    BY <2>1, <2>3 DEF Right, Sent
<1> QED
  BY <1>1, <1>2, <1>5, <1>6, <1>7

\* The inductive invariant.
LEMMA Inductive == Spec => [](TypeOK /\ Locks /\ Clear)
<1>1. Init => Locks /\ Clear
  <2> SUFFICES ASSUME Init PROVE Locks /\ Clear
    OBVIOUS
  <2>1. \A t \in Tasks : pc[t] = "idle"
    BY DEF Init
  <2>2. pending = {} /\ ~alarm
    BY DEF Init
  <2> QED
    BY <2>1, <2>2 DEF Locks, Holds, Busy, Clear, Owned, Right
<1>2. TypeOK /\ TypeOK' /\ Locks /\ Clear /\ [Next]_vars => Locks' /\ Clear'
  <2> SUFFICES ASSUME TypeOK, TypeOK', Locks, Clear, [Next]_vars PROVE Locks' /\ Clear'
    OBVIOUS
  <2>1. Locks'
    BY LocksNext
  <2>2. CASE \E t \in Tasks : Task(t)
    BY <2>1, <2>2, TaskClear
  <2>3. CASE \E x \in pending : Execute(x)
    BY <2>1, <2>3, ExecuteClear
  <2>4. CASE UNCHANGED vars
    BY <2>1, <2>4 DEF vars, node, Clear, Owned, Right, Before, After, Moved, Sent
  <2> QED
    BY <2>2, <2>3, <2>4 DEF Next, Terminated
<1> QED
  BY <1>1, <1>2, TypeCorrect, PTL DEF Spec

\* While nothing times out, no check complains: for any number of accounts and
\* tasks, transfers to oneself included.
THEOREM NoFalseAlarmAlways == Spec => []NoFalseAlarm
<1>1. Clear => NoFalseAlarm
  BY DEF Clear, NoFalseAlarm
<1> QED
  BY <1>1, Inductive, PTL

\* A transfer in flight belongs to a task that has locked both its accounts.
THEOREM IsolatedAlways == Spec => []Isolated
<1>1. Locks /\ Clear => Isolated
  BY DEF Locks, Holds, Clear, Owned, Isolated, Sent, Busy
<1> QED
  BY <1>1, Inductive, PTL
=============================================================================
