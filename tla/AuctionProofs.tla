---------------------------- MODULE AuctionProofs ----------------------------
(***************************************************************************)
(* The senders of the test cases, and bids among them, for any number of   *)
(* tasks, bidders, nonces, failed calls and dropped transactions.          *)
(***************************************************************************)
EXTENDS Auction, FiniteSetTheorems, SequenceTheorems, TLAPS

USE SendersAssumption DEF SendersAssumption

----------------------------------------------------------------------------
(* TestSenders alone.  No nonce is skipped because the task that holds the *)
(* mutex works with the cached nonce itself, and because the first         *)
(* transaction of a pair is with the node when the second one is sent.     *)

\* The node has been given this nonce.
Given(n) == n < mined \/ \E x \in pool : x.nonce = n

\* The same after the step, for the nonce before it.
GivenAfter(n) == n < mined' \/ \E x \in pool' : x.nonce = n

\* What the task in the middle of an operation knows.
Knows(t) ==
    /\ pc[t] = "load" => job[t].sent = 0
    /\ pc[t] = "send" =>
          /\ job[t].n = nonce
          /\ job[t].sent = 1 => job[t].op \in {"cancel", "pair"}
          /\ job[t].sent = 1 /\ drops = 0 => Given(nonce)

Holder == \A t \in Tasks : Knows(t)

\* Of the senders alone sure, of the bids only as long as no target is executed
\* between two submissions.
Given0(sure) == sure /\ drops = 0 => \A n \in Nat : n < nonce => Given(n)

IInv(sure) == TypeOK /\ Holder /\ Given0(sure)

----------------------------------------------------------------------------
\* What an operation sends is a transaction, and at which nonce.
LEMMA SentTx ==
    ASSUME NEW t \in Tasks, job[t] \in Job,
           job[t].sent = 1 => job[t].op \in {"cancel", "pair"}
    PROVE  /\ Current(t) \in Tx
           /\ Current(t).nonce = IF job[t].op = "pair" /\ job[t].sent = 1
                                   THEN job[t].n + 1 ELSE job[t].n
<1>1. \A n \in Nat, k \in Kinds : Make(job[t], n, k) \in Tx
  BY DEF Job, Tx, Make
<1>2. job[t].n \in Nat /\ job[t].n + 1 \in Nat /\ job[t].sent \in {0, 1}
  BY DEF Job
<1>3. {"transfer", "cancel", "approve", "swap"} = Kinds
  BY DEF Kinds
<1>4. CASE job[t].op = "cancel"
  BY <1>1, <1>2, <1>3, <1>4 DEF Current, Txs, WithCancel, Make
<1>5. CASE job[t].op = "pair"
  BY <1>1, <1>2, <1>3, <1>5 DEF Current, Txs, GaslessPair, Make
<1>6. CASE job[t].op = "approve"
  BY <1>1, <1>2, <1>3, <1>6 DEF Current, Txs, GaslessOnly, Make
<1>7. CASE job[t].op = "single"
  BY <1>1, <1>2, <1>3, <1>7 DEF Current, Txs, Single, Make
<1> QED
  BY <1>4, <1>5, <1>6, <1>7 DEF Job, Ops

\* Only the holder of the mutex is inside an operation.
LEMMA Alone ==
    ASSUME TypeOK, NEW t \in Tasks, NEW u \in Tasks, t # u, pc[t] # "idle"
    PROVE  pc[u] = "idle"
  BY DEF TypeOK

\* The deferred unlock leaves nobody inside.
LEMMA ReturnFrees ==
    ASSUME TypeOK, NEW t \in Tasks, pc[t] # "idle", Return(t)
    PROVE  /\ mutex' \in Tasks \cup Bidders \cup {NoTask}
           /\ pc' \in [Tasks -> {"idle", "load", "send"}]
           /\ job' \in [Tasks -> Job \cup {NoJob}]
           /\ \A u \in Tasks : /\ pc'[u] = "idle" /\ mutex' # u
                               /\ job'[u] \notin Job
<1>1. \A u \in Tasks : pc'[u] = "idle"
  BY Alone DEF TypeOK, Return, Goto
<1>2. \A u \in Tasks : u # t => job[u] \notin Job
  BY Alone DEF TypeOK
<1>3. \A u \in Tasks : job'[u] \notin Job
  BY <1>2 DEF TypeOK, Return
<1>4. /\ mutex' = NoTask
      /\ pc' \in [Tasks -> {"idle", "load", "send"}]
      /\ job' \in [Tasks -> Job \cup {NoJob}]
  BY DEF TypeOK, Return, Goto
<1> QED
  BY <1>1, <1>3, <1>4

\* The parts of TypeOK: who is inside, and the node.
Inside == /\ mutex \in Tasks \cup Bidders \cup {NoTask}
          /\ pc \in [Tasks -> {"idle", "load", "send"}]
          /\ job \in [Tasks -> Job \cup {NoJob}]
          /\ \A t \in Tasks : /\ pc[t] # "idle" <=> mutex = t
                              /\ pc[t] # "idle" <=> job[t] \in Job

Node == /\ mined \in Nat /\ pool \subseteq Tx
        /\ \A x, y \in pool : x.nonce >= mined /\ (x.nonce = y.nonce => x = y)

Counts == /\ role \in {"signed", "approveOnly"} /\ nonce \in Nat
          /\ refused \in Nat /\ faults \in Nat /\ drops \in Nat

LEMMA Parts == TypeOK <=> Inside /\ Node /\ Counts
  BY DEF TypeOK, Inside, Node, Counts

\* A pool that takes a transaction still has one for each nonce.
LEMMA AcceptNode ==
    ASSUME Node, NEW x \in Tx, Accept(x)
    PROVE  /\ Node' /\ mined' = mined /\ x \in pool'
           /\ \A n \in Nat : Given(n) => GivenAfter(n)
<1>1. mined' = mined /\ pool' = (pool \ Slot(x.nonce)) \cup {x} /\ x.nonce >= mined
  BY DEF Accept
<1>2. \A y \in pool' : y = x \/ (y \in pool /\ y.nonce # x.nonce)
  BY <1>1 DEF Slot
<1>3. \A y \in pool : y \in pool' \/ y.nonce = x.nonce
  BY <1>1 DEF Slot
<1>4. Node'
  BY <1>1, <1>2 DEF Node
<1> QED
  BY <1>1, <1>3, <1>4 DEF Given, GivenAfter

\* A step of a task.
LEMMA TaskStep ==
    ASSUME NEW CONSTANT sure, IInv(sure), NEW t \in Tasks, Task(t)
    PROVE  IInv(sure)'
<1>0. Inside /\ Node /\ Counts /\ TypeOK /\ Holder /\ Given0(sure)
  BY Parts DEF IInv
<1> SUFFICES Inside' /\ Node' /\ Counts' /\ Holder' /\ Given0(sure)'
  BY Parts DEF IInv, TypeOK, Inside, Node, Counts
<1>1. CASE Lock(t)
  <2>1. PICK op \in OpsOf(role), v \in Variants :
           job' = [job EXCEPT ![t] = [op |-> op, n |-> 0, sent |-> 0, variant |-> v]]
    BY <1>1 DEF Lock
  <2>2. [op |-> op, n |-> 0, sent |-> 0, variant |-> v] \in Job
    BY DEF Job, OpsOf, Ops
  <2>3. \A u \in Tasks : pc[u] = "idle"
    BY <1>0, <1>1 DEF Lock, Inside
  <2>4. Inside'
    BY <1>0, <1>1, <2>1, <2>2, <2>3 DEF Lock, Inside, Goto
  <2>5. UNCHANGED <<role, nonce, mined, pool, refused, faults, drops>>
    BY <1>1 DEF Lock, node
  <2>6. \A u \in Tasks : pc'[u] # "send" /\ (pc'[u] = "load" => job'[u].sent = 0)
    BY <1>0, <1>1, <2>1, <2>3 DEF Lock, Goto, Inside
  <2> QED
    BY <1>0, <2>4, <2>5, <2>6 DEF Node, Counts, Holder, Knows, Given0, Given
<1>2. CASE LoadNonce(t)
  <2>1. nonce' \in Nat /\ faults' \in Nat /\ (nonce' = nonce \/ nonce' = mined)
    BY <1>0, <1>2 DEF LoadNonce, Fault, Counts, Node
  <2>2. UNCHANGED <<role, mutex, mined, pool, refused, drops>>
    BY <1>2 DEF LoadNonce, node
  <2>3. job[t] \in Job /\ pc[t] = "load" /\ mutex = t
    BY <1>0, <1>2 DEF LoadNonce, Inside
  <2>4. [job[t] EXCEPT !.n = nonce'] \in Job
    BY <2>1, <2>3 DEF Job
  <2>5. /\ job' = [job EXCEPT ![t] = [job[t] EXCEPT !.n = nonce']]
        /\ pc' = [pc EXCEPT ![t] = "send"]
    BY <1>2 DEF LoadNonce, Goto
  <2>6. Inside'
    BY <1>0, <2>2, <2>3, <2>4, <2>5 DEF Inside
  <2>7. job'[t].sent = 0 /\ job'[t].n = nonce'
    BY <1>0, <2>3, <2>5 DEF Holder, Knows, Inside, Job
  <2>8. \A u \in Tasks : u # t => pc'[u] = "idle"
    BY <1>0, <2>3, <2>5, Alone DEF Inside
  <2>9. Holder'
    BY <2>5, <2>7, <2>8, <1>0 DEF Holder, Knows, Inside
  <2>10. Given0(sure)'
    BY <1>0, <2>1, <2>2 DEF Given0, Given, Counts, Node
  <2> QED
    BY <1>0, <2>1, <2>2, <2>6, <2>9, <2>10 DEF Node, Counts
<1>3. CASE GasPriceFails(t)
  BY <1>0, <1>3, ReturnFrees
  DEF GasPriceFails, Fault, Inside, Node, Counts, Holder, Knows, Given0, Given, node
<1>4. ASSUME pc[t] = "send"
      PROVE  /\ job[t] \in Job /\ job[t].n = nonce /\ Knows(t)
             /\ Current(t) \in Tx /\ Current(t).nonce \in Nat
             /\ Current(t).nonce = IF job[t].op = "pair" /\ job[t].sent = 1
                                     THEN nonce + 1 ELSE nonce
  <2>1. job[t] \in Job /\ Knows(t)
    BY <1>0, <1>4 DEF Inside, Holder
  <2>2. job[t].n = nonce /\ (job[t].sent = 1 => job[t].op \in {"cancel", "pair"})
    BY <1>4, <2>1 DEF Knows
  <2> QED
    BY <2>1, <2>2, SentTx DEF Tx
<1>5. CASE SendAccepted(t)
  <2>1. pc[t] = "send" /\ Accept(Current(t)) /\ UNCHANGED <<role, refused, faults, drops>>
    BY <1>5 DEF SendAccepted
  <2>2. Node' /\ mined' = mined /\ Current(t) \in pool'
        /\ \A n \in Nat : Given(n) => GivenAfter(n)
    BY <1>0, <1>4, <2>1, AcceptNode
  <2>3. GivenAfter(Current(t).nonce)
    BY <2>2 DEF GivenAfter
  <2>4. CASE Last(t)
    <3>1. nonce' = nonce + Step(job[t].op) /\ Return(t)
      BY <1>5, <2>4 DEF SendAccepted
    <3>2. Inside' /\ Holder'
      BY <1>0, <2>1, <3>1, ReturnFrees DEF Inside, Holder, Knows
    <3>3. Step(job[t].op) \in {0, 1, 2} /\ nonce' \in Nat /\ nonce \in Nat
      BY <1>0, <3>1 DEF Step, Counts
    <3>4. ASSUME drops = 0, Step(job[t].op) # 0
          PROVE  GivenAfter(nonce) /\ (Step(job[t].op) = 2 => GivenAfter(nonce + 1))
      <4>1. CASE job[t].op = "pair"
        <5>1. job[t].sent = 1
          BY <2>4, <4>1, <1>4, <2>1 DEF Last, Job
        <5>2. GivenAfter(nonce)
          BY <1>4, <2>1, <2>2, <3>3, <3>4, <5>1 DEF Knows
        <5> QED
          BY <1>4, <2>1, <2>3, <4>1, <5>1, <5>2
      <4>2. CASE job[t].op # "pair"
        BY <1>4, <2>1, <2>3, <4>2 DEF Step
      <4> QED
        BY <4>1, <4>2
    <3>5. Given0(sure)'
      <4> SUFFICES ASSUME sure, drops' = 0, NEW n \in Nat, n < nonce'
                   PROVE  GivenAfter(n)
        BY DEF Given0, Given, GivenAfter
      <4>1. drops = 0
        BY <2>1
      <4>2. CASE n < nonce
        BY <1>0, <2>2, <4>1, <4>2 DEF Given0
      <4>3. CASE n >= nonce
        <5>1. n = nonce \/ (n = nonce + 1 /\ Step(job[t].op) = 2)
          BY <3>1, <3>3, <4>3
        <5>2. Step(job[t].op) # 0
          BY <3>1, <3>3, <4>3
        <5> QED
          BY <3>4, <4>1, <5>1, <5>2
      <4> QED
        BY <3>3, <4>2, <4>3
    <3> QED
      BY <1>0, <2>1, <2>2, <3>2, <3>3, <3>5 DEF Counts
  <2>5. CASE ~Last(t)
    <3>1. /\ job' = [job EXCEPT ![t].sent = 1]
          /\ UNCHANGED <<nonce, mutex, pc>>
      BY <1>5, <2>5 DEF SendAccepted
    <3>2. job[t] \in Job /\ job[t].n = nonce /\ job[t].op \in {"cancel", "pair"}
          /\ job[t].sent = 0
      BY <1>4, <2>1, <2>5 DEF Last, Job
    <3>3. /\ [job[t] EXCEPT !.sent = 1] \in Job
          /\ job' = [job EXCEPT ![t] = [job[t] EXCEPT !.sent = 1]]
      BY <3>1, <3>2 DEF Job
    <3>4. Inside'
      BY <1>0, <2>1, <3>1, <3>3 DEF Inside
    <3>5. \A u \in Tasks : u # t => pc'[u] = "idle"
      BY <1>0, <2>1, <3>1, Alone
    <3>6. job'[t].sent = 1 /\ job'[t].n = nonce' /\ job'[t].op \in {"cancel", "pair"}
      BY <1>0, <3>1, <3>2 DEF Inside, Job
    <3>7. GivenAfter(nonce)
      BY <1>4, <2>1, <2>3, <3>2
    <3>8. Holder'
      BY <2>1, <3>1, <3>5, <3>6, <3>7 DEF Holder, Knows, Given, GivenAfter
    <3>9. Given0(sure)'
      BY <1>0, <2>1, <2>2, <3>1 DEF Given0, Given, GivenAfter
    <3> QED
      BY <1>0, <2>1, <2>2, <3>1, <3>4, <3>8, <3>9 DEF Counts
  <2> QED
    BY <2>4, <2>5
<1>6. CASE SendRefused(t)
  <2>1. /\ pc[t] = "send" /\ Return(t)
        /\ UNCHANGED <<role, mined, pool, faults, drops>>
        /\ nonce' = nonce + RefusedStep(job[t].op)
        /\ refused' \in Nat
    BY <1>0, <1>6 DEF SendRefused, node, Counts
  <2>2. Given(Current(t).nonce)
    BY <1>6 DEF SendRefused, Slot, Given
  <2>3. Inside' /\ Holder'
    BY <1>0, <2>1, ReturnFrees DEF Inside, Holder, Knows
  <2>4. RefusedStep(job[t].op) \in {0, 1} /\ nonce \in Nat /\ nonce' \in Nat
    BY <1>0, <2>1 DEF RefusedStep, Counts
  <2>5. drops = 0 => Given(nonce)
    <3>1. CASE job[t].op = "pair" /\ job[t].sent = 1
      BY <1>4, <2>1, <3>1 DEF Knows
    <3>2. CASE ~(job[t].op = "pair" /\ job[t].sent = 1)
      BY <1>4, <2>1, <2>2, <3>2
    <3> QED
      BY <3>1, <3>2
  <2>6. Given0(sure)'
    <3> SUFFICES ASSUME sure, drops = 0, NEW n \in Nat, n < nonce'
                 PROVE  Given(n)
      BY <2>1 DEF Given0, Given
    <3>1. n < nonce \/ n = nonce
      BY <2>1, <2>4
    <3> QED
      BY <1>0, <2>5, <3>1 DEF Given0
  <2> QED
    BY <1>0, <2>1, <2>3, <2>4, <2>6 DEF Node, Counts
<1>7. CASE SendFailed(t)
  <2>1. pc[t] = "send" /\ Return(t) /\ UNCHANGED <<role, nonce, refused, drops>>
    BY <1>7 DEF SendFailed
  <2>2. faults' \in Nat
    BY <1>0, <1>7 DEF SendFailed, Fault, Counts
  <2>3. Inside' /\ Holder'
    BY <1>0, <2>1, ReturnFrees DEF Inside, Holder, Knows
  <2>4. CASE UNCHANGED node
    BY <1>0, <2>1, <2>2, <2>3, <2>4 DEF Node, Counts, Given0, Given, node
  <2>5. CASE Accept(Current(t))
    <3>1. Node' /\ \A n \in Nat : Given(n) => GivenAfter(n)
      BY <1>0, <1>4, <2>1, <2>5, AcceptNode
    <3> QED
      BY <1>0, <2>1, <2>2, <2>3, <3>1 DEF Counts, Given0, Given, GivenAfter
  <2> QED
    BY <1>7, <2>4, <2>5 DEF SendFailed
<1> QED
  BY <1>1, <1>2, <1>3, <1>5, <1>6, <1>7 DEF Task

\* A step of the node.
LEMMA NodeStep ==
    ASSUME NEW CONSTANT sure, IInv(sure), Mine \/ Drop
    PROVE  IInv(sure)'
<1>0. Inside /\ Node /\ Counts /\ TypeOK /\ Holder /\ Given0(sure)
  BY Parts DEF IInv
<1> SUFFICES Inside' /\ Node' /\ Counts' /\ Holder' /\ Given0(sure)'
  BY Parts DEF IInv, TypeOK, Inside, Node, Counts
<1>1. CASE Mine
  <2>1. /\ mined' = mined + 1 /\ pool' = pool \ Slot(mined)
        /\ UNCHANGED <<role, nonce, mutex, pc, job, refused, faults, drops>>
    BY <1>1 DEF Mine
  <2>2. \A x \in pool' : x \in pool /\ x.nonce # mined /\ x.nonce \in Nat
    BY <1>0, <2>1 DEF Slot, Node, Tx
  <2>3. Node'
    BY <1>0, <2>1, <2>2 DEF Node
  <2>4. \A n \in Nat : Given(n) => Given(n)'
    BY <1>0, <2>1 DEF Given, Slot, Node
  <2>5. Holder'
    BY <1>0, <2>1, <2>4 DEF Holder, Knows, Counts
  <2> QED
    BY <1>0, <2>1, <2>3, <2>4, <2>5 DEF Inside, Counts, Given0
<1>2. CASE Drop
  <2>1. /\ mined' = mined /\ pool' \subseteq pool /\ drops' = drops + 1
        /\ UNCHANGED <<role, nonce, mutex, pc, job, refused, faults>>
    BY <1>2 DEF Drop
  <2>2. drops' \in Nat /\ drops' # 0
    BY <1>0, <2>1 DEF Counts
  <2>3. Holder'
    BY <1>0, <2>1, <2>2 DEF Holder, Knows
  <2> QED
    BY <1>0, <2>1, <2>2, <2>3 DEF Inside, Node, Counts, Given0
<1> QED
  BY <1>1, <1>2

LEMMA InitInv == ASSUME NEW CONSTANT sure PROVE Init => IInv(sure)
<1> SUFFICES ASSUME Init PROVE IInv(sure)
  OBVIOUS
<1>1. \A t \in Tasks : pc[t] = "idle" /\ mutex # t /\ job[t] \notin Job
  BY DEF Init
<1>2. Inside
  BY <1>1 DEF Init, Inside
<1>3. Node /\ Given0(sure)
  BY DEF Init, Node, Given0
<1>4. Counts
  BY DEF Init, Counts
<1> QED
  BY <1>1, <1>2, <1>3, <1>4, Parts DEF IInv, Holder, Knows

LEMMA Inductive == Spec => []IInv(TRUE)
<1>1. IInv(TRUE) /\ [Next]_vars => IInv(TRUE)'
  <2>1. ASSUME IInv(TRUE), UNCHANGED vars
        PROVE  IInv(TRUE)'
    BY <2>1 DEF vars, node, IInv, TypeOK, Holder, Knows, Given0, Given
  <2> QED
    BY <2>1, TaskStep, NodeStep DEF Next, Exhausted
<1>2. Init => IInv(TRUE)
  BY InitInv
<1> QED
  BY <1>1, <1>2, PTL DEF Spec

\* The types of TestSenders, and that only the holder of the mutex is inside an
\* operation.
THEOREM TypeCorrect == Spec => []TypeOK
<1>1. IInv(TRUE) => TypeOK
  BY DEF IInv
<1> QED
  BY <1>1, Inductive, PTL

\* No interleaving of senders, refusals, failed calls and blocks skips a nonce.
THEOREM NoHoleAlways == Spec => []NoHole
<1>1. IInv(TRUE) => NoHole
  BY DEF IInv, TypeOK, Given0, Given, NoHole, Slot
<1> QED
  BY <1>1, Inductive, PTL

----------------------------------------------------------------------------
(* Bids among them.  No bid skips a nonce, as long as no block executes    *)
(* the target between the two submissions of a bid: a nonce is counted     *)
(* only where an answer says that the node has a transaction with it.      *)

USE AuctionAssumption DEF AuctionAssumption

Beyond == {"block", "submit", "post"}

\* Where the target stands behind its approval.
Target(b) == IF bid[b].type = "GAS" THEN nonce + 1 ELSE nonce

Says(b, answer) == \E i \in 1..Len(bid[b].answers) : bid[b].answers[i] = answer

\* What the holder of the mutex knows in the middle of a bid.
BidKnows(b) ==
    /\ bid[b].place # "load" => bid[b].n = nonce
    /\ bid[b].place \notin {"submit", "post"} => bid[b].answers = <<>>
    /\ bid[b].place = "post" => Says(b, "ok")
    /\ bid[b].type \in NewKey /\ ~Overtaken => ~Says(b, "low")
    /\ drops = 0 =>
         /\ bid[b].type = "GAS" /\ bid[b].place \in Beyond => Given(nonce)
         /\ bid[b].type \in Own /\ (Says(b, "ok") \/ Says(b, "low")) => Given(Target(b))

BidHolder == \A b \in Bidders : bid[b] # NoBid => BidKnows(b)

BidTypes == /\ bid \in [Bidders -> Bid \cup {NoBid}]
            /\ \A b \in Bidders : bid[b] # NoBid <=> mutex = b
            /\ block \in Nat /\ lastBlock \in Nat /\ away \in Nat

BidInv == IInv(~Overtaken) /\ BidTypes /\ BidHolder

LEMMA BidParts == BidTypeOK <=> TypeOK /\ BidTypes /\ made \subseteq Nat
  BY DEF BidTypeOK, BidTypes

----------------------------------------------------------------------------
\* A bid in progress and what it consists of.
LEMMA BidFields ==
    ASSUME BidInv, NEW b \in Bidders, bid[b] # NoBid
    PROVE  /\ bid[b] \in Bid /\ mutex = b
           /\ bid[b].type \in Own \cup NewKey /\ bid[b].variant \in Variants
           /\ bid[b].n \in Nat /\ bid[b].place \in Places
           /\ bid[b].submissions \in {1, 2} /\ bid[b].block \in Nat
           /\ bid[b].answers \in Seq(Answers) /\ Len(bid[b].answers) \in Nat
           /\ nonce \in Nat /\ mined \in Nat
<1>1. bid[b] \in Bid /\ mutex = b
  BY DEF BidInv, BidTypes
<1>2. nonce \in Nat /\ mined \in Nat
  BY DEF BidInv, IInv, TypeOK
<1> QED
  BY <1>1, <1>2, LenProperties DEF Bid

\* The holder of the mutex is alone: no task is inside an operation, no other
\* bidder inside a bid.
LEMMA BidAlone ==
    ASSUME BidInv, NEW b \in Bidders, mutex = b \/ mutex = NoTask
    PROVE  /\ \A t \in Tasks : pc[t] = "idle" /\ job[t] \notin Job /\ mutex # t
           /\ \A c \in Bidders : c # b => bid[c] = NoBid
  BY DEF BidInv, BidTypes, IInv, TypeOK

\* What a bid sends is a transaction, and at which nonce.
LEMMA BidTxs ==
    ASSUME BidInv, NEW b \in Bidders, bid[b] # NoBid, bid[b].place # "load"
    PROVE  /\ Approve(b) \in Tx /\ Approve(b).nonce = nonce
           /\ Swap(b) \in Tx /\ Swap(b).nonce = nonce + 1
           /\ TargetTx(b) \in Tx /\ TargetTx(b).nonce = Target(b)
<1>1. bid[b].variant \in Variants /\ bid[b].n = nonce /\ nonce \in Nat /\ nonce + 1 \in Nat
  BY BidFields DEF BidInv, BidHolder, BidKnows
<1>2. ASSUME NEW n \in Nat, NEW k \in Kinds
      PROVE  Make(bid[b], n, k) \in Tx /\ Make(bid[b], n, k).nonce = n
  BY <1>1 DEF Make, Tx
<1>3. "transfer" \in Kinds /\ "approve" \in Kinds /\ "swap" \in Kinds
  BY DEF Kinds
<1>4. /\ Approve(b) \in Tx /\ Approve(b).nonce = nonce
      /\ Swap(b) \in Tx /\ Swap(b).nonce = nonce + 1
  BY <1>1, <1>2, <1>3 DEF Approve, Swap
<1>5. TargetTx(b) \in Tx /\ TargetTx(b).nonce = Target(b)
  <2>1. CASE bid[b].type = "GAA"
    BY <1>1, <1>2, <1>3, <2>1 DEF TargetTx, Target
  <2>2. CASE bid[b].type = "GAS"
    BY <1>1, <1>2, <1>3, <2>2 DEF TargetTx, Target
  <2>3. CASE bid[b].type \notin {"GAA", "GAS"}
    BY <1>1, <1>2, <1>3, <2>3 DEF TargetTx, Target
  <2> QED
    BY <2>1, <2>2, <2>3
<1> QED
  BY <1>4, <1>5

\* The invariant of TestSenders after a step of a bidder that keeps the node.
LEMMA StaleIsGiven ==
    ASSUME NEW x \in Tx, Stale(x)
    PROVE  Given(x.nonce)
  BY DEF Stale, Slot, Given

\* The node of a step that may hand it a transaction.
Serves(x) == UNCHANGED node \/ Accept(x)

LEMMA ServesKeeps ==
    ASSUME Node, NEW x \in Tx, Serves(x)
    PROVE  Node' /\ \A n \in Nat : Given(n) => GivenAfter(n)
<1>1. CASE UNCHANGED node
  BY <1>1 DEF Node, Given, GivenAfter, node
<1>2. CASE Accept(x)
  BY <1>2, AcceptNode
<1> QED
  BY <1>1, <1>2 DEF Serves

\* IInv after a step of a bidder: the tasks are outside, and no nonce below the
\* new one is missing.
LEMMA BidderKeeps ==
    ASSUME BidInv, NEW b \in Bidders, mutex = b \/ mutex = NoTask,
           mutex' \in {b, NoTask}, UNCHANGED <<role, pc, job, drops>>,
           Node', \A n \in Nat : Given(n) => GivenAfter(n),
           nonce' \in Nat, refused' \in Nat, faults' \in Nat,
           ~Overtaken /\ drops = 0 => \A n \in Nat : n >= nonce /\ n < nonce' => GivenAfter(n)
    PROVE  IInv(~Overtaken)'
<1>1. /\ \A t \in Tasks : pc[t] = "idle" /\ job[t] \notin Job
      /\ b \notin Tasks /\ NoTask \notin Tasks
  BY BidAlone
<1>2. Inside /\ Counts /\ Given0(~Overtaken)
  BY Parts DEF BidInv, IInv
<1>3. Inside'
  BY <1>1, <1>2 DEF Inside
<1>4. Counts'
  BY <1>2 DEF Counts
<1>5. Holder'
  BY <1>1 DEF Holder, Knows
<1>6. Given0(~Overtaken)'
  <2> SUFFICES ASSUME ~Overtaken, drops' = 0, NEW n \in Nat, n < nonce'
               PROVE  GivenAfter(n)
    BY DEF Given0, Given, GivenAfter
  <2>1. CASE n < nonce
    BY <1>2, <2>1 DEF Given0
  <2>2. CASE n >= nonce
    BY <2>2
  <2> QED
    BY <1>2, <2>1, <2>2 DEF Counts
<1>7. TypeOK'
  BY <1>3, <1>4 DEF TypeOK, Inside, Node, Counts
<1> QED
  BY <1>5, <1>6, <1>7 DEF IInv

\* The bids after a step that gives the mutex back.
LEMMA ReturnKeepsBids ==
    ASSUME BidInv, NEW b \in Bidders, bid[b] # NoBid, BidReturn(b),
           block' \in Nat, lastBlock' \in Nat, away' \in Nat
    PROVE  BidTypes' /\ BidHolder'
<1>1. \A c \in Bidders : bid'[c] = NoBid /\ mutex' # c
  BY BidFields, BidAlone DEF BidReturn, BidInv, BidTypes
<1>2. bid' \in [Bidders -> Bid \cup {NoBid}]
  BY DEF BidReturn, BidInv, BidTypes
<1> QED
  BY <1>1, <1>2 DEF BidTypes, BidHolder

\* The bids after a step within the bid.
LEMMA StepKeepsBids ==
    ASSUME BidInv, NEW b \in Bidders, bid[b] # NoBid,
           NEW j \in Bid, bid' = [bid EXCEPT ![b] = j], mutex' = mutex,
           block' \in Nat, lastBlock' \in Nat, away' \in Nat,
           BidKnows(b)'
    PROVE  BidTypes' /\ BidHolder'
<1>1. mutex = b /\ \A c \in Bidders : c # b => bid'[c] = NoBid
  BY BidFields, BidAlone DEF BidInv, BidTypes
<1>2. bid' \in [Bidders -> Bid \cup {NoBid}] /\ bid'[b] = j /\ j # NoBid
  BY DEF BidInv, BidTypes
<1> QED
  BY <1>1, <1>2 DEF BidTypes, BidHolder

----------------------------------------------------------------------------
(* The steps of a bidder. *)

LEMMA BeginBid ==
    ASSUME BidInv, NEW b \in Bidders, BidLock(b)
    PROVE  BidInv'
<1>1. PICK type \in Targets, v \in Variants, k \in {1, 2} :
         bid' = [bid EXCEPT ![b] = [type |-> type, variant |-> v, n |-> 0, place |-> "load",
                                    submissions |-> k, block |-> 0, answers |-> <<>>]]
  BY DEF BidLock
<1> DEFINE j == [type |-> type, variant |-> v, n |-> 0, place |-> "load",
                 submissions |-> k, block |-> 0, answers |-> <<>>]
<1>2. j \in Bid
  <2>1. <<>> \in Seq(Answers) /\ type \in Own \cup NewKey /\ "load" \in Places
    BY EmptySeq DEF Places
  <2> QED
    BY <2>1 DEF Bid
<1>3. /\ mutex = NoTask /\ mutex' = b
      /\ UNCHANGED <<role, nonce, pc, job, mined, pool, refused, faults, drops,
                     block, lastBlock, away>>
  BY DEF BidLock, node
<1>4. \A c \in Bidders : c # b => bid'[c] = NoBid
  BY <1>1, <1>3, BidAlone DEF BidInv, BidTypes
<1>5. bid' \in [Bidders -> Bid \cup {NoBid}] /\ bid'[b] = j /\ j # NoBid
  BY <1>1, <1>2 DEF BidInv, BidTypes
<1>6. BidTypes'
  BY <1>3, <1>4, <1>5 DEF BidInv, BidTypes
<1>7. BidKnows(b)'
  <2>1. Len(<<>>) = 0 /\ 1..0 = {}
    BY EmptySeq
  <2> QED
    BY <1>5, <2>1 DEF BidKnows, Says, Beyond
<1>8. BidHolder'
  BY <1>4, <1>5, <1>7 DEF BidHolder
<1>9. /\ Node' /\ \A n \in Nat : Given(n) => GivenAfter(n)
      /\ nonce' \in Nat /\ refused' \in Nat /\ faults' \in Nat
  BY <1>3, Parts DEF BidInv, IInv, Node, Counts, Given, GivenAfter
<1>10. IInv(~Overtaken)'
  BY <1>3, <1>9, BidderKeeps
<1> QED
  BY <1>6, <1>8, <1>10 DEF BidInv

LEMMA LoadBid ==
    ASSUME BidInv, NEW b \in Bidders, BidLoad(b)
    PROVE  BidInv'
<1>1. /\ bid[b] # NoBid /\ bid[b].place = "load" /\ nonce' \in {nonce, mined}
      /\ bid' = [bid EXCEPT ![b].n = nonce', ![b].place = "pre"]
      /\ UNCHANGED <<role, mutex, pc, job, mined, pool, refused, drops, block, lastBlock, away>>
  BY DEF BidLoad, Bidding, node
<1>2. /\ bid[b] \in Bid /\ mutex = b /\ bid[b].answers = <<>> /\ nonce' \in Nat
      /\ nonce \in Nat /\ mined \in Nat
  BY <1>1, BidFields DEF BidInv, BidHolder, BidKnows
<1> DEFINE j == [bid[b] EXCEPT !.n = nonce', !.place = "pre"]
<1>3. /\ j \in Bid /\ j.n = nonce' /\ j.place = "pre" /\ j.answers = <<>>
      /\ j.type = bid[b].type
  BY <1>2 DEF Bid, Places
<1>4. bid' = [bid EXCEPT ![b] = j]
  BY <1>1
<1>5. bid'[b] = j
  BY <1>4 DEF BidInv, BidTypes
<1>6. BidKnows(b)'
  <2>1. Len(<<>>) = 0 /\ 1..0 = {}
    BY EmptySeq
  <2> QED
    BY <1>3, <1>5, <2>1 DEF BidKnows, Says, Beyond
<1>7. faults' \in Nat /\ refused' \in Nat
  BY <1>1, Parts DEF BidInv, IInv, Counts, BidLoad, Fault
<1>8. Node' /\ \A n \in Nat : Given(n) => GivenAfter(n)
  BY <1>1, Parts DEF BidInv, IInv, Node, Given, GivenAfter
<1>9. \A n \in Nat : n >= nonce /\ n < nonce' => GivenAfter(n)
  BY <1>1, <1>2 DEF GivenAfter
<1>10. IInv(~Overtaken)'
  BY <1>1, <1>2, <1>7, <1>8, <1>9, BidderKeeps
<1>11. BidTypes' /\ BidHolder'
  <2>1. block' \in Nat /\ lastBlock' \in Nat /\ away' \in Nat
    BY <1>1 DEF BidInv, BidTypes
  <2> QED
    BY <1>1, <1>3, <1>4, <1>6, <2>1, StepKeepsBids
<1> QED
  BY <1>10, <1>11 DEF BidInv

LEMMA GiveUpBid ==
    ASSUME BidInv, NEW b \in Bidders, BidGivesUp(b)
    PROVE  BidInv'
<1>1. /\ bid[b] # NoBid /\ BidReturn(b) /\ mutex = b /\ mutex' = NoTask
      /\ UNCHANGED <<role, nonce, pc, job, mined, pool, refused, drops, block, lastBlock, away>>
  BY BidFields DEF BidGivesUp, Bidding, BidReturn, node
<1>2. nonce \in Nat /\ refused' \in Nat /\ faults' \in Nat
  BY <1>1, Parts DEF BidInv, IInv, Counts, BidGivesUp, Fault
<1>3. Node' /\ \A n \in Nat : Given(n) => GivenAfter(n)
  BY <1>1, Parts DEF BidInv, IInv, Node, Given, GivenAfter
<1>4. IInv(~Overtaken)'
  BY <1>1, <1>2, <1>3, BidderKeeps
<1>5. block' \in Nat /\ lastBlock' \in Nat /\ away' \in Nat
  BY <1>1 DEF BidInv, BidTypes
<1> QED
  BY <1>1, <1>4, <1>5, ReturnKeepsBids DEF BidInv

\* The call that sends the approval of a gasless target.
LEMMA PreSendBid ==
    ASSUME BidInv, NEW b \in Bidders, PreSend(b)
    PROVE  BidInv'
<1>1. /\ bid[b] # NoBid /\ bid[b].place = "pre"
      /\ UNCHANGED <<role, pc, job, drops, block, lastBlock, away>>
  BY DEF PreSend, Bidding
<1>2. /\ bid[b] \in Bid /\ mutex = b /\ bid[b].answers = <<>> /\ bid[b].n = nonce
      /\ nonce \in Nat /\ faults \in Nat /\ refused \in Nat
      /\ Approve(b) \in Tx /\ Approve(b).nonce = nonce
  BY <1>1, BidFields, BidTxs, Parts DEF BidInv, BidHolder, BidKnows, IInv, Counts
<1>3. Node /\ block' \in Nat /\ lastBlock' \in Nat /\ away' \in Nat
  BY <1>1, Parts DEF BidInv, BidTypes, IInv
<1>4. CASE /\ IF bid[b].type = "GAS" THEN Accept(Approve(b)) ELSE UNCHANGED node
           /\ Proceed(b, "block")
           /\ UNCHANGED <<nonce, mutex, refused, faults>>
  <2> DEFINE j == [bid[b] EXCEPT !.place = "block"]
  <2>1. j \in Bid /\ j.n = nonce' /\ j.place = "block" /\ j.answers = <<>> /\ j.type = bid[b].type
    BY <1>2, <1>4 DEF Bid, Places
  <2>2. bid' = [bid EXCEPT ![b] = j] /\ bid'[b] = j
    BY <1>4 DEF Proceed, BidInv, BidTypes
  <2>3. Node' /\ \A n \in Nat : Given(n) => GivenAfter(n)
    BY <1>2, <1>3, <1>4, ServesKeeps DEF Serves
  <2>4. bid[b].type = "GAS" => GivenAfter(nonce)
    BY <1>2, <1>3, <1>4, AcceptNode DEF GivenAfter
  <2>5. BidKnows(b)'
    <3>1. Len(<<>>) = 0 /\ 1..0 = {}
      BY EmptySeq
    <3> QED
      BY <1>4, <2>1, <2>2, <2>4, <3>1 DEF BidKnows, Says, Given, GivenAfter
  <2>6. IInv(~Overtaken)'
    BY <1>1, <1>2, <1>4, <2>3, BidderKeeps
  <2> QED
    BY <1>1, <1>3, <1>4, <2>1, <2>2, <2>5, <2>6, StepKeepsBids DEF BidInv
<1>5. CASE /\ bid[b].type = "GAS" /\ Stale(Approve(b))
           /\ nonce' = nonce + 1 /\ refused' = refused + 1
           /\ BidReturn(b)
           /\ UNCHANGED <<node, faults>>
  <2>1. Given(nonce)
    BY <1>2, <1>5, StaleIsGiven
  <2>2. Node' /\ \A n \in Nat : Given(n) => GivenAfter(n)
    BY <1>2, <1>3, <1>5, ServesKeeps DEF Serves
  <2>3. \A n \in Nat : n >= nonce /\ n < nonce' => GivenAfter(n)
    <3>1. \A n \in Nat : n >= nonce /\ n < nonce' => n = nonce
      BY <1>2, <1>5
    <3> QED
      BY <1>2, <2>1, <2>2, <3>1
  <2>4. mutex' = NoTask /\ nonce' \in Nat /\ refused' \in Nat /\ faults' \in Nat
    BY <1>2, <1>5 DEF BidReturn
  <2>5. IInv(~Overtaken)'
    BY <1>1, <1>2, <2>2, <2>3, <2>4, BidderKeeps
  <2> QED
    BY <1>1, <1>3, <1>5, <2>5, ReturnKeepsBids DEF BidInv
<1>6. CASE /\ \/ bid[b].type = "GAS" /\ CallFails(Approve(b))
              \/ bid[b].type = "rGAS" /\ Fault /\ UNCHANGED node
           /\ BidReturn(b)
           /\ UNCHANGED <<nonce, refused>>
  <2>1. Serves(Approve(b)) /\ faults' \in Nat
    BY <1>2, <1>6 DEF CallFails, Fault, Serves
  <2>2. Node' /\ \A n \in Nat : Given(n) => GivenAfter(n)
    BY <1>2, <1>3, <2>1, ServesKeeps
  <2>3. mutex' = NoTask /\ nonce' = nonce /\ refused' \in Nat
    BY <1>2, <1>6 DEF BidReturn
  <2>4. IInv(~Overtaken)'
    BY <1>1, <1>2, <2>1, <2>2, <2>3, BidderKeeps
  <2> QED
    BY <1>1, <1>3, <1>6, <2>4, ReturnKeepsBids DEF BidInv
<1> QED
  BY <1>4, <1>5, <1>6 DEF PreSend

LEMMA SeeBlockBid ==
    ASSUME BidInv, NEW b \in Bidders, SeeBlock(b)
    PROVE  BidInv'
<1>1. /\ bid[b] # NoBid /\ bid[b].place = "block"
      /\ UNCHANGED <<role, nonce, pc, job, mined, pool, refused, faults, drops, block, lastBlock>>
  BY DEF SeeBlock, Bidding, node
<1>2. /\ bid[b] \in Bid /\ mutex = b /\ BidKnows(b) /\ nonce \in Nat /\ faults \in Nat
      /\ refused \in Nat /\ block \in Nat /\ lastBlock \in Nat /\ away \in Nat /\ Node
  BY <1>1, BidFields, Parts DEF BidInv, BidHolder, IInv, Counts, BidTypes
<1>3. /\ Node' /\ \A n \in Nat : Given(n) => GivenAfter(n)
      /\ away' \in Nat /\ mutex' \in {b, NoTask}
  BY <1>1, <1>2 DEF Node, Given, GivenAfter, SeeBlock, BidReturn
<1>4. IInv(~Overtaken)'
  BY <1>1, <1>2, <1>3, BidderKeeps
<1>5. CASE block # lastBlock
  <2> DEFINE j == [bid[b] EXCEPT !.block = block, !.place = "submit"]
  <2>1. /\ j \in Bid /\ j.n = bid[b].n /\ j.place = "submit" /\ j.answers = bid[b].answers
        /\ j.type = bid[b].type
    BY <1>2 DEF Bid, Places
  <2>2. bid' = [bid EXCEPT ![b] = j] /\ bid'[b] = j /\ mutex' = mutex
    BY <1>5 DEF SeeBlock, BidInv, BidTypes
  <2>3. /\ \A a \in Answers : Says(b, a)' <=> Says(b, a)
        /\ Target(b)' = Target(b) /\ \A m \in Nat : Given(m)' <=> Given(m)
    BY <1>1, <2>1, <2>2 DEF Says, Target, Given
  <2>4. Target(b) \in Nat
    BY <1>2 DEF Target
  <2>5. BidKnows(b)'
    BY <1>1, <1>2, <2>1, <2>2, <2>3, <2>4 DEF BidKnows, Beyond, Answers
  <2> QED
    BY <1>1, <1>2, <1>3, <1>4, <2>1, <2>2, <2>5, StepKeepsBids DEF BidInv
<1>6. CASE block = lastBlock
  <2>1. BidReturn(b)
    BY <1>6 DEF SeeBlock
  <2> QED
    BY <1>1, <1>2, <1>3, <1>4, <2>1, ReturnKeepsBids DEF BidInv
<1> QED
  BY <1>5, <1>6

\* An answer hands the target to the node or leaves the node alone; where it is
\* "ok" or "low" the node has the target's nonce.
LEMMA AnswerTells ==
    ASSUME BidInv, NEW b \in Bidders, bid[b] # NoBid, bid[b].place = "submit",
           NEW answer \in Answers, Answer(b, answer)
    PROVE  /\ Serves(TargetTx(b)) /\ faults' \in Nat
           /\ bid[b].type \in Own /\ answer \in {"ok", "low"} => GivenAfter(Target(b))
           /\ bid[b].type \in NewKey /\ answer = "low" => Overtaken
<1>1. /\ TargetTx(b) \in Tx /\ TargetTx(b).nonce = Target(b) /\ Node /\ faults \in Nat
      /\ bid[b].type \in Own <=> bid[b].type \notin NewKey
  BY BidTxs, BidFields, Parts DEF BidInv, IInv, Counts, Own, NewKey
<1>2. CASE bid[b].type \in NewKey
  <2>1. UNCHANGED node /\ (UNCHANGED faults \/ Fault) /\ (answer = "low" => Overtaken)
    BY <1>2 DEF Answer, Answers
  <2> QED
    BY <1>1, <1>2, <2>1 DEF Serves, Fault
<1>3. CASE bid[b].type \notin NewKey
  <2>1. CASE answer = "ok"
    <3>1. (Accept(TargetTx(b)) \/ (TargetTx(b) \in pool /\ UNCHANGED node)) /\ UNCHANGED faults
      BY <1>3, <2>1 DEF Answer
    <3>2. GivenAfter(Target(b))
      BY <1>1, <3>1, AcceptNode DEF GivenAfter, node
    <3> QED
      BY <1>1, <1>3, <3>1, <3>2 DEF Serves
  <2>2. CASE answer = "low"
    <3>1. Stale(TargetTx(b)) /\ UNCHANGED <<node, faults>>
      BY <1>3, <2>2 DEF Answer
    <3>2. GivenAfter(Target(b))
      BY <1>1, <3>1, StaleIsGiven DEF Given, GivenAfter, node
    <3> QED
      BY <1>1, <1>3, <3>1, <3>2 DEF Serves
  <2>3. CASE answer \in {"other", "error"}
    <3>1. CallFails(TargetTx(b))
      BY <1>3, <2>3 DEF Answer
    <3> QED
      BY <1>1, <1>3, <2>3, <3>1 DEF CallFails, Serves, Fault
  <2> QED
    BY <2>1, <2>2, <2>3 DEF Answers
<1> QED
  BY <1>2, <1>3

LEMMA SubmitBid ==
    ASSUME BidInv, NEW b \in Bidders, Submit(b)
    PROVE  BidInv'
<1>1. /\ bid[b] # NoBid /\ bid[b].place = "submit"
      /\ UNCHANGED <<role, nonce, mutex, pc, job, refused, drops, block, lastBlock, away>>
  BY DEF Submit, Bidding
<1>2. PICK answer \in Answers : /\ Answer(b, answer)
                                /\ bid' = [bid EXCEPT ![b].answers = Append(@, answer)]
  BY DEF Submit
<1>3. /\ bid[b] \in Bid /\ mutex = b /\ BidKnows(b) /\ nonce \in Nat /\ refused \in Nat
      /\ block \in Nat /\ lastBlock \in Nat /\ away \in Nat /\ Node
      /\ bid[b].answers \in Seq(Answers)
      /\ TargetTx(b) \in Tx /\ Target(b) \in Nat /\ nonce + 1 \in Nat
  BY <1>1, BidFields, BidTxs, Parts DEF BidInv, BidHolder, IInv, Counts, BidTypes, Target
<1>4. /\ Serves(TargetTx(b)) /\ faults' \in Nat
      /\ bid[b].type \in Own /\ answer \in {"ok", "low"} => GivenAfter(Target(b))
      /\ bid[b].type \in NewKey /\ ~Overtaken => answer # "low"
  BY <1>1, <1>2, AnswerTells
<1>5. Node' /\ \A n \in Nat : Given(n) => GivenAfter(n)
  BY <1>3, <1>4, ServesKeeps
<1>6. IInv(~Overtaken)'
  BY <1>1, <1>3, <1>4, <1>5, BidderKeeps
<1> DEFINE new == Append(bid[b].answers, answer)
           j == [bid[b] EXCEPT !.answers = new]
<1>7. /\ new \in Seq(Answers) /\ Len(new) = Len(bid[b].answers) + 1
      /\ new[Len(bid[b].answers) + 1] = answer /\ Len(bid[b].answers) \in Nat
      /\ \A i \in 1..Len(bid[b].answers) : new[i] = bid[b].answers[i]
  BY <1>3, AppendProperties, LenProperties
<1>8. /\ j \in Bid /\ j.n = bid[b].n /\ j.place = "submit" /\ j.answers = new
      /\ j.type = bid[b].type
  BY <1>1, <1>3, <1>7 DEF Bid
<1>9. bid' = [bid EXCEPT ![b] = j] /\ bid'[b] = j
  BY <1>2 DEF BidInv, BidTypes
<1> HIDE DEF j, new
<1>10. \A i \in 1..Len(new) : new[i] = answer \/ i \in 1..Len(bid[b].answers)
  BY <1>7
<1>11. \A a \in Answers : Says(b, a)' => Says(b, a) \/ a = answer
  <2> SUFFICES ASSUME NEW a \in Answers, NEW i \in 1..Len(new), new[i] = a, a # answer
               PROVE  \E k \in 1..Len(bid[b].answers) : bid[b].answers[k] = a
    BY <1>8, <1>9 DEF Says
  <2>1. i \in 1..Len(bid[b].answers)
    BY <1>10
  <2> QED
    BY <1>7, <2>1
<1>12. Target(b)' = Target(b)
  BY <1>1, <1>8, <1>9 DEF Target
<1>13. BidKnows(b)'
  <2>1. bid'[b].n = nonce' /\ bid'[b].place = "submit" /\ bid'[b].type = bid[b].type
    BY <1>1, <1>3, <1>8, <1>9 DEF BidKnows
  <2>2. bid[b].type \in NewKey /\ ~Overtaken => ~Says(b, "low")'
    BY <1>3, <1>4, <1>11 DEF BidKnows, Answers
  <2>3. drops = 0 /\ bid[b].type = "GAS" => GivenAfter(nonce)
    BY <1>1, <1>3, <1>5 DEF BidKnows, Beyond
  <2>4. drops = 0 /\ bid[b].type \in Own /\ (Says(b, "ok")' \/ Says(b, "low")')
           => GivenAfter(Target(b))
    BY <1>3, <1>4, <1>5, <1>11 DEF BidKnows, Answers
  <2> QED
    BY <1>1, <1>12, <2>1, <2>2, <2>3, <2>4 DEF BidKnows, Given, GivenAfter
<1> QED
  BY <1>1, <1>3, <1>6, <1>8, <1>9, <1>13, StepKeepsBids DEF BidInv

\* Where every result counts as too low, one of the answers was.
LEMMA AllTooLow ==
    ASSUME NEW r \in Seq(Answers), Len(r) \in {1, 2}, NEW order \in Orders(r),
           TooLow(order) = DOMAIN order
    PROVE  \E i \in 1..Len(r) : r[i] = "low"
<1>1. DOMAIN r = 1..Len(r) /\ 1 \in 1..Len(r) /\ (Len(r) = 2 => 2 \in 1..Len(r))
  BY LenProperties
<1>2. 1 \in DOMAIN order /\ (order[1] = r[1] \/ (Len(r) = 2 /\ order[1] = r[2]))
  BY <1>1 DEF Orders
<1>3. PICK k \in 1..1 : order[k] = "low"
  BY <1>2 DEF TooLow
<1>4. order[1] = "low"
  BY <1>3
<1> QED
  BY <1>1, <1>2, <1>4

LEMMA ConcludeBid ==
    ASSUME BidInv, NEW b \in Bidders, Conclude(b)
    PROVE  BidInv'
<1> DEFINE r == bid[b].answers
<1>1. /\ bid[b] # NoBid /\ bid[b].place = "submit" /\ Len(r) = bid[b].submissions
      /\ UNCHANGED <<role, pc, job, mined, pool, faults, drops, block, lastBlock, away>>
  BY DEF Conclude, Bidding, node
<1>2. /\ bid[b] \in Bid /\ mutex = b /\ BidKnows(b) /\ nonce \in Nat /\ refused \in Nat
      /\ faults \in Nat /\ block \in Nat /\ lastBlock \in Nat /\ away \in Nat /\ Node
      /\ r \in Seq(Answers) /\ Len(r) \in {1, 2} /\ DOMAIN r = 1..Len(r)
      /\ bid[b].type \in Own \/ bid[b].type \in NewKey
  BY <1>1, BidFields, Parts, LenProperties DEF BidInv, BidHolder, IInv, Counts, BidTypes
<1>3. Node' /\ \A n \in Nat : Given(n) => GivenAfter(n)
  BY <1>1, <1>2 DEF Node, Given, GivenAfter
<1>4. CASE \E i \in DOMAIN r : r[i] = "ok"
  <2> DEFINE j == [bid[b] EXCEPT !.place = "post"]
  <2>1. /\ j \in Bid /\ j.n = bid[b].n /\ j.place = "post" /\ j.answers = r
        /\ j.type = bid[b].type
    BY <1>2 DEF Bid, Places
  <2>2. /\ bid' = [bid EXCEPT ![b] = j] /\ bid'[b] = j
        /\ UNCHANGED <<nonce, mutex, refused>>
    BY <1>4 DEF Conclude, Proceed, BidInv, BidTypes
  <2>3. Says(b, "ok") /\ \A a \in Answers : Says(b, a)' <=> Says(b, a)
    BY <1>2, <1>4, <2>1, <2>2 DEF Says
  <2>4. BidKnows(b)'
    BY <1>1, <1>2, <2>1, <2>2, <2>3 DEF BidKnows, Given, Target, Beyond, Answers
  <2>5. IInv(~Overtaken)'
    BY <1>1, <1>2, <1>3, <2>2, BidderKeeps
  <2> QED
    BY <1>1, <1>2, <2>1, <2>2, <2>4, <2>5, StepKeepsBids DEF BidInv
<1>5. CASE ~\E i \in DOMAIN r : r[i] = "ok"
  <2>1. PICK order \in Orders(r) :
           IF TooLow(order) = DOMAIN r
             THEN /\ nonce' = nonce + 1
                  /\ refused' = IF bid[b].type = "GAS" THEN refused ELSE refused + 1
             ELSE UNCHANGED <<nonce, refused>>
    BY <1>5 DEF Conclude
  <2>2. BidReturn(b) /\ mutex' = NoTask
    BY <1>5 DEF Conclude, BidReturn
  <2>3. nonce' \in {nonce, nonce + 1} /\ nonce' \in Nat /\ refused' \in Nat
    BY <1>2, <2>1
  <2>4. ~Overtaken /\ drops = 0 /\ nonce' = nonce + 1 => Given(nonce)
    <3> SUFFICES ASSUME ~Overtaken, drops = 0, nonce' = nonce + 1 PROVE Given(nonce)
      OBVIOUS
    <3>1. nonce + 1 # nonce
      BY <1>2
    <3>2. TooLow(order) = DOMAIN r
      BY <2>1, <3>1
    <3>3. DOMAIN order = DOMAIN r
      BY <1>2 DEF Orders
    <3>4. Says(b, "low")
      BY <1>2, <3>2, <3>3, AllTooLow DEF Says
    <3>5. bid[b].type \in Own /\ Given(Target(b))
      BY <1>2, <3>4 DEF BidKnows
    <3> QED
      BY <1>1, <1>2, <3>5 DEF BidKnows, Target, Beyond
  <2>5. ~Overtaken /\ drops = 0 => \A n \in Nat : n >= nonce /\ n < nonce' => GivenAfter(n)
    <3> SUFFICES ASSUME ~Overtaken, drops = 0, NEW n \in Nat, n >= nonce, n < nonce' PROVE GivenAfter(n)
      OBVIOUS
    <3>1. n = nonce /\ nonce' = nonce + 1
      BY <1>2, <2>3
    <3> QED
      BY <1>3, <2>4, <3>1
  <2>6. IInv(~Overtaken)'
    BY <1>1, <1>2, <1>3, <2>2, <2>3, <2>5, BidderKeeps
  <2> QED
    BY <1>1, <1>2, <2>2, <2>6, ReturnKeepsBids DEF BidInv
<1> QED
  BY <1>4, <1>5

LEMMA PostBid ==
    ASSUME BidInv, NEW b \in Bidders, Post(b)
    PROVE  BidInv'
<1>1. /\ bid[b] # NoBid /\ bid[b].place = "post" /\ BidReturn(b) /\ mutex' = NoTask
      /\ UNCHANGED <<role, pc, job, refused, drops, block, away>>
  BY DEF Post, Bidding, BidReturn
<1>2. /\ bid[b] \in Bid /\ mutex = b /\ BidKnows(b) /\ nonce \in Nat /\ refused \in Nat
      /\ faults \in Nat /\ block \in Nat /\ lastBlock \in Nat /\ away \in Nat /\ Node
      /\ bid[b].block \in Nat /\ bid[b].type \in Own \cup NewKey
      /\ Swap(b) \in Tx /\ Swap(b).nonce = nonce + 1 /\ nonce + 1 \in Nat
  BY <1>1, BidFields, BidTxs, Parts DEF BidInv, BidHolder, IInv, Counts, BidTypes
<1>3. drops = 0 /\ bid[b].type \in Own
         => Given(nonce) /\ (bid[b].type = "GAS" => Given(nonce + 1))
  BY <1>1, <1>2 DEF BidKnows, Target, Beyond
\* What each kind of target does to the nonce.
<1>4. /\ Serves(Swap(b)) /\ faults' \in Nat /\ lastBlock' \in Nat
      /\ \/ nonce' = nonce
         \/ bid[b].type \in Own /\ nonce' = nonce + 1
         \/ bid[b].type = "GAS" /\ nonce' = nonce + 2
         \/ bid[b].type = "GAA" /\ nonce' = nonce + 2 /\ Accept(Swap(b))
  <2>1. CASE bid[b].type \in NewKey
    <3>1. bid[b].type # "GAA"
      BY <2>1 DEF NewKey
    <3>2. UNCHANGED <<nonce, lastBlock, node, faults>>
      BY <2>1, <3>1 DEF Post
    <3> QED
      BY <1>2, <3>2 DEF Serves
  <2>2. CASE bid[b].type = "GAA"
    <3>1. bid[b].type \notin NewKey /\ bid[b].type \in Own
      BY <2>2 DEF NewKey, Own
    <3>2. \/ Accept(Swap(b)) /\ Placed(b) /\ UNCHANGED faults
          \/ /\ Stale(Swap(b)) /\ nonce' = nonce + 1
             /\ UNCHANGED <<lastBlock, node, faults>>
          \/ CallFails(Swap(b)) /\ UNCHANGED <<nonce, lastBlock>>
      BY <2>2, <3>1 DEF Post
    <3> QED
      BY <1>2, <2>2, <3>1, <3>2 DEF Placed, CallFails, Fault, Serves
  <2>3. CASE bid[b].type \notin NewKey \cup {"GAA"}
    <3>1. Placed(b) /\ UNCHANGED <<node, faults>>
      BY <2>3 DEF Post
    <3> QED
      BY <1>2, <2>3, <3>1 DEF Placed, Serves
  <2> QED
    BY <2>1, <2>2, <2>3
<1>5. Node' /\ \A n \in Nat : Given(n) => GivenAfter(n)
  BY <1>2, <1>4, ServesKeeps
<1>6. Accept(Swap(b)) => GivenAfter(nonce + 1)
  BY <1>2, AcceptNode DEF GivenAfter
<1>7. nonce' \in Nat
  BY <1>2, <1>4
<1>8. drops = 0 => \A n \in Nat : n >= nonce /\ n < nonce' => GivenAfter(n)
  <2> SUFFICES ASSUME drops = 0, NEW n \in Nat, n >= nonce, n < nonce' PROVE GivenAfter(n)
    OBVIOUS
  <2>1. "GAS" \in Own /\ "GAA" \in Own
    BY DEF Own
  <2>2. bid[b].type \in Own /\ nonce' # nonce
    BY <1>2, <1>4, <2>1
  <2>3. CASE n = nonce
    BY <1>2, <1>3, <1>5, <2>2, <2>3
  <2>4. CASE n # nonce
    <3>1. n = nonce + 1 /\ nonce' = nonce + 2
      BY <1>2, <1>4, <2>4
    <3>2. nonce + 2 # nonce + 1 /\ nonce + 2 # nonce
      BY <1>2
    <3> QED
      BY <1>2, <1>3, <1>4, <1>5, <1>6, <2>2, <3>1, <3>2
  <2> QED
    BY <2>3, <2>4
<1>9. IInv(~Overtaken)'
  BY <1>1, <1>2, <1>4, <1>5, <1>7, <1>8, BidderKeeps
<1> QED
  BY <1>1, <1>2, <1>4, <1>9, ReturnKeepsBids DEF BidInv

----------------------------------------------------------------------------
(* The other steps. *)

\* What the holder of the mutex knows survives the node's steps.
LEMMA NodeKeepsBids ==
    ASSUME BidInv, Mine \/ Drop, UNCHANGED bidVars
    PROVE  BidInv'
<1>1. IInv(~Overtaken)'
  BY NodeStep DEF BidInv
<1>2. UNCHANGED <<nonce, mutex, bid, block, lastBlock, away>>
  BY DEF Mine, Drop, bidVars
<1>3. Node /\ drops \in Nat /\ nonce \in Nat
  BY Parts DEF BidInv, IInv, Counts
<1>4. drops' = 0 => drops = 0 /\ \A n \in Nat : Given(n) => GivenAfter(n)
  <2>1. CASE Mine
    BY <1>3, <2>1 DEF Mine, Node, Given, GivenAfter, Slot
  <2>2. CASE Drop
    BY <1>3, <2>2 DEF Drop
  <2> QED
    BY <2>1, <2>2
<1>5. ASSUME NEW b \in Bidders, BidKnows(b) PROVE BidKnows(b)'
  <2>1. Target(b) \in Nat /\ Target(b)' = Target(b)
    BY <1>2, <1>3 DEF Target
  <2>2. \A a \in Answers : Says(b, a)' <=> Says(b, a)
    BY <1>2 DEF Says
  <2> QED
    BY <1>2, <1>3, <1>4, <1>5, <2>1, <2>2 DEF BidKnows, Answers, Given, GivenAfter
<1>6. BidTypes' /\ BidHolder'
  BY <1>2, <1>5 DEF BidInv, BidTypes, BidHolder
<1> QED
  BY <1>1, <1>6 DEF BidInv

\* No task moves during a bid.
LEMMA TaskKeepsBids ==
    ASSUME BidInv, NEW t \in Tasks, Task(t), UNCHANGED bidVars
    PROVE  BidInv'
<1>1. IInv(~Overtaken)'
  BY TaskStep DEF BidInv
<1>2. mutex \in {t, NoTask} /\ mutex' \in {mutex, t, NoTask}
  <2>1. (pc[t] = "idle" /\ mutex = NoTask /\ mutex' = t) \/ mutex = t
    BY DEF BidInv, IInv, TypeOK, Task, Lock, LoadNonce, GasPriceFails, SendAccepted,
           SendRefused, SendFailed
  <2>2. mutex' \in {mutex, t, NoTask}
    BY DEF Task, Lock, LoadNonce, GasPriceFails, SendAccepted, SendRefused, SendFailed, Return
  <2> QED
    BY <2>1, <2>2
<1>3. \A b \in Bidders : b # t /\ b # NoTask
  OBVIOUS
<1>4. \A b \in Bidders : bid[b] = NoBid /\ bid'[b] = NoBid /\ mutex' # b
  BY <1>2, <1>3 DEF BidInv, BidTypes, bidVars
<1>5. BidTypes' /\ BidHolder'
  BY <1>4 DEF BidInv, BidTypes, BidHolder, bidVars
<1> QED
  BY <1>1, <1>5 DEF BidInv

LEMMA SameBids ==
    ASSUME BidInv, UNCHANGED vars, UNCHANGED bid, block' \in Nat,
           UNCHANGED <<lastBlock, away>>
    PROVE  BidInv'
<1>1. IInv(~Overtaken)'
  BY DEF BidInv, IInv, TypeOK, Holder, Knows, Given0, Given, vars, node
<1>2. BidTypes'
  BY DEF BidInv, BidTypes, vars
<1>3. ASSUME NEW b \in Bidders, BidKnows(b) PROVE BidKnows(b)'
  BY <1>3 DEF BidKnows, Says, Given, Target, vars, node
<1>4. BidHolder'
  BY <1>3 DEF BidInv, BidHolder
<1> QED
  BY <1>1, <1>2, <1>4 DEF BidInv

LEMMA BidKept == BidInv /\ [BidNext]_allVars => BidInv'
<1> SUFFICES ASSUME BidInv, [BidNext]_allVars PROVE BidInv'
  OBVIOUS
<1>1. CASE Senders /\ UNCHANGED bidVars
  BY <1>1, TaskKeepsBids, NodeKeepsBids DEF Senders
<1>2. ASSUME NEW b \in Bidders, Bidder(b) PROVE BidInv'
  BY <1>2, BeginBid, LoadBid, GiveUpBid, PreSendBid, SeeBlockBid, SubmitBid, ConcludeBid,
     PostBid DEF Bidder
<1>3. CASE NewBlock
  BY <1>3, SameBids DEF NewBlock, BidInv, BidTypes
<1>4. CASE UNCHANGED allVars \/ (Exhausted /\ UNCHANGED bidVars)
  BY <1>4, SameBids DEF allVars, bidVars, Exhausted, BidInv, BidTypes
<1> QED
  BY <1>1, <1>2, <1>3, <1>4 DEF BidNext

LEMMA BidStart == BidInit => BidInv
<1> SUFFICES ASSUME BidInit PROVE BidInv
  OBVIOUS
<1>1. IInv(~Overtaken)
  BY InitInv DEF BidInit
<1>2. \A b \in Bidders : bid[b] = NoBid /\ mutex # b
  BY DEF BidInit, Init
<1> QED
  BY <1>1, <1>2 DEF BidInv, BidTypes, BidHolder, BidInit

\* No interleaving of bids, senders, failed calls and blocks skips a nonce, as
\* long as no block comes between the two submissions of a bid.
THEOREM BidsLeaveNoHole == ASSUME ~Overtaken PROVE BidSpec => []NoHole
<1>1. BidInv => NoHole
  BY DEF BidInv, IInv, TypeOK, Given0, Given, NoHole, Slot
<1> QED
  BY <1>1, BidStart, BidKept, PTL DEF BidSpec

----------------------------------------------------------------------------
(* Blocks.  The block of a bid is read long before it is recorded; what    *)
(* keeps it ahead of the recorded one is that the bidder holds the mutex   *)
(* from the reading on, and that block numbers only grow.                  *)

Dated == /\ lastBlock <= block
         /\ \A b \in Bidders : Bidding(b, "submit") \/ Bidding(b, "post")
                                 => lastBlock < bid[b].block /\ bid[b].block <= block

\* Only bidders move their bids, and only Post records a block.
LEMMA DatesKept == BidInv /\ Dated /\ [BidNext]_allVars => Dated'
<1> SUFFICES ASSUME BidInv, Dated, [BidNext]_allVars PROVE Dated'
  OBVIOUS
<1>1. block \in Nat /\ lastBlock \in Nat
  BY DEF BidInv, BidTypes
<1>2. CASE UNCHANGED bidVars
  BY <1>2 DEF Dated, Bidding, bidVars
<1>3. CASE NewBlock
  <2>1. UNCHANGED <<bid, lastBlock>> /\ block' = block + 1
    BY <1>3 DEF NewBlock
  <2>2. \A b \in Bidders : bid[b] # NoBid => bid[b].block \in Nat
    BY BidFields
  <2> QED
    BY <1>1, <2>1, <2>2 DEF Dated, Bidding
<1>4. ASSUME NEW b \in Bidders, Bidder(b) PROVE Dated'
  <2>1. block' = block
    BY <1>4 DEF Bidder, BidLock, BidLoad, BidGivesUp, PreSend, SeeBlock, Submit, Conclude, Post
  <2>2. mutex = b \/ mutex = NoTask
    BY <1>4, BidFields DEF Bidder, BidLock, BidLoad, BidGivesUp, PreSend, SeeBlock, Submit,
       Conclude, Post, Bidding
  <2>3. \A c \in Bidders : c # b => bid'[c] = NoBid
    <3>1. \A c \in Bidders : c # b => bid[c] = NoBid
      BY <2>2, BidAlone
    <3>2. \A c \in Bidders : c # b => bid'[c] = bid[c]
      BY <1>4 DEF Bidder, BidLock, BidLoad, BidGivesUp, PreSend, SeeBlock, Submit, Conclude,
         Post, Proceed, BidReturn, BidInv, BidTypes
    <3> QED
      BY <3>1, <3>2
  <2>4. bid \in [Bidders -> Bid \cup {NoBid}]
    BY DEF BidInv, BidTypes
  \* The bid is given up, or is not yet, or still, at its submissions.
  <2>5. CASE BidLock(b) \/ BidLoad(b) \/ BidGivesUp(b) \/ PreSend(b)
    <3>1. ~Bidding(b, "submit")' /\ ~Bidding(b, "post")' /\ lastBlock' = lastBlock
      <4>1. CASE BidLock(b)
        BY <4>1, <2>4 DEF BidLock, Bidding
      <4>2. CASE BidLoad(b)
        BY <4>2, <2>4, BidFields DEF BidLoad, Bidding, Bid
      <4>3. CASE BidGivesUp(b)
        BY <4>3, <2>4 DEF BidGivesUp, BidReturn, Bidding
      <4>4. CASE PreSend(b)
        <5>1. bid[b] \in Bid /\ lastBlock' = lastBlock /\ (Proceed(b, "block") \/ BidReturn(b))
          BY <4>4, BidFields DEF PreSend, Bidding
        <5> QED
          BY <5>1, <2>4 DEF Proceed, BidReturn, Bidding, Bid
      <4> QED
        BY <2>5, <4>1, <4>2, <4>3, <4>4
    <3> QED
      BY <2>1, <2>3, <3>1 DEF Dated, Bidding
  <2>6. CASE SeeBlock(b)
    <3>1. bid[b] \in Bid /\ lastBlock' = lastBlock
      BY <2>6, BidFields DEF SeeBlock, Bidding
    <3>2. CASE block # lastBlock
      <4>1. bid'[b].block = block
        BY <2>4, <2>6, <3>1, <3>2 DEF SeeBlock, Bid
      <4> QED
        BY <1>1, <2>1, <2>3, <3>1, <3>2, <4>1 DEF Dated, Bidding
    <3>3. CASE block = lastBlock
      <4>1. bid'[b] = NoBid
        BY <2>4, <2>6, <3>3 DEF SeeBlock, BidReturn
      <4> QED
        BY <2>1, <2>3, <3>1, <4>1 DEF Dated, Bidding
    <3> QED
      BY <3>2, <3>3
  <2>7. CASE Submit(b) \/ Conclude(b)
    <3>1. Bidding(b, "submit") /\ bid[b] \in Bid /\ lastBlock' = lastBlock
      BY <2>7, BidFields DEF Submit, Conclude, Bidding
    <3>2. bid'[b] = NoBid \/ bid'[b].block = bid[b].block
      BY <2>4, <2>7, <3>1 DEF Submit, Conclude, Proceed, BidReturn, Bid
    <3> QED
      BY <2>1, <2>3, <3>1, <3>2 DEF Dated, Bidding
  <2>8. CASE Post(b)
    <3>1. Bidding(b, "post") /\ bid'[b] = NoBid
      BY <2>4, <2>8 DEF Post, BidReturn
    <3>2. lastBlock' = lastBlock \/ lastBlock' = bid[b].block
      BY <2>8 DEF Post, Placed, CallFails
    <3> QED
      BY <2>1, <2>3, <3>1, <3>2 DEF Dated, Bidding
  <2> QED
    BY <1>4, <2>5, <2>6, <2>7, <2>8 DEF Bidder
<1> QED
  BY <1>2, <1>3, <1>4 DEF BidNext, allVars, bidVars

\* As long as no call has failed, the node has been given no nonce beyond the
\* cached one, but for the target of a gasless swap whose approval has it.
Ahead == \E b \in Bidders : bid[b] # NoBid /\ bid[b].type = "GAS" /\ Says(b, "ok")
Level == faults = 0 => \A m \in Nat : Given(m) => m <= nonce \/ (m = nonce + 1 /\ Ahead)

\* Every bid that went through has then recorded its block.
Recorded == faults = 0 => \A k \in made : k <= lastBlock

LEMMA GivenByAccept ==
    ASSUME NEW x, Accept(x), NEW m \in Nat, GivenAfter(m)
    PROVE  Given(m) \/ m = x.nonce
  BY DEF Accept, Given, GivenAfter

LEMMA GivenBySame ==
    ASSUME UNCHANGED node, NEW m \in Nat, GivenAfter(m)
    PROVE  Given(m)
  BY DEF node, Given, GivenAfter

LEMMA Through == \A x, y, z \in Nat : x <= y /\ y <= z => x <= z
  OBVIOUS

\* A step that hands the node nothing but the next nonces, and counts them.
LEMMA LevelBy ==
    ASSUME Level, faults' = 0 => faults = 0, nonce \in Nat, nonce' \in Nat,
           faults' = 0 => \A m \in Nat : GivenAfter(m) =>
               \/ m <= nonce'
               \/ Given(m) /\ nonce <= nonce' /\ (Ahead => Ahead' \/ nonce + 1 <= nonce')
               \/ m = nonce' + 1 /\ Ahead'
    PROVE  Level'
<1> SUFFICES ASSUME faults' = 0, NEW m \in Nat, GivenAfter(m)
             PROVE  m <= nonce' \/ (m = nonce' + 1 /\ Ahead')
  BY DEF Level, Given, GivenAfter
<1>1. CASE Given(m) /\ nonce <= nonce' /\ (Ahead => Ahead' \/ nonce + 1 <= nonce')
  <2>1. faults = 0
    OBVIOUS
  <2>2. m <= nonce \/ (m = nonce + 1 /\ Ahead)
    BY <1>1, <2>1 DEF Level
  <2> HIDE DEF Ahead
  <2>3. CASE m <= nonce
    BY <1>1, <2>3, Through
  <2>4. CASE m = nonce + 1 /\ Ahead
    <3>1. CASE Ahead'
      <4>1. nonce = nonce' \/ nonce + 1 <= nonce'
        BY <1>1
      <4> QED
        BY <2>4, <3>1, <4>1
    <3>2. CASE nonce + 1 <= nonce'
      BY <2>4, <3>2
    <3> QED
      BY <1>1, <2>4, <3>1, <3>2
  <2> QED
    BY <2>2, <2>3, <2>4
<1> HIDE DEF Ahead
<1>2. \/ m <= nonce'
      \/ Given(m) /\ nonce <= nonce' /\ (Ahead => Ahead' \/ nonce + 1 <= nonce')
      \/ m = nonce' + 1 /\ Ahead'
  OBVIOUS
<1> QED
  BY <1>1, <1>2

LEMMA TaskKeepsLevel ==
    ASSUME BidInv, Level, NEW t \in Tasks, Task(t), UNCHANGED bidVars
    PROVE  Level'
<1>1. TypeOK /\ Holder /\ nonce \in Nat /\ mined \in Nat /\ faults \in Nat
  BY DEF BidInv, IInv, TypeOK
<1>2. mutex = t \/ mutex = NoTask
  BY <1>1 DEF Task, Lock, LoadNonce, GasPriceFails, SendAccepted, SendRefused, SendFailed, TypeOK
<1>3. ~Ahead
  BY <1>2 DEF Ahead, BidInv, BidTypes
<1>4. CASE Lock(t)
  <2>1. UNCHANGED <<nonce, node, faults>>
    BY <1>4 DEF Lock
  <2> QED
    BY <1>1, <1>3, <2>1, GivenBySame, LevelBy
<1>5. CASE LoadNonce(t)
  <2>1. UNCHANGED node /\ nonce' \in Nat /\ nonce' >= nonce /\ (faults' = 0 => faults = 0)
    BY <1>1, <1>5 DEF LoadNonce, Fault
  <2> QED
    BY <1>1, <1>3, <2>1, GivenBySame, LevelBy
<1>6. CASE GasPriceFails(t)
  BY <1>1, <1>6 DEF GasPriceFails, Fault, Level
<1>7. ASSUME pc[t] = "send"
      PROVE  /\ Current(t) \in Tx
             /\ \/ Current(t).nonce = nonce
                \/ Current(t).nonce = nonce + 1 /\ Last(t) /\ job[t].op = "pair"
  <2>1. job[t] \in Job /\ Knows(t) /\ job[t].n = nonce
    BY <1>1, <1>7 DEF TypeOK, Holder, Knows
  <2> QED
    BY <1>7, <2>1, SentTx DEF Knows, Last
<1>8. CASE SendAccepted(t)
  <2>1. Accept(Current(t)) /\ faults' = faults
    BY <1>8 DEF SendAccepted
  <2>2. /\ nonce' \in Nat /\ nonce' >= nonce
        /\ Last(t) /\ job[t].op = "pair" => nonce' = nonce + 2
    BY <1>1, <1>8 DEF SendAccepted, Step
  <2>3. Current(t).nonce <= nonce'
    BY <1>1, <1>7, <1>8, <2>2 DEF SendAccepted
  <2> QED
    BY <1>1, <1>3, <2>1, <2>2, <2>3, GivenByAccept, LevelBy
<1>9. CASE SendRefused(t)
  <2>1. UNCHANGED <<node, faults>> /\ nonce' \in Nat /\ nonce' >= nonce
    BY <1>1, <1>9 DEF SendRefused, RefusedStep
  <2> QED
    BY <1>1, <1>3, <2>1, GivenBySame, LevelBy
<1>10. CASE SendFailed(t)
  <2>1. nonce' = nonce /\ (faults' = 0 => faults = 0 /\ UNCHANGED node)
    BY <1>1, <1>10 DEF SendFailed, Fault
  <2> QED
    BY <1>1, <1>3, <2>1, GivenBySame, LevelBy
<1> QED
  BY <1>4, <1>5, <1>6, <1>8, <1>9, <1>10 DEF Task

LEMMA NodeKeepsLevel ==
    ASSUME BidInv, Level, Mine \/ Drop, UNCHANGED bidVars
    PROVE  Level'
<1>1. nonce \in Nat /\ mined \in Nat /\ UNCHANGED <<nonce, faults>>
  BY DEF BidInv, IInv, TypeOK, Mine, Drop
<1>2. Ahead' = Ahead
  BY DEF Ahead, Says, bidVars
<1>3. ASSUME NEW m \in Nat, GivenAfter(m) PROVE Given(m)
  <2>1. CASE Mine
    BY <1>1, <1>3, <2>1 DEF Mine, Given, GivenAfter, Slot
  <2>2. CASE Drop
    BY <1>3, <2>2 DEF Drop, Given, GivenAfter
  <2> QED
    BY <2>1, <2>2
<1> HIDE DEF Ahead
<1> QED
  BY <1>1, <1>2, <1>3, LevelBy

\* A bidder under way is the only one.
LEMMA AheadIs ==
    ASSUME BidInv, NEW b \in Bidders, bid[b] # NoBid
    PROVE  Ahead <=> bid[b].type = "GAS" /\ Says(b, "ok")
  BY BidFields, BidAlone DEF Ahead

LEMMA BidderKeepsLevel ==
    ASSUME BidInv, Level, NEW b \in Bidders, Bidder(b)
    PROVE  Level'
<1>1. nonce \in Nat /\ mined \in Nat /\ faults \in Nat
  BY DEF BidInv, IInv, TypeOK
<1>2. bid \in [Bidders -> Bid \cup {NoBid}]
  BY DEF BidInv, BidTypes
<1> HIDE DEF Ahead
<1>3. CASE BidLock(b)
  <2>1. ~Ahead
    BY <1>3 DEF BidLock, Ahead, BidInv, BidTypes
  <2>2. UNCHANGED <<nonce, node, faults>>
    BY <1>3 DEF BidLock
  <2> QED
    BY <1>1, <2>1, <2>2, GivenBySame, LevelBy
<1>4. ASSUME bid[b] # NoBid, ~Says(b, "ok")
      PROVE  ~Ahead
  BY <1>4, AheadIs
<1>5. ASSUME bid[b] # NoBid, bid[b].place \notin {"submit", "post"}
      PROVE  ~Ahead
  <2>1. bid[b].answers = <<>>
    BY <1>5 DEF BidInv, BidHolder, BidKnows
  <2> QED
    BY <1>4, <1>5, <2>1 DEF Says
<1>6. CASE BidLoad(b)
  <2>1. ~Ahead /\ UNCHANGED node
    BY <1>5, <1>6 DEF BidLoad, Bidding
  <2>2. nonce' \in Nat /\ nonce' >= nonce /\ (faults' = 0 => faults = 0)
    BY <1>1, <1>6 DEF BidLoad, Fault
  <2> QED
    BY <1>1, <2>1, <2>2, GivenBySame, LevelBy
<1>7. CASE BidGivesUp(b)
  BY <1>1, <1>7 DEF BidGivesUp, Fault, Level
<1>8. CASE PreSend(b)
  <2>1. ~Ahead
    BY <1>5, <1>8 DEF PreSend, Bidding
  <2>2. Approve(b).nonce = nonce
    BY <1>8, BidTxs DEF PreSend, Bidding
  <2>3. \/ (UNCHANGED node \/ Accept(Approve(b))) /\ UNCHANGED <<nonce, faults>>
        \/ UNCHANGED <<node, faults>> /\ nonce' = nonce + 1
        \/ UNCHANGED nonce /\ (faults' = 0 => faults = 0 /\ UNCHANGED node)
    BY <1>1, <1>8 DEF PreSend, CallFails, Fault
  <2> QED
    BY <1>1, <2>1, <2>2, <2>3, GivenBySame, GivenByAccept, LevelBy
<1>9. CASE SeeBlock(b)
  <2>1. ~Ahead /\ UNCHANGED <<nonce, node, faults>>
    BY <1>5, <1>9 DEF SeeBlock, Bidding
  <2> QED
    BY <1>1, <2>1, GivenBySame, LevelBy
<1>10. CASE Submit(b)
  <2>1. PICK answer \in Answers :
           /\ Answer(b, answer)
           /\ bid' = [bid EXCEPT ![b] = [bid[b] EXCEPT !.answers = Append(bid[b].answers, answer)]]
    BY <1>10 DEF Submit
  <2>2. bid[b] # NoBid /\ bid[b].place = "submit" /\ nonce' = nonce
    BY <1>10 DEF Submit, Bidding
  <2>3. /\ bid[b] \in Bid /\ bid[b].answers \in Seq(Answers)
        /\ bid[b].type \in Own \cup NewKey
    BY <2>2, BidFields
  <2>4. /\ bid'[b].type = bid[b].type /\ bid'[b] # NoBid
        /\ bid'[b].answers = Append(bid[b].answers, answer)
    <3>1. bid'[b] = [bid[b] EXCEPT !.answers = Append(bid[b].answers, answer)]
      BY <1>2, <2>1
    <3>2. Append(bid[b].answers, answer) \in Seq(Answers)
      BY <2>3
    <3> HIDE DEF Answers
    <3>3. [bid[b] EXCEPT !.answers = Append(bid[b].answers, answer)] \in Bid
      BY <2>3, <3>2 DEF Bid
    <3>4. bid'[b] \in Bid
      BY <3>1, <3>3
    <3>5. bid'[b].type = bid[b].type /\ bid'[b].answers = Append(bid[b].answers, answer)
      BY <2>3, <3>1 DEF Bid
    <3> QED
      BY <3>4, <3>5, AuctionAssumption
  <2>5. Says(b, "ok") \/ answer = "ok" => Says(b, "ok")'
    BY <2>3, <2>4 DEF Says
  <2>6. (Ahead \/ (bid[b].type = "GAS" /\ answer = "ok")) => Ahead'
    <3>1. bid[b].type = "GAS" /\ (Says(b, "ok") \/ answer = "ok") => Ahead'
      BY <2>4, <2>5 DEF Ahead
    <3> QED
      BY <2>2, <3>1, AheadIs
  <2>7. TargetTx(b).nonce = IF bid[b].type = "GAS" THEN nonce + 1 ELSE nonce
    BY <2>2, BidTxs DEF Target
  <2>8. \/ UNCHANGED node /\ (faults' = 0 => faults = 0)
        \/ Accept(TargetTx(b)) /\ answer = "ok" /\ faults' = faults
        \/ faults' # 0
    <3>1. CASE bid[b].type \in NewKey
      BY <1>1, <2>1, <3>1 DEF Answer, Fault
    <3>2. CASE bid[b].type \notin NewKey
      BY <1>1, <2>1, <3>2 DEF Answer, CallFails, Fault
    <3> QED
      BY <3>1, <3>2
  <2>9. CASE UNCHANGED node /\ (faults' = 0 => faults = 0)
    BY <1>1, <2>2, <2>6, <2>9, GivenBySame, LevelBy
  <2>10. CASE Accept(TargetTx(b)) /\ answer = "ok" /\ faults' = faults
    <3>1. ASSUME NEW m \in Nat, GivenAfter(m)
          PROVE  Given(m) \/ m <= nonce' \/ (m = nonce' + 1 /\ Ahead')
      BY <1>1, <2>2, <2>6, <2>7, <2>10, <3>1, GivenByAccept
    <3> QED
      BY <1>1, <2>2, <2>6, <2>10, <3>1, LevelBy
  <2>11. CASE faults' # 0
    BY <2>11 DEF Level
  <2> QED
    BY <2>8, <2>9, <2>10, <2>11
<1>11. CASE Conclude(b)
  <2>1. bid[b] # NoBid /\ bid[b] \in Bid /\ UNCHANGED <<node, faults>>
    BY <1>11, BidFields DEF Conclude, Bidding
  <2>2. nonce' \in Nat /\ nonce' >= nonce
    BY <1>1, <1>11 DEF Conclude
  <2>3. Ahead => Ahead'
    <3> SUFFICES ASSUME Ahead PROVE Ahead'
      OBVIOUS
    <3>1. bid[b].type = "GAS" /\ Says(b, "ok")
      BY <2>1, AheadIs
    <3>2. Proceed(b, "post")
      BY <1>11, <3>1 DEF Conclude, Says
    <3>3. bid'[b] = [bid[b] EXCEPT !.place = "post"]
      BY <1>2, <3>2 DEF Proceed
    <3>4. [bid[b] EXCEPT !.place = "post"] \in Bid
      BY <2>1 DEF Bid, Places
    <3>5. bid'[b].type = "GAS" /\ bid'[b].answers = bid[b].answers /\ bid'[b] # NoBid
      BY <2>1, <3>1, <3>3, <3>4 DEF Bid
    <3> QED
      BY <3>1, <3>5 DEF Ahead, Says
  <2> QED
    BY <1>1, <2>1, <2>2, <2>3, GivenBySame, LevelBy
<1>12. CASE Post(b)
  <2>1. bid[b] # NoBid /\ bid[b].place = "post"
    BY <1>12 DEF Post, Bidding
  <2>2. Swap(b).nonce = nonce + 1 /\ bid[b].type \in Own \cup NewKey
    BY <2>1, BidTxs, BidFields
  <2>3. CASE bid[b].type = "GAS"
    <3>1. nonce' = nonce + 2 /\ UNCHANGED <<node, faults>>
      BY <1>12, <2>3 DEF Post, Placed, NewKey
    <3> QED
      BY <1>1, <3>1, GivenBySame, LevelBy
  <2>4. CASE bid[b].type # "GAS"
    <3>1. ~Ahead
      BY <2>1, <2>4, AheadIs
    <3>2. \/ Accept(Swap(b)) /\ nonce' = nonce + 2 /\ UNCHANGED faults
          \/ UNCHANGED <<node, faults>> /\ nonce' \in {nonce, nonce + 1}
          \/ UNCHANGED nonce /\ (faults' = 0 => faults = 0 /\ UNCHANGED node)
      <4>1. CASE bid[b].type \in NewKey
        BY <1>1, <1>12, <4>1 DEF Post, NewKey
      <4>2. CASE bid[b].type = "GAA"
        BY <1>1, <1>12, <4>2 DEF Post, Placed, CallFails, Fault, NewKey
      <4>3. CASE bid[b].type \notin NewKey \cup {"GAA"}
        BY <1>12, <2>4, <4>3 DEF Post, Placed
      <4> QED
        BY <4>1, <4>2, <4>3
    <3> QED
      BY <1>1, <2>2, <3>1, <3>2, GivenBySame, GivenByAccept, LevelBy
  <2> QED
    BY <2>3, <2>4
<1> QED
  BY <1>3, <1>6, <1>7, <1>8, <1>9, <1>10, <1>11, <1>12 DEF Bidder

LEMMA LevelKept == BidInv /\ Level /\ [BidNext]_allVars => Level'
<1> SUFFICES ASSUME BidInv, Level, [BidNext]_allVars PROVE Level'
  OBVIOUS
<1>1. CASE UNCHANGED <<nonce, node, faults, bid>>
  BY <1>1 DEF Level, Ahead, Says, Given, node
<1>2. CASE NewBlock \/ (Exhausted /\ UNCHANGED bidVars) \/ UNCHANGED allVars
  BY <1>1, <1>2 DEF NewBlock, Exhausted, allVars, vars, bidVars
<1> QED
  BY <1>2, TaskKeepsLevel, NodeKeepsLevel, BidderKeepsLevel DEF BidNext, Senders

\* With the node on the level of the cached nonce, the swap behind the approval
\* that a bid has placed is taken, and so the block is recorded.
LEMMA PostRecords ==
    ASSUME BidInv, Level, NEW b \in Bidders, Post(b), bid[b].type \in Own, faults' = 0
    PROVE  lastBlock' = bid[b].block
<1>1. bid[b] # NoBid /\ bid[b].place = "post"
  BY DEF Post, Bidding
<1>2. nonce \in Nat /\ faults \in Nat
  BY DEF BidInv, IInv, TypeOK
<1>3. CASE bid[b].type = "GAA"
  <2>1. Swap(b) \in Tx /\ Swap(b).nonce = nonce + 1 /\ nonce + 1 \in Nat
    BY <1>1, <1>2, BidTxs
  <2>2. faults = 0
    BY <1>2, <1>3 DEF Post, CallFails, Fault, NewKey
  <2>3. ~Ahead
    BY <1>1, <1>3, AheadIs
  <2>4. ~Given(nonce + 1)
    BY <1>2, <2>2, <2>3 DEF Level
  <2>5. ~Stale(Swap(b)) /\ Swap(b) \notin pool
    BY <2>1, <2>4, StaleIsGiven DEF Given
  <2>6. ~CallFails(Swap(b))
    BY <1>2, <2>5 DEF CallFails, Fault
  <2> QED
    BY <1>3, <2>5, <2>6 DEF Post, Placed, NewKey
<1>4. CASE bid[b].type # "GAA"
  BY <1>4 DEF Post, Placed, NewKey, Own
<1> QED
  BY <1>3, <1>4

LEMMA RecordedKept ==
    ASSUME BidInv, Level, Dated, Recorded, made \subseteq Nat, [BidNext]_allVars
    PROVE  Recorded' /\ made' \subseteq Nat
<1>1. CASE UNCHANGED <<made, lastBlock>> /\ (faults' = 0 => faults = 0)
  BY <1>1 DEF Recorded
<1>2. faults \in Nat /\ lastBlock \in Nat
  BY DEF BidInv, BidTypes, IInv, TypeOK
<1>3. CASE Senders /\ UNCHANGED bidVars
  <2>1. faults' = 0 => faults = 0
    BY <1>2, <1>3 DEF Senders, Task, Lock, LoadNonce, GasPriceFails, SendAccepted, SendRefused,
       SendFailed, Fault, Mine, Drop
  <2> QED
    BY <1>1, <1>3, <2>1 DEF bidVars
<1>4. CASE NewBlock \/ (Exhausted /\ UNCHANGED bidVars) \/ UNCHANGED allVars
  BY <1>1, <1>4 DEF NewBlock, Exhausted, allVars, vars, bidVars
<1>5. ASSUME NEW b \in Bidders, Bidder(b), ~Post(b) PROVE Recorded' /\ made' \subseteq Nat
  <2>1. CASE BidLock(b) \/ BidLoad(b) \/ BidGivesUp(b) \/ SeeBlock(b) \/ Conclude(b)
    BY <1>1, <1>2, <2>1 DEF BidLock, BidLoad, BidGivesUp, SeeBlock, Conclude, Fault
  <2>2. CASE PreSend(b)
    BY <1>1, <1>2, <2>2 DEF PreSend, CallFails, Fault
  <2>3. CASE Submit(b)
    <3>1. PICK answer \in Answers : Answer(b, answer)
      BY <2>3 DEF Submit
    <3>2. faults' = 0 => faults = 0
      <4>1. CASE bid[b].type \in NewKey
        BY <1>2, <3>1, <4>1 DEF Answer, Fault
      <4>2. CASE bid[b].type \notin NewKey
        BY <1>2, <3>1, <4>2 DEF Answer, CallFails, Fault
      <4> QED
        BY <4>1, <4>2
    <3> QED
      BY <1>1, <2>3, <3>2 DEF Submit
  <2> QED
    BY <1>5, <2>1, <2>2, <2>3 DEF Bidder
<1>6. ASSUME NEW b \in Bidders, Post(b) PROVE Recorded' /\ made' \subseteq Nat
  <2>1. bid[b].block \in Nat /\ bid[b].type \in Own \cup NewKey /\ lastBlock < bid[b].block
    BY <1>6, BidFields DEF Post, Bidding, Dated
  <2>2. faults' = 0 => faults = 0
    BY <1>2, <1>6 DEF Post, Placed, CallFails, Fault
  <2>3. CASE bid[b].type \in Own
    <3>1. made' = made \cup {bid[b].block}
      BY <1>6, <2>3 DEF Post
    <3>2. faults' = 0 => lastBlock' = bid[b].block
      BY <1>6, <2>3, PostRecords
    <3>3. Recorded'
      <4> SUFFICES ASSUME faults' = 0, NEW k \in made' PROVE k <= lastBlock'
        BY DEF Recorded
      <4>1. CASE k \in made
        <5>1. k \in Nat /\ k <= lastBlock
          BY <2>2, <4>1 DEF Recorded
        <5> QED
          BY <1>2, <2>1, <3>2, <5>1
      <4>2. CASE k = bid[b].block
        BY <2>1, <3>2, <4>2
      <4> QED
        BY <3>1, <4>1, <4>2
    <3> QED
      BY <2>1, <3>1, <3>3
  <2>4. CASE bid[b].type \notin Own
    <3>1. lastBlock' = lastBlock
      BY <1>6, <2>1, <2>4 DEF Post, Own, NewKey
    <3>2. made' = made
      BY <1>6, <2>4 DEF Post
    <3> QED
      BY <1>1, <2>2, <3>1, <3>2
  <2> QED
    BY <2>3, <2>4
<1> QED
  BY <1>3, <1>4, <1>5, <1>6 DEF BidNext

\* What holds of the blocks in every reachable state.
BlockInv == BidInv /\ Dated /\ Level /\ Recorded /\ made \subseteq Nat

LEMMA BlockInvariance == BidSpec => []BlockInv
<1>1. BidInit => BlockInv
  <2> SUFFICES ASSUME BidInit PROVE BlockInv
    OBVIOUS
  <2>1. Dated /\ Recorded /\ made \subseteq Nat
    BY DEF BidInit, Dated, Recorded, Bidding
  <2>2. Level
    BY DEF BidInit, Init, Level, Given
  <2> QED
    BY <2>1, <2>2, BidStart DEF BlockInv
<1>2. BlockInv /\ [BidNext]_allVars => BlockInv'
  BY BidKept, DatesKept, LevelKept, RecordedKept DEF BlockInv
<1> QED
  BY <1>1, <1>2, PTL DEF BidSpec

\* The types, and that one bidder or task at most is inside the account.
THEOREM BidTypesCorrect == BidSpec => []BidTypeOK
<1>1. BlockInv => BidTypeOK
  BY BidParts DEF BlockInv, BidInv, IInv
<1> QED
  BY <1>1, BlockInvariance, PTL

\* While no call has failed, the bids that go through for transactions the
\* account signs itself, the gasless approval with the swap behind it among
\* them, are at different blocks, whatever the tasks, the bidders and the node do
\* in between (account.go:1203-1209).
THEOREM OneBidUndisturbedAlways == BidSpec => []OneBidUndisturbed
<1>1. BlockInv => OneBidUndisturbed
  <2> SUFFICES ASSUME BlockInv, faults = 0, NEW b \in Bidders, Bidding(b, "post"),
                      bid[b].block \in made
               PROVE  FALSE
    BY DEF OneBidUndisturbed, OneBidPerBlock
  <2>1. bid[b].block \in Nat /\ lastBlock \in Nat
    BY BidFields DEF BlockInv, BidInv, BidTypes, Bidding
  <2> QED
    BY <2>1 DEF BlockInv, Dated, Recorded
<1> QED
  BY <1>1, BlockInvariance, PTL

----------------------------------------------------------------------------
(* How far the nonce falls behind.  The transactions the node has from the *)
(* account are counted against the cached nonce and the refusals; what the *)
(* count is off by is bounded by the failed calls and the bids turned      *)
(* away, and by what the operation under way has placed and will still     *)
(* account for.                                                            *)

Known == mined + Cardinality(pool)

Within(k)      == refused + Known - nonce <= 2 * faults + away + k
WithinAfter(k) == refused' + Known' - nonce' <= 2 * faults' + away' + k

\* The node has the next nonce and not the one behind it.
One == IF Given(nonce) /\ ~Given(nonce + 1) THEN 1 ELSE 0

\* What the first transaction of an operation is still counted for.
TaskOpen(t) == IF job[t].sent = 1 THEN One ELSE 0

\* The same for a bid: its approval until the first answer, its target, and for
\* a gasless swap both of them, once one of the submissions went through.
BidOpen(b) ==
    IF bid[b].type \in NewKey THEN 0
    ELSE IF Says(b, "ok") THEN IF bid[b].type = "GAS" THEN 2 ELSE One
    ELSE IF bid[b].type = "GAS" /\ bid[b].place \in Beyond /\ bid[b].answers = <<>>
           THEN One ELSE 0

\* Ahead of the cached nonce the node has been given no nonce without the one
\* below it.
Solid == \A n \in Nat : n >= nonce /\ Given(n + 1) => Given(n)

\* The transfer that a cancellation is to replace is with the node.
Cancels == \A t \in Tasks :
               pc[t] = "send" /\ job[t].sent = 1 /\ job[t].op = "cancel"
                   => nonce < mined \/ Make(job[t], nonce, "transfer") \in pool

\* A signed account makes no lone approvals.
Roles == role = "signed" => \A t \in Tasks : pc[t] # "idle" => job[t].op # "approve"

Lagged == role = "signed" =>
              /\ mutex = NoTask => Within(0)
              /\ \A t \in Tasks : mutex = t => Within(TaskOpen(t))
              /\ \A b \in Bidders : mutex = b => Within(BidOpen(b))

LagInv == /\ BidInv /\ IsFiniteSet(pool) /\ Roles
          /\ drops = 0 => Solid /\ Cancels /\ Lagged

----------------------------------------------------------------------------
\* What the node counts when it takes a transaction.
LEMMA AcceptCount ==
    ASSUME Node, IsFiniteSet(pool), NEW x \in Tx, Accept(x)
    PROVE  /\ IsFiniteSet(pool')
           /\ Known' = IF Given(x.nonce) THEN Known ELSE Known + 1
           /\ \A n \in Nat : GivenAfter(n) <=> Given(n) \/ n = x.nonce
<1>1. /\ mined' = mined /\ pool' = (pool \ Slot(x.nonce)) \cup {x}
      /\ x.nonce >= mined /\ x \notin pool /\ x.nonce \in Nat /\ mined \in Nat
  BY DEF Accept, Node, Tx
<1>2. Cardinality(pool) \in Nat
  BY FS_CardinalityType
<1>3. CASE Slot(x.nonce) = {}
  <2>1. pool' = pool \cup {x}
    BY <1>1, <1>3
  <2>2. ~Given(x.nonce)
    BY <1>1, <1>3 DEF Given, Slot
  <2>3. /\ IsFiniteSet(pool \cup {x})
        /\ Cardinality(pool \cup {x}) = Cardinality(pool) + 1
    BY <1>1, FS_AddElement
  <2>4. \A n \in Nat : GivenAfter(n) <=> Given(n) \/ n = x.nonce
    BY <1>1, <2>1 DEF Given, GivenAfter
  <2> QED
    BY <1>1, <1>2, <2>1, <2>2, <2>3, <2>4 DEF Known
<1>4. CASE Slot(x.nonce) # {}
  <2>1. PICK y \in pool : y.nonce = x.nonce
    BY <1>4 DEF Slot
  <2>2. Slot(x.nonce) = {y}
    BY <2>1 DEF Slot, Node
  <2>3. IsFiniteSet(pool \ {y}) /\ Cardinality(pool \ {y}) = Cardinality(pool) - 1
    BY <2>1, FS_RemoveElement
  <2>4. x \notin pool \ {y}
    BY <1>1
  <2>5. /\ IsFiniteSet((pool \ {y}) \cup {x})
        /\ Cardinality((pool \ {y}) \cup {x}) = Cardinality(pool \ {y}) + 1
    BY <2>3, <2>4, FS_AddElement
  <2>6. pool' = (pool \ {y}) \cup {x}
    BY <1>1, <2>2
  <2>7. \A n \in Nat : GivenAfter(n) <=> Given(n) \/ n = x.nonce
    BY <1>1, <2>1, <2>6 DEF Given, GivenAfter
  <2>8. Given(x.nonce)
    BY <2>1 DEF Given
  <2>9. Cardinality(pool') = Cardinality(pool)
    BY <1>2, <2>3, <2>5, <2>6
  <2> QED
    BY <1>1, <2>5, <2>6, <2>7, <2>8, <2>9 DEF Known
<1> QED
  BY <1>3, <1>4

\* A block moves a transaction from the pool and counts it.
LEMMA MineCount ==
    ASSUME Node, IsFiniteSet(pool), Mine
    PROVE  /\ IsFiniteSet(pool') /\ Known' = Known
           /\ \A n \in Nat : GivenAfter(n) <=> Given(n)
<1>1. /\ Slot(mined) # {} /\ mined' = mined + 1 /\ pool' = pool \ Slot(mined)
      /\ mined \in Nat
  BY DEF Mine, Node
<1>2. PICK y \in pool : y.nonce = mined
  BY <1>1 DEF Slot
<1>3. Slot(mined) = {y}
  BY <1>2 DEF Slot, Node
<1>4. pool' = pool \ {y}
  BY <1>1, <1>3
<1>5. IsFiniteSet(pool') /\ Cardinality(pool') = Cardinality(pool) - 1
  BY <1>2, <1>4, FS_RemoveElement
<1>6. Cardinality(pool) \in Nat
  BY FS_CardinalityType
<1>7. \A n \in Nat : GivenAfter(n) <=> Given(n)
  BY <1>1, <1>2, <1>4 DEF Given, GivenAfter, Node, Tx
<1> QED
  BY <1>1, <1>5, <1>6, <1>7 DEF Known

LEMMA Numbers ==
    ASSUME LagInv
    PROVE  /\ Known \in Nat /\ nonce \in Nat /\ refused \in Nat /\ faults \in Nat
           /\ away \in Nat /\ One \in {0, 1} /\ Node /\ IsFiniteSet(pool)
<1>1. Node /\ Counts /\ away \in Nat
  BY Parts DEF LagInv, BidInv, IInv, BidTypes
<1>2. Cardinality(pool) \in Nat
  BY FS_CardinalityType DEF LagInv
<1> QED
  BY <1>1, <1>2 DEF Node, Counts, Known, One, LagInv

\* The counts of a step that may hand the node a transaction with the next
\* nonce, or with the one behind it where the node has the next.
LEMMA ServesCounts ==
    ASSUME LagInv, Solid, NEW x \in Tx, Serves(x), nonce' \in Nat, nonce' >= nonce,
           x.nonce = nonce \/ (x.nonce = nonce + 1 /\ Given(nonce))
    PROVE  /\ IsFiniteSet(pool') /\ Known' \in Nat /\ Solid'
           /\ Known' = Known \/ Known' = Known + 1
           /\ Known' = Known \/ Accept(x)
           /\ Known' # Known /\ x.nonce = nonce => ~Given(nonce)
           /\ Accept(x) /\ x.nonce = nonce + 1 => Known' = Known + One
           /\ Given(nonce) /\ nonce' = nonce /\ x.nonce = nonce => One' = One
           /\ Accept(x) /\ ~Given(nonce) /\ nonce' = nonce => One' = 1
           /\ UNCHANGED <<nonce, node>> => One' = One
<1>1. /\ Known \in Nat /\ nonce \in Nat /\ Node /\ IsFiniteSet(pool)
      /\ nonce + 1 \in Nat /\ nonce + 1 # nonce
  BY Numbers
<1>2. CASE UNCHANGED node
  <2>1. Known' = Known /\ pool' = pool /\ \A n \in Nat : GivenAfter(n) <=> Given(n)
    BY <1>2 DEF node, Known, Given, GivenAfter
  <2>2. x \in pool \/ x \notin pool'
    BY <2>1
  <2>3. ~Accept(x)
    BY <2>1 DEF Accept
  <2>4. Solid'
    BY <1>1, <2>1 DEF Solid, Given, GivenAfter
  <2>5. nonce' = nonce => One' = One
    BY <1>1, <2>1 DEF One, Given, GivenAfter
  <2> QED
    BY <1>1, <2>1, <2>3, <2>4, <2>5
<1>3. CASE Accept(x)
  <2>1. /\ IsFiniteSet(pool')
        /\ Known' = IF Given(x.nonce) THEN Known ELSE Known + 1
        /\ \A n \in Nat : GivenAfter(n) <=> Given(n) \/ n = x.nonce
    BY <1>1, <1>3, AcceptCount
  <2>2. Solid'
    <3> SUFFICES ASSUME NEW n \in Nat, n >= nonce', GivenAfter(n + 1) PROVE GivenAfter(n)
      BY DEF Solid, Given, GivenAfter
    <3>1. n + 1 \in Nat /\ n >= nonce
      BY <1>1
    <3>2. CASE Given(n + 1)
      BY <2>1, <3>1, <3>2 DEF Solid
    <3>3. CASE n + 1 = x.nonce
      BY <1>1, <2>1, <3>1, <3>3
    <3> QED
      BY <2>1, <3>1, <3>2, <3>3
  <2>3. nonce' = nonce => One' = IF GivenAfter(nonce) /\ ~GivenAfter(nonce + 1) THEN 1 ELSE 0
    BY DEF One, Given, GivenAfter
  <2>4. Given(nonce + 1) => Given(nonce)
    BY <1>1 DEF Solid
  <2>5. CASE x.nonce = nonce
    <3>1. GivenAfter(nonce) /\ (GivenAfter(nonce + 1) <=> Given(nonce + 1))
      BY <1>1, <2>1, <2>5
    <3>2. nonce' = nonce => One' = IF ~Given(nonce + 1) THEN 1 ELSE 0
      BY <2>3, <3>1
    <3>3. Known' = IF Given(nonce) THEN Known ELSE Known + 1
      BY <2>1, <2>5
    <3>4. ~UNCHANGED <<nonce, node>>
      BY <1>3 DEF Accept, node
    <3>5. nonce' = nonce => One' = IF Given(nonce) THEN One ELSE 1
      BY <2>4, <3>2 DEF One
    <3> HIDE DEF Known, One
    <3> QED
      BY <1>1, <1>3, <2>1, <2>2, <2>5, <3>3, <3>4, <3>5
  <2>6. CASE x.nonce = nonce + 1 /\ Given(nonce)
    <3>1. Known' = Known + One
      BY <1>1, <2>1, <2>6 DEF One
    <3>2. Known' = Known \/ Known' = Known + 1
      BY <2>1
    <3>3. ~UNCHANGED <<nonce, node>>
      BY <1>3 DEF Accept, node
    <3> QED
      BY <1>1, <1>3, <2>1, <2>2, <2>6, <3>1, <3>2, <3>3
  <2> QED
    BY <2>5, <2>6
<1> QED
  BY <1>2, <1>3 DEF Serves

\* The counts of a step that leaves the node alone.
LEMMA SameCounts ==
    ASSUME LagInv, Solid, UNCHANGED node, nonce' \in Nat, nonce' >= nonce
    PROVE  Known' = Known /\ Solid' /\ (nonce' = nonce => One' = One)
<1>1. nonce \in Nat
  BY Numbers
<1>2. Known' = Known /\ \A n \in Nat : GivenAfter(n) <=> Given(n)
  BY DEF node, Known, Given, GivenAfter
<1>3. Solid'
  BY <1>1, <1>2 DEF Solid, Given, GivenAfter
<1>4. nonce' = nonce => One' = One
  BY <1>1, <1>2 DEF One, Given, GivenAfter
<1> QED
  BY <1>2, <1>3, <1>4

\* The pool stays finite, whatever is dropped.
LEMMA PoolStaysFinite == LagInv /\ [BidNext]_allVars => IsFiniteSet(pool')
<1> SUFFICES ASSUME LagInv, [BidNext]_allVars PROVE IsFiniteSet(pool')
  OBVIOUS
<1>1. IsFiniteSet(pool)
  BY DEF LagInv
<1>2. ASSUME pool' \subseteq pool PROVE IsFiniteSet(pool')
  BY <1>1, <1>2, FS_Subset
<1>3. ASSUME NEW x, Accept(x) PROVE IsFiniteSet(pool')
  <2>1. IsFiniteSet(pool \ Slot(x.nonce))
    BY <1>1, FS_Subset
  <2> QED
    BY <1>3, <2>1, FS_AddElement DEF Accept
<1>4. ASSUME NEW t \in Tasks, Task(t) PROVE IsFiniteSet(pool')
  <2>1. pool' = pool \/ Accept(Current(t))
    BY <1>4 DEF Task, Lock, LoadNonce, GasPriceFails, SendAccepted, SendRefused, SendFailed, node
  <2> QED
    BY <1>2, <1>3, <2>1
<1>5. ASSUME NEW b \in Bidders, Bidder(b) PROVE IsFiniteSet(pool')
  <2>1. \/ pool' = pool
        \/ Accept(Approve(b)) \/ Accept(TargetTx(b)) \/ Accept(Swap(b))
    <3>1. CASE BidLock(b) \/ BidLoad(b) \/ BidGivesUp(b) \/ SeeBlock(b) \/ Conclude(b)
      BY <3>1 DEF BidLock, BidLoad, BidGivesUp, SeeBlock, Conclude, node
    <3>2. CASE PreSend(b)
      BY <3>2 DEF PreSend, CallFails, node
    <3>3. CASE Submit(b)
      BY <3>3 DEF Submit, Answer, CallFails, node
    <3>4. CASE Post(b)
      BY <3>4 DEF Post, CallFails, node
    <3> QED
      BY <1>5, <3>1, <3>2, <3>3, <3>4 DEF Bidder
  <2> QED
    BY <1>2, <1>3, <2>1
<1> QED
  BY <1>2, <1>4, <1>5 DEF BidNext, Senders, Mine, Drop, NewBlock, Exhausted, allVars, vars, node

\* The transaction that a task is about to send.
LEMMA TaskSends ==
    ASSUME LagInv, NEW t \in Tasks, pc[t] = "send"
    PROVE  /\ mutex = t /\ job[t] \in Job /\ job[t].sent \in {0, 1}
           /\ Current(t) \in Tx
           /\ Current(t).nonce = IF job[t].op = "pair" /\ job[t].sent = 1
                                   THEN nonce + 1 ELSE nonce
           /\ job[t].sent = 1 => job[t].op \in {"cancel", "pair"}
           /\ job[t].sent = 1 /\ drops = 0 => Given(nonce)
           /\ job[t].op = "cancel" =>
                 Current(t) = Make(job[t], nonce, IF job[t].sent = 1 THEN "cancel" ELSE "transfer")
           /\ role = "signed" => job[t].op # "approve"
<1>1. mutex = t /\ job[t] \in Job
  BY DEF LagInv, BidInv, IInv, TypeOK
<1>2. Knows(t)
  BY DEF LagInv, BidInv, IInv, Holder
<1>3. job[t].n = nonce /\ job[t].sent \in {0, 1}
  BY <1>1, <1>2 DEF Knows, Job
<1>4. /\ Current(t) \in Tx
      /\ Current(t).nonce = IF job[t].op = "pair" /\ job[t].sent = 1
                              THEN nonce + 1 ELSE nonce
  BY <1>1, <1>2, <1>3, SentTx DEF Knows
<1>5. job[t].op = "cancel" =>
         Current(t) = Make(job[t], nonce, IF job[t].sent = 1 THEN "cancel" ELSE "transfer")
  BY <1>3 DEF Current, Txs, WithCancel
<1>6. role = "signed" => job[t].op # "approve"
  BY DEF LagInv, Roles
<1> QED
  BY <1>1, <1>2, <1>3, <1>4, <1>5, <1>6 DEF Knows

\* The node does not know the second transaction of an operation before it is
\* sent, unless it has taken one for the nonce behind.
LEMMA SecondKnown ==
    ASSUME LagInv, drops = 0, NEW t \in Tasks, pc[t] = "send", job[t].sent = 1,
           Current(t) \in pool
    PROVE  One = 0
<1>1. /\ Node /\ nonce \in Nat /\ job[t].op \in {"cancel", "pair"} /\ job[t] \in Job
  BY Numbers, TaskSends
<1>2. CASE job[t].op = "pair"
  <2>1. Current(t).nonce = nonce + 1
    BY <1>2, TaskSends
  <2>2. Given(nonce + 1)
    BY <2>1 DEF Given
  <2> QED
    BY <2>2 DEF One
<1>3. CASE job[t].op = "cancel"
  <2>1. Current(t) = Make(job[t], nonce, "cancel")
    BY <1>3, TaskSends
  <2>2. nonce < mined \/ Make(job[t], nonce, "transfer") \in pool
    BY <1>3 DEF LagInv, Cancels
  <2>3. Make(job[t], nonce, "cancel").nonce = nonce
    BY DEF Make
  <2>4. ~(nonce < mined)
    BY <1>1, <2>1, <2>3 DEF Node
  <2>5. Make(job[t], nonce, "cancel") = Make(job[t], nonce, "transfer")
    <3>1. Make(job[t], nonce, "transfer").nonce = nonce
      BY DEF Make
    <3> QED
      BY <1>1, <2>1, <2>2, <2>3, <2>4, <3>1 DEF Node
  <2>6. "cancel" = "transfer"
    BY <2>5 DEF Make
  <2> QED
    BY <2>6
<1> QED
  BY <1>1, <1>2, <1>3

\* What a step of a task does to the count.
LEMMA TaskLag ==
    ASSUME LagInv, drops = 0, NEW t \in Tasks, Task(t), UNCHANGED bidVars
    PROVE  /\ Solid'
           /\ role = "signed" /\ mutex' = NoTask => WithinAfter(0)
           /\ role = "signed" /\ mutex' = t      => WithinAfter(TaskOpen(t)')
<1>1. /\ Known \in Nat /\ nonce \in Nat /\ refused \in Nat /\ faults \in Nat /\ away \in Nat
      /\ One \in {0, 1} /\ Node /\ Solid /\ away' = away /\ nonce >= nonce
  BY Numbers DEF LagInv, bidVars
<1>2. /\ role = "signed" /\ mutex = NoTask => Within(0)
      /\ role = "signed" /\ mutex = t      => Within(TaskOpen(t))
  BY DEF LagInv, Lagged
<1>3. /\ job \in [Tasks -> Job \cup {NoJob}] /\ \A u \in Tasks : pc[u] # "idle" <=> mutex = u
      /\ t # NoTask /\ pc[t] = "load" => job[t].sent = 0
  BY DEF LagInv, BidInv, IInv, TypeOK, Holder, Knows
<1>4. ASSUME UNCHANGED node, nonce' \in Nat, nonce' >= nonce
      PROVE  Known' = Known /\ Solid' /\ (nonce' = nonce => One' = One)
  BY <1>1, <1>4, SameCounts
<1> HIDE DEF Known, One, Solid
<1>5. CASE Lock(t)
  <2>1. /\ mutex = NoTask /\ mutex' = t
        /\ UNCHANGED <<nonce, refused, faults>> /\ UNCHANGED node
    BY <1>5 DEF Lock
  <2>2. job'[t].sent = 0
    BY <1>3, <1>5 DEF Lock
  <2>3. TaskOpen(t)' = 0
    BY <2>2 DEF TaskOpen
  <2>4. Known' = Known /\ Solid'
    BY <1>1, <1>4, <2>1
  <2> QED
    BY <1>1, <1>2, <1>3, <2>1, <2>3, <2>4 DEF Within, WithinAfter
<1>6. CASE LoadNonce(t)
  <2>1. /\ pc[t] = "load" /\ UNCHANGED <<mutex, refused>> /\ UNCHANGED node
        /\ nonce' = nonce \/ (nonce = 0 /\ nonce' = mined)
        /\ faults' \in {faults, faults + 1}
    BY <1>6 DEF LoadNonce, Fault
  <2>2. mutex = t /\ job[t].sent = 0 /\ job[t] \in Job
    BY <1>3, <2>1 DEF LagInv, BidInv, IInv, TypeOK
  <2>3. job'[t].sent = 0
    BY <1>3, <1>6, <2>2 DEF LoadNonce, Job
  <2>4. TaskOpen(t) = 0 /\ TaskOpen(t)' = 0
    BY <2>2, <2>3 DEF TaskOpen
  <2>5. nonce' \in Nat /\ nonce' >= nonce
    BY <1>1, <2>1 DEF Node
  <2>6. Known' = Known /\ Solid'
    BY <1>4, <2>1, <2>5
  <2>7. role = "signed" => Within(0)
    BY <1>2, <2>2, <2>4
  <2>8. faults' \in Nat /\ faults' >= faults /\ refused' = refused
    BY <1>1, <2>1
  <2>9. role = "signed" => WithinAfter(0)
    <3>1. \A r, k, n, f, a, m, g \in Nat :
             r + k - n <= 2 * f + a + 0 /\ m >= n /\ g >= f => r + k - m <= 2 * g + a + 0
      OBVIOUS
    <3> QED
      BY <1>1, <2>5, <2>6, <2>7, <2>8, <3>1 DEF Within, WithinAfter
  <2> QED
    BY <1>3, <2>1, <2>2, <2>4, <2>6, <2>9
<1>7. CASE GasPriceFails(t)
  <2>1. /\ pc[t] = "send" /\ job[t].sent = 0 /\ mutex' = NoTask
        /\ UNCHANGED <<nonce, refused>> /\ UNCHANGED node /\ faults' = faults + 1
    BY <1>7 DEF GasPriceFails, Fault, Return
  <2>2. mutex = t /\ TaskOpen(t) = 0
    BY <1>3, <2>1 DEF TaskOpen
  <2>3. Known' = Known /\ Solid'
    BY <1>1, <1>4, <2>1
  <2> QED
    BY <1>1, <1>2, <1>3, <2>1, <2>2, <2>3 DEF Within, WithinAfter
<1> DEFINE x == Current(t)
<1>8. ASSUME pc[t] = "send"
      PROVE  /\ mutex = t /\ x \in Tx /\ job[t].sent \in {0, 1} /\ job[t] \in Job
             /\ x.nonce = nonce \/ (x.nonce = nonce + 1 /\ Given(nonce))
             /\ job[t].sent = 0 => x.nonce = nonce
             /\ job[t].op = "pair" /\ job[t].sent = 1 => x.nonce = nonce + 1
             /\ job[t].op # "pair" => x.nonce = nonce
             /\ job[t].sent = 1 => job[t].op \in {"cancel", "pair"} /\ Given(nonce)
             /\ TaskOpen(t) = IF job[t].sent = 1 THEN One ELSE 0
             /\ role = "signed" => job[t].op # "approve"
             /\ job[t].op \in {"single", "cancel", "pair", "approve"}
  BY <1>8, TaskSends DEF TaskOpen, Job, Ops
<1> HIDE DEF x
<1>9. CASE SendAccepted(t)
  <2>1. /\ pc[t] = "send" /\ Accept(x) /\ UNCHANGED <<refused, faults>>
    BY <1>9 DEF SendAccepted, x
  <2>2. Serves(x) /\ nonce + 1 # nonce
    BY <1>1, <2>1 DEF Serves
  <2>3. CASE Last(t)
    <3>1. nonce' = nonce + Step(job[t].op) /\ mutex' = NoTask
      BY <1>9, <2>3 DEF SendAccepted, Return
    <3>2. Step(job[t].op) \in {0, 1, 2} /\ (job[t].op = "pair" => Step(job[t].op) = 2)
          /\ (job[t].op \in {"single", "cancel"} => Step(job[t].op) = 1)
      BY DEF Step
    <3>3. nonce' \in Nat /\ nonce' >= nonce
      BY <1>1, <3>1, <3>2
    <3>4. /\ Known' \in Nat /\ Solid'
          /\ Known' = Known \/ Known' = Known + 1
          /\ Known' # Known /\ x.nonce = nonce => ~Given(nonce)
          /\ x.nonce = nonce + 1 => Known' = Known + One
      BY <1>1, <1>8, <2>1, <2>2, <3>3, ServesCounts
    <3>5. CASE job[t].op = "single"
      <4>1. TaskOpen(t) = 0
        BY <1>8, <2>1, <3>5
      <4> QED
        BY <1>1, <1>2, <1>3, <1>8, <2>1, <3>1, <3>2, <3>4, <3>5, <4>1 DEF Within, WithinAfter
    <3>6. CASE job[t].op = "cancel"
      <4>1. job[t].sent = 1
        BY <1>8, <2>1, <2>3, <3>6 DEF Last
      <4>2. Known' = Known /\ TaskOpen(t) = One
        BY <1>8, <2>1, <3>4, <3>6, <4>1
      <4> QED
        BY <1>1, <1>2, <1>3, <1>8, <2>1, <3>1, <3>2, <3>4, <3>6, <4>2 DEF Within, WithinAfter
    <3>7. CASE job[t].op = "pair"
      <4>1. job[t].sent = 1
        BY <1>8, <2>1, <2>3, <3>7 DEF Last
      <4>2. Known' = Known + One /\ TaskOpen(t) = One
        BY <1>8, <2>1, <3>4, <3>7, <4>1
      <4> QED
        BY <1>1, <1>2, <1>3, <1>8, <2>1, <3>1, <3>2, <3>4, <3>7, <4>2 DEF Within, WithinAfter
    <3>8. CASE job[t].op = "approve"
      BY <1>3, <1>8, <2>1, <3>1, <3>4, <3>8
    <3> QED
      BY <1>8, <2>1, <3>5, <3>6, <3>7, <3>8
  <2>4. CASE ~Last(t)
    <3>1. /\ job' = [job EXCEPT ![t].sent = 1]
          /\ UNCHANGED <<nonce, mutex>>
      BY <1>9, <2>4 DEF SendAccepted
    <3>2. job[t].sent = 0 /\ x.nonce = nonce
      BY <1>8, <2>1, <2>4 DEF Last
    <3>3. job'[t].sent = 1
      BY <1>3, <1>8, <2>1, <3>1 DEF Job
    <3>4. /\ Known' \in Nat /\ Solid'
          /\ Known' = Known \/ Known' = Known + 1
          /\ Known' # Known => ~Given(nonce)
          /\ ~Given(nonce) => One' = 1
          /\ Given(nonce) => One' = One
      BY <1>1, <1>8, <2>1, <2>2, <3>1, <3>2, ServesCounts
    <3>5. TaskOpen(t) = 0 /\ TaskOpen(t)' = One'
      BY <3>2, <3>3 DEF TaskOpen
    <3> QED
      BY <1>1, <1>2, <1>3, <1>8, <2>1, <3>1, <3>4, <3>5 DEF Within, WithinAfter
  <2> QED
    BY <2>3, <2>4
<1>10. CASE SendRefused(t)
  <2>1. /\ pc[t] = "send" /\ mutex' = NoTask /\ UNCHANGED node /\ faults' = faults
        /\ nonce' = nonce + RefusedStep(job[t].op)
        /\ refused' = IF role = "signed" /\ job[t].sent = 0 THEN refused + 1 ELSE refused
    BY <1>10 DEF SendRefused, Return
  <2>2. /\ RefusedStep(job[t].op) \in {0, 1}
        /\ role = "signed" => RefusedStep(job[t].op) = 1
    BY <1>8, <2>1 DEF RefusedStep
  <2>3. nonce' \in Nat /\ nonce' >= nonce
    BY <1>1, <2>1, <2>2
  <2>4. Known' = Known /\ Solid'
    BY <1>4, <2>1, <2>3
  <2>5. TaskOpen(t) \in {0, 1} /\ (job[t].sent = 0 => TaskOpen(t) = 0) /\ mutex = t
        /\ job[t].sent \in {0, 1}
    BY <1>1, <1>8, <2>1
  <2> QED
    BY <1>1, <1>2, <1>3, <2>1, <2>2, <2>3, <2>4, <2>5 DEF Within, WithinAfter
<1>11. CASE SendFailed(t)
  <2>1. /\ pc[t] = "send" /\ mutex' = NoTask /\ UNCHANGED <<nonce, refused>>
        /\ \/ x \in pool /\ UNCHANGED <<node, faults>>
           \/ faults' = faults + 1 /\ Serves(x)
    BY <1>11 DEF SendFailed, Return, Fault, Serves, x
  <2>2. mutex = t /\ TaskOpen(t) \in {0, 1}
    BY <1>1, <1>8, <2>1
  <2>3. CASE x \in pool /\ UNCHANGED <<node, faults>>
    <3>1. TaskOpen(t) = 0
      BY <1>8, <2>1, <2>3, SecondKnown DEF x
    <3>2. Known' = Known /\ Solid'
      BY <1>1, <1>4, <2>1, <2>3
    <3> QED
      BY <1>1, <1>2, <1>3, <2>1, <2>2, <2>3, <3>1, <3>2 DEF Within, WithinAfter
  <2>4. CASE faults' = faults + 1 /\ Serves(x)
    <3>1. Solid' /\ (Known' = Known \/ Known' = Known + 1)
      BY <1>1, <1>8, <2>1, <2>4, ServesCounts
    <3> QED
      BY <1>1, <1>2, <1>3, <2>1, <2>2, <2>4, <3>1 DEF Within, WithinAfter
  <2> QED
    BY <2>1, <2>3, <2>4
<1> QED
  BY <1>5, <1>6, <1>7, <1>9, <1>10, <1>11 DEF Task

----------------------------------------------------------------------------
(* The same for a bidder. *)

LEMMA BidNumbers ==
    ASSUME LagInv, drops = 0, NEW b \in Bidders, bid[b] # NoBid
    PROVE  /\ mutex = b /\ b # NoTask /\ Solid /\ BidKnows(b)
           /\ role = "signed" => Within(BidOpen(b))
           /\ bid[b] \in Bid /\ bid \in [Bidders -> Bid \cup {NoBid}]
           /\ bid[b].place \in {"load", "pre", "block"} => bid[b].answers = <<>>
           /\ bid[b].place \in {"load", "pre"} => BidOpen(b) = 0
           /\ bid[b].place = "block" => BidOpen(b) = IF bid[b].type = "GAS" THEN One ELSE 0
           /\ bid[b].place = "post" =>
                 BidOpen(b) = IF bid[b].type \in NewKey THEN 0
                              ELSE IF bid[b].type = "GAS" THEN 2 ELSE One
           /\ BidOpen(b) \in {0, 1, 2}
           /\ bid[b].type = "GAS" => bid[b].type \notin NewKey
<1>1. BidInv /\ Solid /\ Lagged
  BY DEF LagInv
<1>2. bid[b] \in Bid /\ mutex = b /\ b # NoTask /\ bid \in [Bidders -> Bid \cup {NoBid}]
  BY <1>1, BidFields DEF BidInv, BidTypes
<1>3. BidKnows(b) /\ (role = "signed" => Within(BidOpen(b)))
  BY <1>1, <1>2 DEF BidInv, BidHolder, Lagged
<1>4. bid[b].place \in {"load", "pre", "block"} =>
         bid[b].answers = <<>> /\ ~Says(b, "ok")
  <2>1. Len(<<>>) = 0 /\ 1..0 = {}
    BY EmptySeq
  <2> QED
    BY <1>3, <2>1 DEF BidKnows, Says
<1>5. bid[b].place = "post" => Says(b, "ok")
  BY <1>3 DEF BidKnows
<1>6. bid[b].type = "GAS" => bid[b].type \notin NewKey
  BY DEF NewKey
<1>7. One \in {0, 1}
  BY Numbers
<1> HIDE DEF One
<1>8. BidOpen(b) \in {0, 1, 2}
  BY <1>7 DEF BidOpen
<1>9. bid[b].place \in {"load", "pre"} => BidOpen(b) = 0
  BY <1>4 DEF BidOpen, Beyond
<1>10. bid[b].place = "block" => BidOpen(b) = IF bid[b].type = "GAS" THEN One ELSE 0
  BY <1>4, <1>6 DEF BidOpen, Beyond
<1>11. bid[b].place = "post" =>
          BidOpen(b) = IF bid[b].type \in NewKey THEN 0
                       ELSE IF bid[b].type = "GAS" THEN 2 ELSE One
  BY <1>5 DEF BidOpen
<1> QED
  BY <1>1, <1>2, <1>3, <1>4, <1>6, <1>8, <1>9, <1>10, <1>11

\* From the mutex to the block number.
LEMMA EarlyBidLag ==
    ASSUME LagInv, drops = 0, NEW b \in Bidders,
           BidLock(b) \/ BidLoad(b) \/ BidGivesUp(b) \/ PreSend(b) \/ SeeBlock(b)
    PROVE  /\ Solid'
           /\ role = "signed" /\ mutex' = NoTask => WithinAfter(0)
           /\ role = "signed" /\ mutex' = b      => WithinAfter(BidOpen(b)')
<1>1. /\ Known \in Nat /\ nonce \in Nat /\ refused \in Nat /\ faults \in Nat /\ away \in Nat
      /\ One \in {0, 1} /\ Node /\ Solid /\ nonce >= nonce /\ b # NoTask
      /\ bid \in [Bidders -> Bid \cup {NoBid}]
  BY Numbers DEF LagInv, BidInv, BidTypes
<1>2. role = "signed" /\ mutex = NoTask => Within(0)
  BY DEF LagInv, Lagged
<1>3. ASSUME NEW j, bid'[b] = j, j.answers = <<>>
      PROVE  BidOpen(b)' = IF j.type = "GAS" /\ j.place \in Beyond THEN One' ELSE 0
  <2>1. Len(<<>>) = 0 /\ 1..0 = {}
    BY EmptySeq
  <2>2. ~Says(b, "ok")'
    BY <1>3, <2>1 DEF Says
  <2> QED
    BY <1>3, <2>2 DEF BidOpen, NewKey
<1> HIDE DEF Known, One, Solid
<1>4. CASE BidLock(b)
  <2>1. /\ mutex = NoTask /\ mutex' = b /\ UNCHANGED node
        /\ UNCHANGED <<nonce, refused, faults, away>>
    BY <1>4 DEF BidLock
  <2>2. PICK type \in Targets, v \in Variants, k \in {1, 2} :
           bid' = [bid EXCEPT ![b] = [type |-> type, variant |-> v, n |-> 0, place |-> "load",
                                      submissions |-> k, block |-> 0, answers |-> <<>>]]
    BY <1>4 DEF BidLock
  <2>3. bid'[b].place = "load" /\ bid'[b].answers = <<>>
    BY <1>1, <2>2
  <2>4. BidOpen(b)' = 0
    BY <1>3, <2>3 DEF Beyond
  <2>5. Known' = Known /\ Solid'
    BY <1>1, <2>1, SameCounts
  <2> QED
    BY <1>1, <1>2, <2>1, <2>4, <2>5 DEF Within, WithinAfter
<1>5. CASE BidLoad(b)
  <2>1. /\ bid[b] # NoBid /\ bid[b].place = "load" /\ mutex' = mutex /\ UNCHANGED node
        /\ UNCHANGED <<refused, away>>
        /\ nonce' = nonce \/ (nonce = 0 /\ nonce' = mined)
        /\ faults' \in {faults, faults + 1}
        /\ bid' = [bid EXCEPT ![b] = [bid[b] EXCEPT !.n = nonce', !.place = "pre"]]
    BY <1>5 DEF BidLoad, Bidding, Fault
  <2>2. /\ mutex = b /\ bid[b] \in Bid /\ bid[b].answers = <<>> /\ BidOpen(b) = 0
        /\ role = "signed" => Within(BidOpen(b))
    BY <2>1, BidNumbers
  <2>3. bid'[b].place = "pre" /\ bid'[b].answers = <<>>
    BY <1>1, <2>1, <2>2 DEF Bid
  <2>4. BidOpen(b)' = 0
    BY <1>3, <2>3 DEF Beyond
  <2>5. nonce' \in Nat /\ nonce' >= nonce
    BY <1>1, <2>1 DEF Node
  <2>6. Known' = Known /\ Solid'
    BY <1>1, <2>1, <2>5, SameCounts
  <2>7. role = "signed" => Within(0)
    BY <2>2
  <2>8. faults' \in Nat /\ faults' >= faults /\ refused' = refused /\ away' = away
    BY <1>1, <2>1
  <2>9. role = "signed" => WithinAfter(0)
    <3>1. \A r, k, n, f, a, m, g \in Nat :
             r + k - n <= 2 * f + a + 0 /\ m >= n /\ g >= f => r + k - m <= 2 * g + a + 0
      OBVIOUS
    <3> QED
      BY <1>1, <2>5, <2>6, <2>7, <2>8, <3>1 DEF Within, WithinAfter
  <2> QED
    BY <1>1, <2>1, <2>2, <2>4, <2>6, <2>9
<1>6. CASE BidGivesUp(b)
  <2>1. /\ bid[b] # NoBid /\ bid[b].place \in {"pre", "block"} /\ mutex' = NoTask
        /\ UNCHANGED node /\ UNCHANGED <<nonce, refused, away>> /\ faults' = faults + 1
    BY <1>6 DEF BidGivesUp, Bidding, Fault, BidReturn
  <2>2. BidOpen(b) \in {0, 1, 2} /\ (role = "signed" => Within(BidOpen(b)))
    BY <2>1, BidNumbers
  <2>3. Known' = Known /\ Solid'
    BY <1>1, <2>1, SameCounts
  <2> QED
    BY <1>1, <2>1, <2>2, <2>3 DEF Within, WithinAfter
<1>7. CASE PreSend(b)
  <2> DEFINE x == Approve(b)
  <2>1. /\ bid[b] # NoBid /\ bid[b].place = "pre" /\ away' = away
    BY <1>7 DEF PreSend, Bidding
  <2>2. /\ mutex = b /\ bid[b] \in Bid /\ bid[b].answers = <<>> /\ BidOpen(b) = 0
        /\ role = "signed" => Within(0)
        /\ x \in Tx /\ x.nonce = nonce
    BY <2>1, BidNumbers, BidTxs DEF LagInv
  <2> HIDE DEF x
  <2>3. CASE /\ IF bid[b].type = "GAS" THEN Accept(x) ELSE UNCHANGED node
             /\ Proceed(b, "block")
             /\ UNCHANGED <<nonce, mutex, refused, faults>>
    <3>1. bid'[b].place = "block" /\ bid'[b].answers = <<>> /\ bid'[b].type = bid[b].type
      BY <1>1, <2>2, <2>3 DEF Proceed, Bid
    <3>2. BidOpen(b)' = IF bid[b].type = "GAS" THEN One' ELSE 0
      BY <1>3, <3>1 DEF Beyond
    <3>3. CASE bid[b].type = "GAS"
      <4>1. /\ Known' \in Nat /\ Solid'
            /\ Known' = Known \/ Known' = Known + 1
            /\ Known' # Known => ~Given(nonce)
            /\ ~Given(nonce) => One' = 1
            /\ Given(nonce) => One' = One
        BY <1>1, <2>2, <2>3, <3>3, ServesCounts DEF Serves
      <4>2. \/ Known' = Known /\ One' \in {0, 1}
            \/ Known' = Known + 1 /\ One' = 1
        BY <1>1, <4>1
      <4>3. BidOpen(b)' = One' /\ mutex' = b
        BY <1>1, <2>2, <2>3, <3>2, <3>3
      <4>4. role = "signed" => refused + Known - nonce <= 2 * faults + away
        BY <1>1, <2>2 DEF Within
      <4>5. UNCHANGED <<refused, nonce, faults, away>>
        BY <2>1, <2>3
      <4>6. role = "signed" => WithinAfter(One')
        <5>1. CASE Known' = Known /\ One' = 0
          BY <1>1, <4>4, <4>5, <5>1 DEF WithinAfter
        <5>2. CASE Known' = Known /\ One' = 1
          BY <1>1, <4>4, <4>5, <5>2 DEF WithinAfter
        <5>3. CASE Known' = Known + 1 /\ One' = 1
          BY <1>1, <4>4, <4>5, <5>3 DEF WithinAfter
        <5> QED
          BY <4>2, <5>1, <5>2, <5>3
      <4> QED
        BY <1>1, <4>1, <4>3, <4>6
    <3>4. CASE bid[b].type # "GAS"
      <4>1. Known' = Known /\ Solid'
        BY <1>1, <2>3, <3>4, SameCounts
      <4> QED
        BY <1>1, <2>1, <2>2, <2>3, <3>2, <3>4, <4>1 DEF Within, WithinAfter
    <3> QED
      BY <3>3, <3>4
  <2>4. CASE /\ nonce' = nonce + 1 /\ refused' = refused + 1
             /\ BidReturn(b)
             /\ UNCHANGED <<node, faults>>
    <3>1. nonce' \in Nat /\ nonce' >= nonce
      BY <1>1, <2>4
    <3>2. Known' = Known /\ Solid'
      BY <1>1, <2>4, <3>1, SameCounts
    <3>3. mutex' = NoTask
      BY <2>4 DEF BidReturn
    <3> QED
      BY <1>1, <2>1, <2>2, <2>4, <3>2, <3>3 DEF Within, WithinAfter
  <2>5. CASE /\ \/ bid[b].type = "GAS" /\ CallFails(x)
                \/ bid[b].type = "rGAS" /\ Fault /\ UNCHANGED node
             /\ BidReturn(b)
             /\ UNCHANGED <<nonce, refused>>
    <3>1. /\ mutex' = NoTask
          /\ \/ UNCHANGED <<node, faults>>
             \/ faults' = faults + 1 /\ Serves(x)
      BY <2>5 DEF BidReturn, CallFails, Fault, Serves
    <3>2. CASE UNCHANGED <<node, faults>>
      <4>1. Known' = Known /\ Solid'
        BY <1>1, <2>5, <3>2, SameCounts
      <4> QED
        BY <1>1, <2>1, <2>2, <2>5, <3>1, <3>2, <4>1 DEF Within, WithinAfter
    <3>3. CASE faults' = faults + 1 /\ Serves(x)
      <4>1. Solid' /\ (Known' = Known \/ Known' = Known + 1)
        BY <1>1, <2>2, <2>5, <3>3, ServesCounts
      <4> QED
        BY <1>1, <2>1, <2>2, <2>5, <3>1, <3>3, <4>1 DEF Within, WithinAfter
    <3> QED
      BY <3>1, <3>2, <3>3
  <2> QED
    BY <1>7, <2>3, <2>4, <2>5 DEF PreSend, x
<1>8. CASE SeeBlock(b)
  <2>1. /\ bid[b] # NoBid /\ bid[b].place = "block" /\ UNCHANGED node
        /\ UNCHANGED <<nonce, refused, faults>>
    BY <1>8 DEF SeeBlock, Bidding
  <2>2. /\ mutex = b /\ bid[b] \in Bid /\ bid[b].answers = <<>>
        /\ BidOpen(b) = IF bid[b].type = "GAS" THEN One ELSE 0
        /\ role = "signed" => Within(BidOpen(b))
    BY <2>1, BidNumbers
  <2>3. Known' = Known /\ Solid' /\ One' = One
    BY <1>1, <2>1, SameCounts
  <2>4. CASE block # lastBlock
    <3>1. /\ mutex' = mutex /\ away' = away
          /\ bid' = [bid EXCEPT ![b] = [bid[b] EXCEPT !.block = block, !.place = "submit"]]
      BY <1>8, <2>4 DEF SeeBlock
    <3>2. bid'[b].place = "submit" /\ bid'[b].answers = <<>> /\ bid'[b].type = bid[b].type
      BY <1>1, <2>2, <3>1 DEF Bid
    <3>3. BidOpen(b)' = BidOpen(b)
      BY <1>3, <2>2, <2>3, <3>2 DEF Beyond
    <3> QED
      BY <1>1, <2>1, <2>2, <2>3, <3>1, <3>3 DEF Within, WithinAfter
  <2>5. CASE block = lastBlock
    <3>1. mutex' = NoTask /\ away' = IF bid[b].type = "GAS" THEN away + 1 ELSE away
      BY <1>8, <2>5 DEF SeeBlock, BidReturn
    <3> QED
      BY <1>1, <2>1, <2>2, <2>3, <3>1 DEF Within, WithinAfter
  <2> QED
    BY <2>4, <2>5
<1> QED
  BY <1>4, <1>5, <1>6, <1>7, <1>8

\* A submission: what the node takes is counted as open, unless the call failed.
LEMMA SubmitLag ==
    ASSUME LagInv, drops = 0, NEW b \in Bidders, Submit(b)
    PROVE  /\ Solid' /\ mutex' = b /\ b # NoTask
           /\ role = "signed" => WithinAfter(BidOpen(b)')
<1>1. /\ bid[b] # NoBid /\ bid[b].place = "submit"
      /\ UNCHANGED <<nonce, mutex, refused, drops, away>>
  BY DEF Submit, Bidding
<1>2. /\ Known \in Nat /\ nonce \in Nat /\ refused \in Nat /\ faults \in Nat /\ away \in Nat
      /\ One \in {0, 1} /\ nonce >= nonce
  BY Numbers
<1>3. /\ Solid /\ mutex = b /\ b # NoTask /\ BidKnows(b) /\ bid[b] \in Bid
      /\ bid \in [Bidders -> Bid \cup {NoBid}] /\ bid[b].answers \in Seq(Answers)
      /\ bid[b].type \in Own \cup NewKey /\ BidOpen(b) \in {0, 1, 2}
      /\ role = "signed" => Within(BidOpen(b))
  BY <1>1, BidNumbers, BidFields DEF LagInv
<1> DEFINE x == TargetTx(b)
           said == Says(b, "ok")
           gas == bid[b].type = "GAS"
<1>4. /\ x \in Tx /\ x.nonce = IF gas THEN nonce + 1 ELSE nonce
      /\ gas => Given(nonce)
      /\ bid[b].type \in Own /\ said => Given(x.nonce)
  <2>1. x \in Tx /\ x.nonce = Target(b)
    BY <1>1, BidTxs DEF LagInv
  <2> QED
    BY <1>1, <1>3, <2>1 DEF BidKnows, Beyond, Target, Own
<1>5. PICK answer \in Answers : /\ Answer(b, answer)
                                /\ bid' = [bid EXCEPT ![b].answers = Append(@, answer)]
  BY DEF Submit
<1> DEFINE new == Append(bid[b].answers, answer)
<1>6. /\ Len(new) = Len(bid[b].answers) + 1 /\ Len(bid[b].answers) \in Nat
      /\ new[Len(bid[b].answers) + 1] = answer
      /\ \A i \in 1..Len(bid[b].answers) : new[i] = bid[b].answers[i]
  BY <1>3, AppendProperties, LenProperties
<1>7. bid'[b].answers = new /\ bid'[b].type = bid[b].type
  BY <1>3, <1>5 DEF Bid
<1>8. new # <<>>
  BY <1>6, EmptySeq
<1> HIDE DEF new
<1>9. Says(b, "ok")' <=> said \/ answer = "ok"
  <2>1. \A i \in 1..Len(new) : i = Len(bid[b].answers) + 1 \/ i \in 1..Len(bid[b].answers)
    BY <1>6
  <2>2. \A i \in 1..Len(bid[b].answers) : i \in 1..Len(new)
    BY <1>6
  <2>3. Len(bid[b].answers) + 1 \in 1..Len(new)
    BY <1>6
  <2>4. Says(b, "ok")' <=> \E i \in 1..Len(new) : new[i] = "ok"
    BY <1>7 DEF Says
  <2> QED
    BY <1>6, <2>1, <2>2, <2>3, <2>4 DEF Says
<1> HIDE DEF Known, One, Solid, x, said, gas
<1>10. BidOpen(b) = IF bid[b].type \in NewKey THEN 0
                    ELSE IF said THEN IF gas THEN 2 ELSE One
                    ELSE IF gas /\ bid[b].answers = <<>> THEN One ELSE 0
  BY <1>1 DEF BidOpen, Beyond, said, gas
<1>11. BidOpen(b)' = IF bid[b].type \in NewKey THEN 0
                     ELSE IF said \/ answer = "ok" THEN IF gas THEN 2 ELSE One' ELSE 0
  BY <1>7, <1>8, <1>9 DEF BidOpen, gas
\* The step in numbers.
<1>12. Solid' /\ Known' \in Nat /\ faults' \in Nat /\ One' \in {0, 1}
       /\ Known' + BidOpen(b) + 2 * faults <= Known + BidOpen(b)' + 2 * faults'
  <2>1. One' \in {0, 1}
    BY DEF One
  <2>2. CASE bid[b].type \in NewKey
    <3>1. UNCHANGED node /\ faults' \in {faults, faults + 1}
      BY <1>5, <2>2 DEF Answer, Answers, Fault
    <3>2. Known' = Known /\ Solid'
      BY <1>1, <1>2, <1>3, <3>1, SameCounts
    <3>3. BidOpen(b) = 0 /\ BidOpen(b)' = 0
      BY <1>10, <1>11, <2>2
    <3>4. CASE faults' = faults
      BY <1>2, <2>1, <3>2, <3>3, <3>4
    <3>5. CASE faults' = faults + 1
      BY <1>2, <2>1, <3>2, <3>3, <3>5
    <3> QED
      BY <3>1, <3>4, <3>5
  <2>3. ASSUME bid[b].type \notin NewKey, UNCHANGED <<node, faults>>,
               answer = "ok" \/ ~gas \/ Given(nonce + 1)
        PROVE  /\ Solid' /\ Known' \in Nat /\ faults' \in Nat
               /\ Known' + BidOpen(b) + 2 * faults <= Known + BidOpen(b)' + 2 * faults'
    <3>1. Known' = Known /\ Solid' /\ One' = One
      BY <1>1, <1>2, <1>3, <2>3, SameCounts
    <3>2. Given(nonce + 1) => One = 0
      BY DEF One
    <3> QED
      BY <1>2, <1>10, <1>11, <2>1, <2>3, <3>1, <3>2
  <2>4. ASSUME bid[b].type \notin NewKey, Accept(x), answer = "ok", UNCHANGED faults
        PROVE  /\ Solid' /\ Known' \in Nat /\ faults' \in Nat
               /\ Known' + BidOpen(b) + 2 * faults <= Known + BidOpen(b)' + 2 * faults'
    <3>1. /\ Known' \in Nat /\ Solid'
          /\ Known' = Known \/ Known' = Known + 1
          /\ Known' # Known /\ ~gas => ~Given(nonce)
          /\ ~gas /\ ~Given(nonce) => One' = 1
          /\ ~gas /\ Given(nonce) => One' = One
          /\ gas => Known' = Known + One
      BY <1>1, <1>2, <1>3, <1>4, <2>4, ServesCounts DEF Serves
    <3>2. said => Given(IF gas THEN nonce + 1 ELSE nonce)
      BY <1>3, <1>4, <2>4
    <3>3. Given(nonce + 1) => One = 0
      BY DEF One
    <3>4. CASE gas
      BY <1>2, <1>10, <1>11, <2>1, <2>4, <3>1, <3>2, <3>3, <3>4
    <3>5. CASE ~gas
      <4>1. BidOpen(b) = (IF said THEN One ELSE 0) /\ BidOpen(b)' = One'
        BY <1>10, <1>11, <2>4, <3>5
      <4>2. said => Given(nonce)
        BY <3>2, <3>5
      <4>3. CASE Given(nonce)
        <5>1. Known' = Known /\ BidOpen(b) <= BidOpen(b)' /\ BidOpen(b) \in Nat /\ BidOpen(b)' \in Nat
          BY <1>2, <3>1, <3>5, <4>1, <4>3
        <5> QED
          BY <1>2, <2>4, <3>1, <5>1
      <4>4. CASE ~Given(nonce)
        <5>1. BidOpen(b) = 0 /\ BidOpen(b)' = 1
          BY <3>1, <3>5, <4>1, <4>2, <4>4
        <5>2. Known' = Known \/ Known' = Known + 1
          BY <3>1
        <5>3. CASE Known' = Known
          BY <1>2, <2>4, <3>1, <5>1, <5>3
        <5>4. CASE Known' = Known + 1
          BY <1>2, <2>4, <3>1, <5>1, <5>4
        <5> QED
          BY <5>2, <5>3, <5>4
      <4> QED
        BY <4>3, <4>4
    <3> QED
      BY <3>4, <3>5
  <2>5. ASSUME bid[b].type \notin NewKey, Serves(x), faults' = faults + 1
        PROVE  /\ Solid' /\ Known' \in Nat /\ faults' \in Nat
               /\ Known' + BidOpen(b) + 2 * faults <= Known + BidOpen(b)' + 2 * faults'
    <3>1. Known' \in Nat /\ Solid' /\ (Known' = Known \/ Known' = Known + 1)
      BY <1>1, <1>2, <1>3, <1>4, <2>5, ServesCounts
    <3>2. CASE gas
      BY <1>2, <1>10, <1>11, <2>1, <2>5, <3>1, <3>2
    <3>3. CASE ~gas
      <4>1. BidOpen(b) \in {0, 1} /\ BidOpen(b)' \in {0, 1}
        BY <1>2, <1>10, <1>11, <2>1, <2>5, <3>3
      <4> QED
        BY <1>2, <2>5, <3>1, <4>1
    <3> QED
      BY <3>2, <3>3
  <2>6. x \in pool \/ Stale(x) => Given(x.nonce)
    BY <1>4, StaleIsGiven DEF Given
  <2>7. gas /\ Given(x.nonce) => Given(nonce + 1)
    BY <1>4
  <2>8. CASE bid[b].type \notin NewKey
    <3>1. \/ answer = "ok" /\ (Accept(x) \/ UNCHANGED node) /\ UNCHANGED faults
          \/ Stale(x) /\ UNCHANGED <<node, faults>>
          \/ x \in pool /\ UNCHANGED <<node, faults>>
          \/ faults' = faults + 1 /\ Serves(x)
      BY <1>5, <2>8 DEF Answer, CallFails, Fault, Serves, x
    <3> QED
      BY <2>1, <2>3, <2>4, <2>5, <2>6, <2>7, <2>8, <3>1
  <2> QED
    BY <2>2, <2>8
<1>13. BidOpen(b)' \in Nat /\ BidOpen(b) \in Nat
  <2>1. BidOpen(b)' \in {0, 2, One'} /\ One' \in {0, 1}
    BY <1>11, <1>12
  <2>2. BidOpen(b) \in Nat
    BY <1>3
  <2>3. BidOpen(b)' \in {0, 1, 2}
    BY <2>1
  <2> QED
    BY <2>2, <2>3
<1>14. role = "signed" => WithinAfter(BidOpen(b)')
  <2>1. PICK k \in Nat, f \in Nat, o \in Nat : k = Known /\ f = faults /\ o = BidOpen(b)
    BY <1>2, <1>13
  <2>2. PICK l \in Nat, g \in Nat, p \in Nat : l = Known' /\ g = faults' /\ p = BidOpen(b)'
    BY <1>12, <1>13
  <2>3. l + o + 2 * f <= k + p + 2 * g
    BY <1>12, <2>1, <2>2
  <2>4. role = "signed" => refused + k - nonce <= 2 * f + away + o
    BY <1>3, <2>1 DEF Within
  <2>5. role = "signed" => refused + l - nonce <= 2 * g + away + p
    BY <1>2, <2>3, <2>4
  <2> QED
    BY <1>1, <2>2, <2>5 DEF WithinAfter
<1> QED
  BY <1>1, <1>3, <1>12, <1>14

LEMMA ConcludeLag ==
    ASSUME LagInv, drops = 0, NEW b \in Bidders, Conclude(b)
    PROVE  /\ Solid'
           /\ role = "signed" /\ mutex' = NoTask => WithinAfter(0)
           /\ role = "signed" /\ mutex' = b      => WithinAfter(BidOpen(b)')
<1> DEFINE r == bid[b].answers
<1>1. /\ bid[b] # NoBid /\ bid[b].place = "submit" /\ Len(r) = bid[b].submissions
      /\ UNCHANGED <<node, faults, away>>
  BY DEF Conclude, Bidding
<1>2. /\ Known \in Nat /\ nonce \in Nat /\ refused \in Nat /\ faults \in Nat /\ away \in Nat
      /\ One \in {0, 1}
  BY Numbers
<1>3. /\ Solid /\ mutex = b /\ b # NoTask /\ bid[b] \in Bid
      /\ bid \in [Bidders -> Bid \cup {NoBid}]
      /\ r \in Seq(Answers) /\ Len(r) \in {1, 2} /\ DOMAIN r = 1..Len(r)
      /\ role = "signed" => Within(BidOpen(b))
  BY <1>1, BidNumbers, BidFields, LenProperties DEF LagInv
<1>4. CASE \E i \in DOMAIN r : r[i] = "ok"
  <2>1. UNCHANGED <<nonce, mutex, refused>> /\ Proceed(b, "post")
    BY <1>4 DEF Conclude
  <2>2. /\ bid'[b].answers = r /\ bid'[b].type = bid[b].type
    BY <1>3, <2>1 DEF Proceed, Bid
  <2>3. Says(b, "ok") /\ Says(b, "ok")'
    BY <1>3, <1>4, <2>2 DEF Says
  <2>4. Known' = Known /\ Solid' /\ One' = One
    <3>1. nonce' \in Nat /\ nonce' >= nonce /\ nonce' = nonce
      BY <1>2, <2>1
    <3> QED
      BY <1>1, <1>3, <3>1, SameCounts
  <2> HIDE DEF Known, One, Solid
  <2>5. BidOpen(b)' = BidOpen(b)
    BY <2>2, <2>3, <2>4 DEF BidOpen
  <2>6. role = "signed" => WithinAfter(BidOpen(b)')
    BY <1>1, <1>3, <2>1, <2>4, <2>5 DEF Within, WithinAfter
  <2> QED
    BY <1>3, <2>1, <2>4, <2>6
\* Nothing was placed: no submission counts, and the approval of a gasless swap
\* is not open any more.
<1>5. CASE ~\E i \in DOMAIN r : r[i] = "ok"
  <2>1. /\ mutex' = NoTask
        /\ \/ nonce' = nonce + 1 /\ refused' \in {refused, refused + 1}
           \/ UNCHANGED <<nonce, refused>>
    BY <1>5 DEF Conclude, BidReturn
  <2>2. ~Says(b, "ok")
    BY <1>3, <1>5 DEF Says
  <2>3. r # <<>>
    <3>1. Len(<<>>) = 0
      BY EmptySeq
    <3>2. Len(r) # 0
      BY <1>3
    <3> QED
      BY <3>1, <3>2
  <2>4. BidOpen(b) = 0
    BY <2>2, <2>3 DEF BidOpen
  <2>5. nonce' \in Nat /\ nonce' >= nonce
    BY <1>2, <2>1
  <2>6. Known' = Known /\ Solid'
    BY <1>1, <1>3, <2>5, SameCounts
  <2> HIDE DEF Known, Solid
  <2>7. role = "signed" => refused + Known - nonce <= 2 * faults + away
    BY <1>2, <1>3, <2>4 DEF Within
  <2>8. role = "signed" => WithinAfter(0)
    <3>1. CASE UNCHANGED <<nonce, refused>>
      BY <1>1, <1>2, <2>6, <2>7, <3>1 DEF WithinAfter
    <3>2. CASE nonce' = nonce + 1 /\ refused' = refused
      BY <1>1, <1>2, <2>6, <2>7, <3>2 DEF WithinAfter
    <3>3. CASE nonce' = nonce + 1 /\ refused' = refused + 1
      BY <1>1, <1>2, <2>6, <2>7, <3>3 DEF WithinAfter
    <3> QED
      BY <2>1, <3>1, <3>2, <3>3
  <2> QED
    BY <1>3, <2>1, <2>6, <2>8
<1> QED
  BY <1>4, <1>5

LEMMA PostLag ==
    ASSUME LagInv, drops = 0, NEW b \in Bidders, Post(b)
    PROVE  /\ Solid' /\ mutex' = NoTask /\ b # NoTask
           /\ role = "signed" => WithinAfter(0)
<1>1. /\ bid[b] # NoBid /\ bid[b].place = "post" /\ mutex' = NoTask
      /\ UNCHANGED <<refused, away>>
  BY DEF Post, Bidding, BidReturn
<1>2. /\ Known \in Nat /\ nonce \in Nat /\ refused \in Nat /\ faults \in Nat /\ away \in Nat
      /\ One \in {0, 1} /\ nonce >= nonce
  BY Numbers
<1>3. /\ Solid /\ b # NoTask /\ BidKnows(b) /\ bid[b].type \in Own \cup NewKey
      /\ role = "signed" => Within(BidOpen(b))
      /\ BidOpen(b) = IF bid[b].type \in NewKey THEN 0
                      ELSE IF bid[b].type = "GAS" THEN 2 ELSE One
      /\ Swap(b) \in Tx /\ Swap(b).nonce = nonce + 1
  BY <1>1, BidNumbers, BidFields, BidTxs DEF LagInv
<1> HIDE DEF Known, One, Solid
<1>4. CASE bid[b].type = "GAA"
  <2> DEFINE x == Swap(b)
  <2>1. bid[b].type \notin NewKey /\ bid[b].type # "GAS" /\ bid[b].type \in Own
    BY <1>4 DEF NewKey, Own
  <2>2. Given(nonce) /\ BidOpen(b) = One
    BY <1>1, <1>3, <1>4, <2>1 DEF BidKnows, Target
  <2>3. \/ Accept(x) /\ nonce' = nonce + 2 /\ UNCHANGED faults
        \/ nonce' = nonce + 1 /\ UNCHANGED <<node, faults>>
        \/ x \in pool /\ UNCHANGED <<node, faults, nonce>>
        \/ faults' = faults + 1 /\ Serves(x) /\ nonce' = nonce
    BY <1>4, <2>1 DEF Post, Placed, CallFails, Fault, Serves
  <2>4. x \in Tx /\ x.nonce = nonce + 1
    BY <1>3
  <2> HIDE DEF x
  <2>5. x \in pool => One = 0
    BY <2>4 DEF One, Given
  <2>6. role = "signed" => refused + Known - nonce <= 2 * faults + away + One
    BY <1>3, <2>2 DEF Within
  <2>7. nonce' \in Nat /\ nonce' >= nonce
    BY <1>2, <2>3
  <2>8. CASE Accept(x) /\ nonce' = nonce + 2 /\ UNCHANGED faults
    <3>1. Known' = Known + One /\ Solid'
      BY <1>3, <2>2, <2>4, <2>7, <2>8, ServesCounts DEF Serves
    <3> QED
      BY <1>1, <1>2, <1>3, <2>6, <2>8, <3>1 DEF WithinAfter
  <2>9. CASE nonce' = nonce + 1 /\ UNCHANGED <<node, faults>>
    <3>1. Known' = Known /\ Solid'
      BY <1>3, <2>7, <2>9, SameCounts
    <3> QED
      BY <1>1, <1>2, <1>3, <2>6, <2>9, <3>1 DEF WithinAfter
  <2>10. CASE x \in pool /\ UNCHANGED <<node, faults, nonce>>
    <3>1. Known' = Known /\ Solid'
      BY <1>3, <2>7, <2>10, SameCounts
    <3> QED
      BY <1>1, <1>2, <1>3, <2>5, <2>6, <2>10, <3>1 DEF WithinAfter
  <2>11. CASE faults' = faults + 1 /\ Serves(x) /\ nonce' = nonce
    <3>1. Solid' /\ (Known' = Known \/ Known' = Known + 1)
      BY <1>3, <2>2, <2>4, <2>7, <2>11, ServesCounts
    <3>2. CASE Known' = Known
      BY <1>1, <1>2, <1>3, <2>6, <2>11, <3>1, <3>2 DEF WithinAfter
    <3>3. CASE Known' = Known + 1
      BY <1>1, <1>2, <1>3, <2>6, <2>11, <3>1, <3>3 DEF WithinAfter
    <3> QED
      BY <3>1, <3>2, <3>3
  <2> QED
    BY <2>3, <2>8, <2>9, <2>10, <2>11
<1>5. CASE bid[b].type # "GAA"
  <2>1. /\ UNCHANGED <<node, faults>>
        /\ nonce' = nonce + (IF bid[b].type \in NewKey THEN 0
                             ELSE IF bid[b].type = "GAS" THEN 2 ELSE 1)
    <3>1. CASE bid[b].type \in NewKey
      BY <1>2, <1>5, <3>1 DEF Post
    <3>2. CASE bid[b].type \notin NewKey
      BY <1>5, <3>2 DEF Post, Placed
    <3> QED
      BY <3>1, <3>2
  <2>2. nonce' \in Nat /\ nonce' >= nonce
    BY <1>2, <2>1
  <2>3. Known' = Known /\ Solid'
    BY <1>3, <2>1, <2>2, SameCounts
  <2>4. BidOpen(b) <= nonce' - nonce /\ BidOpen(b) \in {0, 1, 2}
    BY <1>2, <1>3, <2>1
  <2>5. role = "signed" => WithinAfter(0)
    <3>1. PICK o \in Nat : o = BidOpen(b)
      BY <2>4
    <3>2. PICK m \in Nat : m = nonce'
      BY <2>2
    <3>3. o <= m - nonce
      BY <2>4, <3>1, <3>2
    <3>4. role = "signed" => refused + Known - nonce <= 2 * faults + away + o
      BY <1>3, <3>1 DEF Within
    <3>5. role = "signed" => refused + Known - m <= 2 * faults + away + 0
      BY <1>2, <3>3, <3>4
    <3> QED
      BY <1>1, <2>1, <2>3, <3>2, <3>5 DEF WithinAfter
  <2> QED
    BY <1>1, <1>3, <2>3, <2>5
<1> QED
  BY <1>4, <1>5

----------------------------------------------------------------------------
(* Every step. *)

\* A task keeps the role, and a cancellation follows its transfer.
LEMMA TaskKeepsRoles ==
    ASSUME LagInv, NEW t \in Tasks, Task(t)
    PROVE  Roles' /\ (drops = 0 => Cancels') /\ drops' = drops /\ role' = role
<1>1. /\ job \in [Tasks -> Job \cup {NoJob}] /\ pc \in [Tasks -> {"idle", "load", "send"}]
      /\ \A u \in Tasks : pc[u] # "idle" <=> mutex = u
      /\ \A u \in Tasks : pc[u] # "idle" <=> job[u] \in Job
      /\ mutex \in {t, NoTask} /\ t # NoTask
  BY DEF LagInv, BidInv, IInv, TypeOK, Task, Lock, LoadNonce, GasPriceFails, SendAccepted,
         SendRefused, SendFailed
<1>2. drops' = drops /\ role' = role
  BY DEF Task, Lock, LoadNonce, GasPriceFails, SendAccepted, SendRefused, SendFailed
<1>3. \A u \in Tasks : u # t => pc[u] = "idle" /\ pc'[u] = "idle"
  BY <1>1 DEF Task, Lock, LoadNonce, GasPriceFails, SendAccepted, SendRefused, SendFailed,
              Goto, Return
<1>4. Roles /\ Knows(t)
  BY DEF LagInv, BidInv, IInv, Holder
<1>5. ASSUME pc'[t] = "idle" PROVE Roles' /\ Cancels'
  BY <1>3, <1>5 DEF Roles, Cancels
<1>6. CASE Lock(t)
  <2>1. PICK op \in OpsOf(role), v \in Variants :
           job' = [job EXCEPT ![t] = [op |-> op, n |-> 0, sent |-> 0, variant |-> v]]
    BY <1>6 DEF Lock
  <2>2. job'[t].sent = 0 /\ job'[t].op = op
    BY <1>1, <2>1
  <2>3. role = "signed" => op # "approve"
    BY DEF OpsOf
  <2> QED
    BY <1>2, <1>3, <2>2, <2>3 DEF Roles, Cancels
<1>7. CASE LoadNonce(t)
  <2>1. job[t] \in Job /\ job[t].sent = 0 /\ pc[t] = "load"
    BY <1>1, <1>4, <1>7 DEF LoadNonce, Knows
  <2>2. job'[t].sent = 0 /\ job'[t].op = job[t].op
    BY <1>1, <1>7, <2>1 DEF LoadNonce, Job
  <2> QED
    BY <1>2, <1>3, <1>4, <2>1, <2>2 DEF Roles, Cancels
<1>8. CASE GasPriceFails(t) \/ SendRefused(t) \/ SendFailed(t)
  BY <1>1, <1>2, <1>5, <1>8 DEF GasPriceFails, SendRefused, SendFailed, Return, Goto
<1>9. CASE SendAccepted(t)
  <2>1. CASE Last(t)
    BY <1>1, <1>2, <1>5, <1>9, <2>1 DEF SendAccepted, Return, Goto
  <2>2. CASE ~Last(t)
    <3>1. /\ pc[t] = "send" /\ Accept(Current(t)) /\ job[t] \in Job
          /\ job' = [job EXCEPT ![t] = [job[t] EXCEPT !.sent = 1]]
          /\ UNCHANGED <<nonce, mutex, pc>>
      BY <1>1, <1>9, <2>2 DEF SendAccepted
    <3>2. job[t].sent = 0
      BY <2>2, <3>1 DEF Last, Job
    <3>3. /\ job'[t].op = job[t].op /\ job'[t].variant = job[t].variant
      BY <1>1, <3>1 DEF Job
    <3>4. job[t].op = "cancel" => Current(t) = Make(job[t], nonce, "transfer")
      BY <3>1, <3>2, TaskSends
    <3>5. Current(t) \in pool'
      BY <3>1 DEF Accept
    <3>6. Make(job'[t], nonce', "transfer") = Make(job[t], nonce, "transfer")
      BY <3>1, <3>3 DEF Make
    <3>7. Cancels'
      <4> SUFFICES ASSUME NEW u \in Tasks, pc'[u] = "send", job'[u].op = "cancel"
                   PROVE  Make(job'[u], nonce', "transfer") \in pool'
        BY DEF Cancels, Make
      <4>1. u = t
        BY <1>3
      <4> QED
        BY <3>3, <3>4, <3>5, <3>6, <4>1
    <3>8. Roles'
      BY <1>2, <1>3, <1>4, <3>1, <3>3 DEF Roles
    <3> QED
      BY <1>2, <3>7, <3>8
  <2> QED
    BY <2>1, <2>2
<1> QED
  BY <1>6, <1>7, <1>8, <1>9 DEF Task

\* A step of a task, while the bidders are out.
LEMMA TaskKeepsLag ==
    ASSUME LagInv, BidInv', IsFiniteSet(pool'), NEW t \in Tasks, Task(t), UNCHANGED bidVars
    PROVE  LagInv'
<1>1. Roles' /\ (drops = 0 => Cancels') /\ drops' = drops /\ role' = role
  BY TaskKeepsRoles
<1>2. /\ mutex \in {t, NoTask} /\ mutex' \in {t, NoTask} /\ t # NoTask
      /\ \A b \in Bidders : b # t /\ b # NoTask
  BY DEF LagInv, BidInv, IInv, TypeOK, Task, Lock, LoadNonce, GasPriceFails, SendAccepted,
         SendRefused, SendFailed, Return
<1>3. ASSUME drops = 0 PROVE Solid' /\ Lagged'
  <2>1. /\ Solid'
        /\ role = "signed" /\ mutex' = NoTask => WithinAfter(0)
        /\ role = "signed" /\ mutex' = t      => WithinAfter(TaskOpen(t)')
    BY <1>3, TaskLag
  <2>2. Lagged'
    BY <1>1, <1>2, <2>1 DEF Lagged, Within, WithinAfter
  <2> QED
    BY <2>1, <2>2
<1> QED
  BY <1>1, <1>3 DEF LagInv

\* A step of a bidder, while the tasks are out.
LEMMA BidderKeepsLag ==
    ASSUME LagInv, BidInv', IsFiniteSet(pool'), NEW b \in Bidders, Bidder(b)
    PROVE  LagInv'
<1>1. /\ mutex = b \/ mutex = NoTask
      /\ UNCHANGED <<role, pc, job, drops>>
  BY BidFields DEF LagInv, Bidder, BidLock, BidLoad, BidGivesUp, PreSend, SeeBlock, Submit,
     Conclude, Post, Bidding
<1>2. /\ mutex' \in {b, NoTask} /\ b # NoTask
      /\ \A t \in Tasks : pc[t] = "idle" /\ t # b
  <2>1. \A t \in Tasks : pc[t] = "idle"
    BY <1>1, BidAlone DEF LagInv
  <2>2. mutex' \in {mutex, b, NoTask}
    BY DEF Bidder, BidLock, BidLoad, BidGivesUp, PreSend, SeeBlock, Submit, Conclude, Post,
           BidReturn
  <2> QED
    BY <1>1, <2>1, <2>2
<1>3. Roles' /\ Cancels'
  BY <1>1, <1>2 DEF Roles, Cancels
<1>4. ASSUME drops = 0 PROVE Solid' /\ Lagged'
  <2>1. /\ Solid'
        /\ role = "signed" /\ mutex' = NoTask => WithinAfter(0)
        /\ role = "signed" /\ mutex' = b      => WithinAfter(BidOpen(b)')
    BY <1>4, EarlyBidLag, SubmitLag, ConcludeLag, PostLag DEF Bidder
  <2>2. Lagged'
    BY <1>1, <1>2, <2>1 DEF Lagged, Within, WithinAfter
  <2> QED
    BY <2>1, <2>2
<1> QED
  BY <1>1, <1>3, <1>4 DEF LagInv

\* A step of the node, or one that leaves the account alone.
LEMMA MineKeepsLag ==
    ASSUME LagInv, BidInv', IsFiniteSet(pool'), Mine, UNCHANGED bidVars
    PROVE  LagInv'
<1>1. /\ mined' = mined + 1 /\ pool' = pool \ Slot(mined) /\ mined \in Nat
      /\ UNCHANGED <<role, nonce, mutex, pc, job, refused, faults, drops, bid, away>>
  BY Numbers DEF Mine, bidVars, Node
<1>2. Known' = Known /\ \A n \in Nat : GivenAfter(n) <=> Given(n)
  BY Numbers, MineCount
<1>3. nonce \in Nat
  BY Numbers
<1>4. One' = One /\ (Solid => Solid')
  BY <1>1, <1>2, <1>3 DEF One, Solid, Given, GivenAfter
<1>5. Roles'
  BY <1>1 DEF LagInv, Roles
<1>6. ASSUME Cancels PROVE Cancels'
  <2> SUFFICES ASSUME NEW t \in Tasks, pc[t] = "send", job[t].sent = 1, job[t].op = "cancel"
               PROVE  nonce < mined' \/ Make(job[t], nonce, "transfer") \in pool'
    BY <1>1 DEF Cancels, Make
  <2>1. nonce < mined \/ Make(job[t], nonce, "transfer") \in pool
    BY <1>6 DEF Cancels
  <2>2. Make(job[t], nonce, "transfer").nonce = nonce
    BY DEF Make
  <2> QED
    BY <1>1, <1>3, <2>1, <2>2 DEF Slot
<1>7. ASSUME Lagged PROVE Lagged'
  <2>1. /\ \A t \in Tasks : TaskOpen(t)' = TaskOpen(t)
        /\ \A b \in Bidders : BidOpen(b)' = BidOpen(b)
    BY <1>1, <1>4 DEF TaskOpen, BidOpen, Says
  <2> QED
    BY <1>1, <1>2, <1>7, <2>1 DEF Lagged, Within
<1> QED
  BY <1>1, <1>4, <1>5, <1>6, <1>7 DEF LagInv

LEMMA SameLag ==
    ASSUME LagInv, BidInv', UNCHANGED vars, UNCHANGED <<bid, away>>
    PROVE  LagInv'
<1>1. /\ Known' = Known /\ One' = One
      /\ UNCHANGED <<role, nonce, mutex, pc, job, mined, pool, refused, faults, drops>>
  BY DEF Known, One, Given, vars, node
<1>2. /\ \A t \in Tasks : TaskOpen(t)' = TaskOpen(t)
      /\ \A b \in Bidders : BidOpen(b)' = BidOpen(b)
  BY <1>1 DEF TaskOpen, BidOpen, Says
<1>3. Lagged => Lagged'
  BY <1>1, <1>2 DEF Lagged, Within
<1>4. (Solid => Solid') /\ (Cancels => Cancels') /\ (Roles => Roles')
  BY <1>1 DEF Solid, Cancels, Roles, Given, Make
<1> QED
  BY <1>1, <1>3, <1>4 DEF LagInv

LEMMA LagKept == LagInv /\ [BidNext]_allVars => LagInv'
<1> SUFFICES ASSUME LagInv, [BidNext]_allVars PROVE LagInv'
  OBVIOUS
<1>1. BidInv' /\ IsFiniteSet(pool')
  BY BidKept, PoolStaysFinite DEF LagInv
<1>2. CASE Drop /\ UNCHANGED bidVars
  <2>1. drops' # 0 /\ UNCHANGED <<role, pc, job>>
    BY <1>2, Parts DEF Drop, LagInv, BidInv, IInv, Counts
  <2> QED
    BY <1>1, <2>1 DEF LagInv, Roles
<1>3. CASE UNCHANGED vars /\ UNCHANGED <<bid, away>>
  BY <1>1, <1>3, SameLag
<1>4. \/ \E t \in Tasks : Task(t) /\ UNCHANGED bidVars
      \/ Mine /\ UNCHANGED bidVars
      \/ Drop /\ UNCHANGED bidVars
      \/ \E b \in Bidders : Bidder(b)
      \/ UNCHANGED vars /\ UNCHANGED <<bid, away>>
  BY DEF BidNext, Senders, NewBlock, Exhausted, allVars, bidVars
<1> QED
  BY <1>1, <1>2, <1>3, <1>4, TaskKeepsLag, MineKeepsLag, BidderKeepsLag

LEMMA LagStart == BidInit => LagInv
<1> SUFFICES ASSUME BidInit PROVE LagInv
  OBVIOUS
<1>1. /\ mined = 0 /\ pool = {} /\ nonce = 0 /\ refused = 0 /\ faults = 0 /\ away = 0
      /\ mutex = NoTask /\ \A t \in Tasks : pc[t] = "idle" /\ t # NoTask
      /\ \A b \in Bidders : b # NoTask
  BY DEF BidInit, Init
<1>2. IsFiniteSet(pool) /\ Cardinality(pool) = 0
  BY <1>1, FS_EmptySet
<1>3. Solid
  BY <1>1 DEF Solid, Given
<1>4. Within(0)
  BY <1>1, <1>2 DEF Within, Known
<1>5. Roles /\ Cancels /\ Lagged
  BY <1>1, <1>4 DEF Roles, Cancels, Lagged
<1> QED
  BY <1>2, <1>3, <1>5, BidStart DEF LagInv

\* However the tasks and bids interleave, whatever calls fail and whichever
\* blocks come between two submissions: the nonce of a signed account that
\* nobody uses is behind by what failed calls and turned away bids explain.
THEOREM LagBoundedAlways == BidSpec => []LagBounded
<1>1. LagInv => LagBounded
  <2> SUFFICES ASSUME LagInv, drops = 0, role = "signed", mutex = NoTask
               PROVE  refused + Lag <= 2 * faults + away
    BY DEF LagBounded
  <2>1. Within(0)
    BY DEF LagInv, Lagged
  <2>2. /\ Known \in Nat /\ nonce \in Nat /\ refused \in Nat /\ faults \in Nat /\ away \in Nat
    BY Numbers
  <2>3. Lag = Known - nonce
    <3>1. Cardinality(pool) \in Nat /\ mined \in Nat
      BY Numbers, FS_CardinalityType DEF Node
    <3> QED
      BY <2>2, <3>1 DEF Lag, Known
  <2> HIDE DEF Known
  <2> QED
    BY <2>1, <2>2, <2>3 DEF Within
<1> QED
  BY <1>1, LagStart, LagKept, PTL DEF BidSpec
=============================================================================
