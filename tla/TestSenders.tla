----------------------------- MODULE TestSenders -----------------------------
(***************************************************************************)
(* The senders of the test cases (klayslave/account/account.go): boomer    *)
(* tasks draw the same account, take its mutex, read the cached nonce,     *)
(* send one or two transactions and advance the nonce by what the answers  *)
(* say.  Nothing is retried and the nonce is never reset, in contrast to   *)
(* RetrySender.  One account; accounts share no state.                     *)
(*                                                                         *)
(* The node is external: how many transactions of the account are in       *)
(* blocks, and which ones its pool holds.                                  *)
(***************************************************************************)
EXTENDS Integers, FiniteSets

CONSTANTS Tasks,     \* boomer workers that draw the account
          Bidders,   \* workers of the auction test cases (module Auction)
          NoTask,    \* holder of a free mutex
          NoJob,     \* of an idle task
          Variants,  \* what makes two transactions of a kind differ
          MaxNonce,  \* bound: nonces
          MaxFaults, \* bound: failed calls and lost answers
          MaxDrops   \* bound: transactions the pool drops

VARIABLES
    role,  \* the list the account is drawn from
    nonce, \* Account.nonce, 0 when it has to be fetched
    mutex, \* Account.mutex
    pc,    \* where each task is
    job,   \* its operation, the nonce it has read, its place in the operation
    mined, \* transactions in blocks; the nonce of the account at the latest block
    pool,  \* transactions in the pool
    refused, \* operations of a signed account refused outright (history)
    faults, drops

node == <<mined, pool>>
vars == <<role, nonce, mutex, pc, job, node, refused, faults, drops>>

\* "approve" is TransferNewGaslessApproveTx, "pair" TransferNewGaslessTx,
\* "cancel" TransferNewValueTransferWithCancelTx; every other sender is a
\* "single".
OpsOf(r) == IF r = "approveOnly" THEN {"approve"} ELSE {"single", "cancel", "pair"}
Ops      == {"single", "cancel", "pair", "approve"}
Gasless  == {"pair", "approve"}
Kinds    == {"transfer", "cancel", "approve", "swap"}

Job == [op : Ops, n : Nat, sent : 0..1, variant : Variants]
Tx  == [nonce : Nat, kind : Kinds, variant : Variants]

ASSUME SendersAssumption ==
    /\ NoTask \notin Tasks \cup Bidders
    /\ Tasks \cap Bidders = {}
    /\ NoJob \notin Job
    /\ MaxNonce \in Nat /\ MaxFaults \in Nat /\ MaxDrops \in Nat

\* The transactions of an operation, in order.
Make(j, n, kind) == [nonce |-> n, kind |-> kind, variant |-> j.variant]
Single(j)        == <<Make(j, j.n, "transfer")>>
WithCancel(j)    == <<Make(j, j.n, "transfer"), Make(j, j.n, "cancel")>>
GaslessPair(j)   == <<Make(j, j.n, "approve"), Make(j, j.n + 1, "swap")>>
GaslessOnly(j)   == <<Make(j, j.n, "approve")>>

Txs(j) == CASE j.op = "cancel"  -> WithCancel(j)
            [] j.op = "pair"    -> GaslessPair(j)
            [] j.op = "approve" -> GaslessOnly(j)
            [] OTHER            -> Single(j)

Current(t) == Txs(job[t])[job[t].sent + 1]
Last(t)    == job[t].op \notin {"cancel", "pair"} \/ job[t].sent = 1

\* Mutant of Step: every operation counts its transactions.
StepCountsSends(op) == CASE op \in {"pair", "cancel"} -> 2 [] op = "approve" -> 0 [] OTHER -> 1

\* Mutant of Step: every operation sends one transaction.
StepOne(op) == IF op = "approve" THEN 0 ELSE 1

Step(op) == CASE op = "pair" -> 2 [] op = "approve" -> 0 [] OTHER -> 1

\* A nonce too low and a replacement underpriced.
RefusedStep(op) == IF op = "approve" THEN 0 ELSE 1

TypeOK ==
    /\ role \in {"signed", "approveOnly"}
    /\ nonce \in Nat
    /\ mutex \in Tasks \cup Bidders \cup {NoTask}
    /\ pc \in [Tasks -> {"idle", "load", "send"}]
    /\ job \in [Tasks -> Job \cup {NoJob}]
    /\ \A t \in Tasks : /\ pc[t] # "idle" <=> mutex = t
                        /\ pc[t] # "idle" <=> job[t] \in Job
    /\ mined \in Nat
    /\ pool \subseteq Tx
    /\ \A x, y \in pool : x.nonce >= mined /\ (x.nonce = y.nonce => x = y)
    /\ refused \in Nat /\ faults \in Nat /\ drops \in Nat

Init ==
    /\ role \in {"signed", "approveOnly"}
    /\ nonce = 0
    /\ mutex = NoTask
    /\ pc = [t \in Tasks |-> "idle"]
    /\ job = [t \in Tasks |-> NoJob]
    /\ mined = 0 /\ pool = {}
    /\ refused = 0 /\ faults = 0 /\ drops = 0

----------------------------------------------------------------------------
Goto(t, step) == pc' = [pc EXCEPT ![t] = step]
Fault         == faults < MaxFaults /\ faults' = faults + 1

\* The deferred unlock.
Return(t) == /\ mutex' = NoTask
             /\ job' = [job EXCEPT ![t] = NoJob]
             /\ Goto(t, "idle")

\* Mutant of Lock: the mutex is not waited for.
LockFree(t) ==
    /\ pc[t] = "idle" /\ nonce < MaxNonce
    /\ mutex' = t
    /\ \E op \in OpsOf(role), v \in Variants :
          job' = [job EXCEPT ![t] = [op |-> op, n |-> 0, sent |-> 0, variant |-> v]]
    /\ Goto(t, "load")
    /\ UNCHANGED <<role, nonce, node, refused, faults, drops>>

Lock(t) ==
    /\ pc[t] = "idle" /\ nonce < MaxNonce
    /\ mutex = NoTask /\ mutex' = t
    /\ \E op \in OpsOf(role), v \in Variants :
          job' = [job EXCEPT ![t] = [op |-> op, n |-> 0, sent |-> 0, variant |-> v]]
    /\ Goto(t, "load")
    /\ UNCHANGED <<role, nonce, node, refused, faults, drops>>

\* GetNonce: the cached nonce, or NonceAt, or a cached zero when NonceAt fails.
LoadNonce(t) ==
    /\ pc[t] = "load"
    /\ \/ nonce # 0 /\ UNCHANGED <<nonce, faults>>
       \/ nonce = 0 /\ nonce' = mined /\ UNCHANGED faults
       \/ nonce = 0 /\ Fault /\ UNCHANGED nonce
    /\ job' = [job EXCEPT ![t].n = nonce']
    /\ Goto(t, "send")
    /\ UNCHANGED <<role, mutex, node, refused, drops>>

\* A gasless operation asks for a gas price before its first transaction.
GasPriceFails(t) ==
    /\ pc[t] = "send" /\ job[t].op \in Gasless /\ job[t].sent = 0
    /\ Fault
    /\ Return(t)
    /\ UNCHANGED <<role, nonce, node, refused, drops>>

Slot(n) == {x \in pool : x.nonce = n}

\* The pool takes a transaction, in the place of another one if it has to.
Accept(x) ==
    /\ x.nonce >= mined /\ x \notin pool
    /\ pool' = (pool \ Slot(x.nonce)) \cup {x}
    /\ UNCHANGED mined

SendAccepted(t) ==
    /\ pc[t] = "send"
    /\ Accept(Current(t))
    /\ IF Last(t) THEN /\ nonce' = nonce + Step(job[t].op)
                       /\ Return(t)
                  ELSE /\ job' = [job EXCEPT ![t].sent = 1]
                       /\ UNCHANGED <<nonce, mutex, pc>>
    /\ UNCHANGED <<role, refused, faults, drops>>

\* "nonce too low", or "replacement transaction underpriced".
SendRefused(t) ==
    LET x == Current(t) IN
    /\ pc[t] = "send"
    /\ x.nonce < mined \/ (x \notin pool /\ Slot(x.nonce) # {})
    /\ nonce' = nonce + RefusedStep(job[t].op)
    /\ refused' = IF role = "signed" /\ job[t].sent = 0 THEN refused + 1 ELSE refused
    /\ Return(t)
    /\ UNCHANGED <<role, node, faults, drops>>

\* Mutant of SendFailed: an early return that forgets the mutex.
SendFailedHolds(t) ==
    /\ pc[t] = "send"
    /\ \/ Current(t) \in pool /\ UNCHANGED <<node, faults>>
       \/ Fault /\ UNCHANGED node
       \/ Fault /\ Accept(Current(t))
    /\ Goto(t, "idle") /\ job' = [job EXCEPT ![t] = NoJob]
    /\ UNCHANGED <<role, nonce, mutex, refused, drops>>

\* Any other answer: the pool has these very bytes, the call fails, or the
\* answer to an accepted transaction does.
SendFailed(t) ==
    /\ pc[t] = "send"
    /\ \/ Current(t) \in pool /\ UNCHANGED <<node, faults>>
       \/ Fault /\ UNCHANGED node
       \/ Fault /\ Accept(Current(t))
    /\ Return(t)
    /\ UNCHANGED <<role, nonce, refused, drops>>

----------------------------------------------------------------------------
Mine ==
    /\ Slot(mined) # {}
    /\ pool' = pool \ Slot(mined)
    /\ mined' = mined + 1
    /\ UNCHANGED <<role, nonce, mutex, pc, job, refused, faults, drops>>

Drop ==
    /\ drops < MaxDrops
    /\ \E x \in pool : pool' = pool \ {x}
    /\ drops' = drops + 1
    /\ UNCHANGED <<role, nonce, mutex, pc, job, mined, refused, faults>>

Task(t) == \/ Lock(t) \/ LoadNonce(t) \/ GasPriceFails(t)
           \/ SendAccepted(t) \/ SendRefused(t) \/ SendFailed(t)

\* Only the bound on nonces stops the tasks.
Exhausted == /\ nonce >= MaxNonce /\ mutex = NoTask /\ Slot(mined) = {}
             /\ UNCHANGED vars

Next == (\E t \in Tasks : Task(t)) \/ Mine \/ Drop \/ Exhausted

Spec == Init /\ [][Next]_vars

\* boomer keeps running its tasks, and blocks are made.
Fairness == (\A t \in Tasks : WF_vars(Task(t))) /\ WF_vars(Mine)
FairSpec == Spec /\ Fairness

----------------------------------------------------------------------------
\* No sender advances the nonce past one the node was never given (account.go
\* :150-198, 498-562, 1042-1111): while the pool drops nothing, each nonce
\* below the cached one is in a block or in the pool, so that everything
\* accepted can be executed.
NoHole == drops = 0 => \A n \in 0..(nonce - 1) : n < mined \/ Slot(n) # {}

\* How far the cached nonce is behind the node.
Lag == mined + Cardinality(pool) - nonce

\* A nonce that has fallen behind recovers (account.go:185-187): later sends
\* are refused until it has caught up, unless the pool lost a transaction.
CatchesUp == role = "signed" /\ Lag > 0 ~> Lag <= 0 \/ drops > 0 \/ nonce >= MaxNonce
=============================================================================
