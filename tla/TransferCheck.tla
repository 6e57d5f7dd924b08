---------------------------- MODULE TransferCheck ----------------------------
(***************************************************************************)
(* The checked transfer (testcase/run_receipt_check.go, transferAndCheck): *)
(* a task locks sender and recipient, reads their balances, transfers,     *)
(* waits for the receipt and expects the balances to have moved by exactly *)
(* its own transfer.  No other test case uses these accounts meanwhile.    *)
(*                                                                         *)
(* The node is external: balances at the latest block (counted from what   *)
(* the accounts were charged with) and the transfers it has accepted.      *)
(***************************************************************************)
EXTENDS Integers, FiniteSets

CONSTANTS NumAccounts, \* accounts are numbered in the order of their addresses
          Tasks,       \* boomer workers
          NoTask,      \* holder of a free mutex
          Values,      \* amounts that are drawn
          Fee,         \* gas used times gas price
          MaxStarts,   \* bound: runs of a test case
          MaxFaults    \* bound: time-outs and lost answers

ASSUME CheckAssumption ==
    /\ NumAccounts \in Nat
    /\ NoTask \notin Tasks
    /\ Values \subseteq Nat
    /\ Fee \in Nat
    /\ MaxStarts \in Nat /\ MaxFaults \in Nat

Accounts == 1..NumAccounts

VARIABLES
    mutex,   \* Account.mutex
    pc,      \* where each task is
    job,     \* its parameters and local variables
    balance, \* balances at the latest block
    nonces,  \* transfers the node has accepted from each account
    pending, \* accepted transfers that are not in a block yet
    alarm,   \* a task has reported a wrong balance (history)
    starts, faults

node == <<balance, nonces, pending>>
vars == <<mutex, pc, job, node, alarm, starts, faults>>

Steps == {"idle", "lock1", "lock2", "readFrom", "readTo", "send", "wait",
          "checkFrom", "checkTo", "unlock1", "unlock2"}

Job == [from : Accounts, to : Accounts, value : Values,
        fromBalance : Int,  \* fromFormerBalance, later the expected one
        toBalance : Int,
        nonce : Nat]        \* of the transfer sent

Transfer == [from : Accounts, to : Accounts, value : Values, nonce : Nat]

Drawn(from, to, value) == [from |-> from, to |-> to, value |-> value,
                           fromBalance |-> 0, toBalance |-> 0, nonce |-> 0]

NoJob == Drawn(0, 0, 0)

TypeOK ==
    /\ mutex \in [Accounts -> Tasks \cup {NoTask}]
    /\ pc \in [Tasks -> Steps]
    /\ job \in [Tasks -> Job \cup {NoJob}]
    /\ \A t \in Tasks : pc[t] # "idle" => job[t] \in Job
    /\ balance \in [Accounts -> Int]
    /\ nonces \in [Accounts -> Nat]
    /\ pending \subseteq Transfer
    /\ alarm \in BOOLEAN
    /\ starts \in Nat /\ faults \in Nat

Init ==
    /\ mutex = [a \in Accounts |-> NoTask]
    /\ pc = [t \in Tasks |-> "idle"]
    /\ job = [t \in Tasks |-> NoJob]
    /\ balance = [a \in Accounts |-> 0]
    /\ nonces = [a \in Accounts |-> 0]
    /\ pending = {}
    /\ alarm = FALSE
    /\ starts = 0 /\ faults = 0

----------------------------------------------------------------------------
Goto(t, step) == pc' = [pc EXCEPT ![t] = step]
Take(t, a)    == /\ mutex[a] = NoTask
                 /\ mutex' = [mutex EXCEPT ![a] = t]
Fault         == faults < MaxFaults /\ faults' = faults + 1

\* Mutant of First: the sender's mutex first, whatever the addresses.
SenderFirst(j) == j.from

\* doubleLock and doubleUnlock both begin with the greater address.
First(j)  == IF j.from > j.to THEN j.from ELSE j.to
Second(j) == IF First(j) = j.from THEN j.to ELSE j.from

\* Mutant of Begin: an index that starts from zero.
BeginFromZero(t) ==
    /\ pc[t] = "idle" /\ starts < MaxStarts
    /\ \E from, to \in 0..(NumAccounts - 1), v \in Values :
          job' = [job EXCEPT ![t] = Drawn(from, to, v)]
    /\ starts' = starts + 1
    /\ Goto(t, "lock1")
    /\ UNCHANGED <<mutex, node, alarm, faults>>

\* The test case draws sender, recipient and value.
Begin(t) ==
    /\ pc[t] = "idle" /\ starts < MaxStarts
    /\ \E from, to \in Accounts, v \in Values :
          job' = [job EXCEPT ![t] = Drawn(from, to, v)]
    /\ starts' = starts + 1
    /\ Goto(t, "lock1")
    /\ UNCHANGED <<mutex, node, alarm, faults>>

Lock1(t) ==
    /\ pc[t] = "lock1"
    /\ Take(t, First(job[t]))
    /\ Goto(t, IF job[t].from = job[t].to THEN "readFrom" ELSE "lock2")
    /\ UNCHANGED <<job, node, alarm, starts, faults>>

\* Mutant of Lock2: the second account is used without its mutex.
Lock2Free(t) ==
    /\ pc[t] = "lock2"
    /\ mutex' = [mutex EXCEPT ![Second(job[t])] = t]
    /\ Goto(t, "readFrom")
    /\ UNCHANGED <<job, node, alarm, starts, faults>>

Lock2(t) ==
    /\ pc[t] = "lock2"
    /\ Take(t, Second(job[t]))
    /\ Goto(t, "readFrom")
    /\ UNCHANGED <<job, node, alarm, starts, faults>>

\* Two calls of GetBalance, one after the other.
ReadFrom(t) ==
    /\ pc[t] = "readFrom"
    /\ job' = [job EXCEPT ![t].fromBalance = balance[job[t].from]]
    /\ Goto(t, "readTo")
    /\ UNCHANGED <<mutex, node, alarm, starts, faults>>

ReadTo(t) ==
    /\ pc[t] = "readTo"
    /\ job' = [job EXCEPT ![t].toBalance = balance[job[t].to]]
    /\ Goto(t, "send")
    /\ UNCHANGED <<mutex, node, alarm, starts, faults>>

Sent(j) == [from |-> j.from, to |-> j.to, value |-> j.value, nonce |-> j.nonce]

\* The node takes the transfer into its pool.
Accept(j) ==
    /\ pending' = pending \cup {[Sent(j) EXCEPT !.nonce = nonces[j.from]]}
    /\ nonces' = [nonces EXCEPT ![j.from] = @ + 1]
    /\ UNCHANGED balance

SendAccepted(t) ==
    /\ pc[t] = "send"
    /\ Accept(job[t])
    /\ job' = [job EXCEPT ![t].nonce = nonces[job[t].from]]
    /\ Goto(t, "wait")
    /\ UNCHANGED <<mutex, alarm, starts, faults>>

\* TransferSignedTxWithoutLock fails: refused, or accepted with the answer lost.
SendFailed(t) ==
    /\ pc[t] = "send"
    /\ \/ UNCHANGED <<node, faults>>
       \/ Accept(job[t]) /\ Fault
    /\ Goto(t, "unlock1")
    /\ UNCHANGED <<mutex, job, alarm, starts>>

Mined(j) == \A x \in pending : x.from = j.from => x.nonce # j.nonce

\* Mutant of Receipt: a transfer to oneself is not treated apart.
ReceiptSelfPays(t) ==
    LET j == job[t] IN
    /\ pc[t] = "wait"
    /\ Mined(j)
    /\ job' = [job EXCEPT ![t].fromBalance = @ - j.value - Fee,
                          ![t].toBalance = @ + j.value]
    /\ Goto(t, "checkFrom")
    /\ UNCHANGED <<mutex, node, alarm, starts, faults>>

\* The receipt is there: what the balances have to be now.
Receipt(t) ==
    LET j == job[t]
        moved == IF j.from = j.to THEN 0 ELSE j.value IN
    /\ pc[t] = "wait"
    /\ Mined(j)
    /\ job' = [job EXCEPT ![t].fromBalance = @ - moved - Fee,
                          ![t].toBalance = @ + moved]
    /\ Goto(t, "checkFrom")
    /\ UNCHANGED <<mutex, node, alarm, starts, faults>>

\* A hundred seconds without a receipt: the transfer may still be executed.
Timeout(t) ==
    /\ pc[t] = "wait"
    /\ Fault
    /\ Goto(t, "unlock1")
    /\ UNCHANGED <<mutex, job, node, alarm, starts>>

\* CheckBalance, retried for ten seconds: the expected balance is seen, or the
\* task gives up while another one is there.
CheckFrom(t) ==
    LET j == job[t]
        right == balance[j.from] = j.fromBalance IN
    /\ pc[t] = "checkFrom"
    /\ Goto(t, IF right /\ j.from # j.to THEN "checkTo" ELSE "unlock1")
    /\ alarm' = (alarm \/ ~right)
    /\ UNCHANGED <<mutex, job, node, starts, faults>>

CheckTo(t) ==
    /\ pc[t] = "checkTo"
    /\ Goto(t, "unlock1")
    /\ alarm' = (alarm \/ balance[job[t].to] # job[t].toBalance)
    /\ UNCHANGED <<mutex, job, node, starts, faults>>

Unlock1(t) ==
    /\ pc[t] = "unlock1"
    /\ mutex' = [mutex EXCEPT ![First(job[t])] = NoTask]
    /\ Goto(t, IF job[t].from = job[t].to THEN "idle" ELSE "unlock2")
    /\ UNCHANGED <<job, node, alarm, starts, faults>>

Unlock2(t) ==
    /\ pc[t] = "unlock2"
    /\ mutex' = [mutex EXCEPT ![Second(job[t])] = NoTask]
    /\ Goto(t, "idle")
    /\ UNCHANGED <<job, node, alarm, starts, faults>>

----------------------------------------------------------------------------
\* A block executes a transfer, in nonce order for each sender.
Execute(x) ==
    /\ \A y \in pending : y.from = x.from => y.nonce >= x.nonce
    /\ pending' = pending \ {x}
    /\ balance' = [a \in Accounts |->
                      balance[a] - (IF a = x.from THEN x.value + Fee ELSE 0)
                                 + (IF a = x.to THEN x.value ELSE 0)]
    /\ UNCHANGED <<mutex, pc, job, nonces, alarm, starts, faults>>

Task(t) == \/ Begin(t) \/ Lock1(t) \/ Lock2(t) \/ ReadFrom(t) \/ ReadTo(t)
           \/ SendAccepted(t) \/ SendFailed(t) \/ Receipt(t) \/ Timeout(t)
           \/ CheckFrom(t) \/ CheckTo(t) \/ Unlock1(t) \/ Unlock2(t)

\* Only the bound on starts stops the tasks.
Terminated == /\ starts = MaxStarts /\ pending = {}
              /\ \A t \in Tasks : pc[t] = "idle"
              /\ UNCHANGED vars

Next == \/ \E t \in Tasks : Task(t)
        \/ \E x \in pending : Execute(x)
        \/ Terminated

Spec == Init /\ [][Next]_vars

\* Workers run, a waiter gets its mutex in the end, blocks are made.
Fairness == /\ \A t \in Tasks : WF_vars(Task(t)) /\ SF_vars(Lock1(t) \/ Lock2(t))
            /\ WF_vars(\E x \in pending : Execute(x))

FairSpec == Spec /\ Fairness

----------------------------------------------------------------------------
\* The checks do not disturb each other (run_receipt_check.go:166-174): as long
\* as nothing has timed out, a transfer is in flight only under a task that is
\* waiting for it with both accounts locked.
Isolated ==
    faults = 0 =>
        \A x \in pending : \E t \in Tasks :
            /\ pc[t] = "wait" /\ Sent(job[t]) = x
            /\ mutex[x.from] = t /\ mutex[x.to] = t

\* "It took more than 10 seconds to retrieve the correct receipt"
\* (run_receipt_check.go:206, 224): where nothing has timed out and no answer
\* was lost, no check complains about a node that moved exactly what the
\* transfer said.
NoFalseAlarm == faults = 0 => ~alarm

\* "locks two accounts in a consistent order to prevent deadlock"
\* (run_receipt_check.go:60): every run of the test case comes to its end.
EveryCheckEnds == \A t \in Tasks : pc[t] # "idle" ~> pc[t] = "idle"
=============================================================================
