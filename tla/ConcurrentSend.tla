--------------------------- MODULE ConcurrentSend ---------------------------
(***************************************************************************)
(* ConcurrentTransactionSend (klayslave/account/account.go): one goroutine *)
(* per account, no more than a limit of them at a time, and a caller that  *)
(* waits for all of them.  The buffered channel is the semaphore, the      *)
(* WaitGroup counts the goroutines that are not through.                   *)
(***************************************************************************)
EXTENDS Integers, FiniteSets

CONSTANTS Total,          \* number of accounts
          MaxConcurrency, \* as configured; 0 or less asks for the default
          NumCPU

ASSUME FanOutAssumption ==
    /\ Total \in Nat
    /\ MaxConcurrency \in Int
    /\ NumCPU \in Nat \ {0}

VARIABLES
    caller, \* "loop", "add", "spawn", "wait", "returned"
    next,   \* the account the loop is at
    ch,     \* number of elements in the channel
    wg,     \* the WaitGroup counter
    task,   \* where the goroutine of each account is
    sends   \* how many times transactionSend ran to its end for each account

vars == <<caller, next, ch, wg, task, sends>>

Accounts == 1..Total
Limit    == IF MaxConcurrency <= 0 THEN NumCPU * 10 ELSE MaxConcurrency

TaskSteps == {"none", "sending", "release", "finish", "ended"}

TypeOK ==
    /\ caller \in {"loop", "add", "spawn", "wait", "returned"}
    /\ next \in 1..(Total + 1)
    /\ ch \in 0..Limit
    /\ wg \in 0..Total
    /\ task \in [Accounts -> TaskSteps]
    /\ sends \in [Accounts -> Nat]

Init ==
    /\ caller = IF Total = 0 THEN "returned" ELSE "loop"
    /\ next = 1
    /\ ch = 0
    /\ wg = 0
    /\ task = [i \in Accounts |-> "none"]
    /\ sends = [i \in Accounts |-> 0]

----------------------------------------------------------------------------
\* Mutant of Acquire: an unbounded channel.
AcquireUnbounded ==
    /\ caller = "loop" /\ next <= Total
    /\ ch' = ch + 1
    /\ caller' = "add"
    /\ UNCHANGED <<next, wg, task, sends>>

\* ch <- 1 blocks while the channel is full.
Acquire ==
    /\ caller = "loop" /\ next <= Total
    /\ ch < Limit
    /\ ch' = ch + 1
    /\ caller' = "add"
    /\ UNCHANGED <<next, wg, task, sends>>

\* Mutant of Add: the goroutine is not counted.
AddNothing ==
    /\ caller = "add"
    /\ caller' = "spawn"
    /\ UNCHANGED <<next, ch, wg, task, sends>>

Add ==
    /\ caller = "add"
    /\ wg' = wg + 1
    /\ caller' = "spawn"
    /\ UNCHANGED <<next, ch, task, sends>>

\* The goroutine owns its idx and acc: a new variable in every iteration.
Spawn ==
    /\ caller = "spawn"
    /\ task' = [task EXCEPT ![next] = "sending"]
    /\ next' = next + 1
    /\ caller' = "loop"
    /\ UNCHANGED <<ch, wg, sends>>

LoopEnds ==
    /\ caller = "loop" /\ next > Total
    /\ caller' = "wait"
    /\ UNCHANGED <<next, ch, wg, task, sends>>

WaitEnds ==
    /\ caller = "wait"
    /\ wg = 0
    /\ caller' = "returned"
    /\ UNCHANGED <<next, ch, wg, task, sends>>

\* transactionSend(idx, acc) returns.
SendEnds(i) ==
    /\ task[i] = "sending"
    /\ sends' = [sends EXCEPT ![i] = @ + 1]
    /\ task' = [task EXCEPT ![i] = "release"]
    /\ UNCHANGED <<caller, next, ch, wg>>

\* Mutant of Release: the channel is not drained.
ReleaseNothing(i) ==
    /\ task[i] = "release"
    /\ task' = [task EXCEPT ![i] = "finish"]
    /\ UNCHANGED <<caller, next, ch, wg, sends>>

\* <-ch blocks on an empty channel.
Release(i) ==
    /\ task[i] = "release"
    /\ ch > 0
    /\ ch' = ch - 1
    /\ task' = [task EXCEPT ![i] = "finish"]
    /\ UNCHANGED <<caller, next, wg, sends>>

\* wg.Done(), after the progress report.
Finish(i) ==
    /\ task[i] = "finish"
    /\ wg' = wg - 1
    /\ task' = [task EXCEPT ![i] = "ended"]
    /\ UNCHANGED <<caller, next, ch, sends>>

Task(i) == SendEnds(i) \/ Release(i) \/ Finish(i)
Caller  == Acquire \/ Add \/ Spawn \/ LoopEnds \/ WaitEnds

Terminated == caller = "returned" /\ UNCHANGED vars

Next == Caller \/ (\E i \in Accounts : Task(i)) \/ Terminated

\* Every send returns: what RetrySender shows of the sends that get here.
Fairness == WF_vars(Caller) /\ \A i \in Accounts : WF_vars(Task(i))

Spec     == Init /\ [][Next]_vars
FairSpec == Spec /\ Fairness

----------------------------------------------------------------------------
Sending == {i \in Accounts : task[i] = "sending"}

\* No more than the limit of transactions are being sent at a time
\* (account.go:1566-1569): the node's load is what the configuration says.
AtMostLimit == Cardinality(Sending) <= Limit

\* When the call returns (account.go:1581), every account has been served, by
\* exactly one send, and no goroutine is left: main.go goes on to deploy with
\* every account charged.
ReturnsAfterAll ==
    caller = "returned" =>
        \A i \in Accounts : task[i] = "ended" /\ sends[i] = 1

\* The call returns: channel and WaitGroup never leave the caller, or a
\* goroutine, blocked.
Returns == <>(caller = "returned")
=============================================================================
