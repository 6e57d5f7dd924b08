------------------------ MODULE ConcurrentSendProofs ------------------------
(***************************************************************************)
(* ConcurrentTransactionSend for every number of accounts and every limit. *)
(* The invariant ties the two counters to the goroutines: the channel      *)
(* holds one element per goroutine that is sending or about to release,    *)
(* and per account the caller is busy with; the WaitGroup counts those     *)
(* that are not through.                                                   *)
(***************************************************************************)
EXTENDS ConcurrentSend, FiniteSetTheorems, TLAPS

USE FanOutAssumption

Holders == {i \in Accounts : \/ task[i] \in {"sending", "release"}
                             \/ i = next /\ caller \in {"add", "spawn"}}
Counted == {i \in Accounts : \/ task[i] \in {"sending", "release", "finish"}
                             \/ i = next /\ caller = "spawn"}

Started ==
    /\ \A i \in Accounts : task[i] = "none" <=> i >= next
    /\ \A i \in Accounts :
          sends[i] = IF task[i] \in {"none", "sending"} THEN 0 ELSE 1
    /\ caller \in {"add", "spawn"} => next <= Total
    /\ caller = "wait" => next = Total + 1
    /\ caller = "returned" => next = Total + 1 /\ wg = 0

Types ==
    /\ caller \in {"loop", "add", "spawn", "wait", "returned"}
    /\ next \in 1..(Total + 1)
    /\ ch \in Nat /\ ch <= Limit
    /\ wg \in Nat
    /\ task \in [Accounts -> TaskSteps]
    /\ sends \in [Accounts -> Nat]

IInv == Types /\ Started /\ ch = Cardinality(Holders) /\ wg = Cardinality(Counted)

\* The limit is positive whatever the configuration (account.go:1547-1549).
LEMMA LimitType == Limit \in Nat \ {0}
  BY DEF Limit

\* Sets of accounts are finite, and counted by adding or taking one.
LEMMA CountAccounts ==
    ASSUME NEW S \in SUBSET Accounts
    PROVE  /\ IsFiniteSet(S) /\ Cardinality(S) \in Nat /\ Cardinality(S) <= Total
           /\ Cardinality(S) = 0 <=> S = {}
           /\ \A x : x \notin S => Cardinality(S \cup {x}) = Cardinality(S) + 1
           /\ \A x \in S : Cardinality(S \ {x}) = Cardinality(S) - 1
<1>1. IsFiniteSet(Accounts) /\ Cardinality(Accounts) = Total
  BY FS_Interval DEF Accounts
<1>2. IsFiniteSet(S) /\ Cardinality(S) <= Total
  BY <1>1, FS_Subset
<1> QED
  BY <1>2, FS_CardinalityType, FS_EmptySet, FS_AddElement, FS_RemoveElement

LEMMA InitInv == Init => IInv
<1> SUFFICES ASSUME Init PROVE IInv
  OBVIOUS
<1>1. Types /\ Started
  BY LimitType DEF Init, Types, Started, TaskSteps, Accounts
<1>2. Holders = {} /\ Counted = {}
  BY DEF Init, Holders, Counted
<1> QED
  BY <1>1, <1>2, FS_EmptySet DEF Init, IInv

LEMMA NextInv == IInv /\ [Next]_vars => IInv'
<1> SUFFICES ASSUME IInv, [Next]_vars PROVE IInv'
  OBVIOUS
<1> USE LimitType DEF IInv, Types, Started, TaskSteps
<1>s. Holders \in SUBSET Accounts /\ Counted \in SUBSET Accounts
  BY DEF Holders, Counted
<1>1. CASE Acquire
  <2>1. Types' /\ Started'
    BY <1>1 DEF Acquire
  <2>2. next \in Accounts /\ next \notin Holders
    BY <1>1 DEF Acquire, Accounts, Holders
  <2>3. Holders' = Holders \cup {next} /\ Counted' = Counted
    BY <1>1, <2>2 DEF Acquire, Holders, Counted
  <2> QED
    BY <1>1, <1>s, <2>1, <2>2, <2>3, CountAccounts DEF Acquire
<1>2. CASE Add
  <2>1. Types' /\ Started'
    BY <1>2 DEF Add
  <2>2. next \in Accounts /\ next \notin Counted
    BY <1>2 DEF Add, Accounts, Counted
  <2>3. Holders' = Holders /\ Counted' = Counted \cup {next}
    BY <1>2, <2>2 DEF Add, Holders, Counted
  <2> QED
    BY <1>2, <1>s, <2>1, <2>2, <2>3, CountAccounts DEF Add
<1>3. CASE Spawn
  <2>1. Types' /\ Started'
    BY <1>3 DEF Spawn, Accounts
  <2>2. Holders' = Holders /\ Counted' = Counted
    BY <1>3 DEF Spawn, Holders, Counted, Accounts
  <2> QED
    BY <1>3, <2>1, <2>2 DEF Spawn
<1>4. CASE LoopEnds \/ WaitEnds
  <2>1. Types' /\ Started'
    BY <1>4 DEF LoopEnds, WaitEnds
  <2>2. Holders' = Holders /\ Counted' = Counted
    BY <1>4 DEF LoopEnds, WaitEnds, Holders, Counted
  <2> QED
    BY <1>4, <2>1, <2>2 DEF LoopEnds, WaitEnds
<1>5. ASSUME NEW i \in Accounts, SendEnds(i) PROVE IInv'
  <2>1. Types' /\ Started'
    BY <1>5 DEF SendEnds
  <2>2. Holders' = Holders /\ Counted' = Counted
    BY <1>5 DEF SendEnds, Holders, Counted
  <2> QED
    BY <1>5, <2>1, <2>2 DEF SendEnds
<1>6. ASSUME NEW i \in Accounts, Release(i) PROVE IInv'
  <2>1. Types' /\ Started'
    BY <1>6 DEF Release
  <2>2. i \in Holders
    BY <1>6 DEF Release, Holders
  <2>3. Holders' = Holders \ {i} /\ Counted' = Counted
    BY <1>6 DEF Release, Holders, Counted
  <2> QED
    BY <1>6, <1>s, <2>1, <2>2, <2>3, CountAccounts DEF Release
<1>7. ASSUME NEW i \in Accounts, Finish(i) PROVE IInv'
  <2>1. i \in Counted
    BY <1>7 DEF Finish, Counted
  <2>2. wg > 0
    BY <1>s, <2>1, CountAccounts
  <2>3. Types' /\ Started'
    BY <1>7, <2>2 DEF Finish
  <2>4. Holders' = Holders /\ Counted' = Counted \ {i}
    BY <1>7 DEF Finish, Holders, Counted
  <2> QED
    BY <1>7, <1>s, <2>1, <2>3, <2>4, CountAccounts DEF Finish
<1>8. CASE UNCHANGED vars
  BY <1>8 DEF vars, Holders, Counted
<1> QED
  BY <1>1, <1>2, <1>3, <1>4, <1>5, <1>6, <1>7, <1>8
     DEF Next, Caller, Task, Terminated

\* Every reachable state satisfies the invariant.
THEOREM Invariance == Spec => []IInv
<1> QED BY InitInv, NextInv, PTL DEF Spec

\* What the invariant says of the properties.
LEMMA InvType == IInv => TypeOK
<1> SUFFICES ASSUME IInv PROVE TypeOK
  OBVIOUS
<1>1. Counted \in SUBSET Accounts
  BY DEF Counted
<1>2. wg <= Total
  BY <1>1, CountAccounts DEF IInv
<1> QED
  BY <1>2, LimitType DEF IInv, Types, TypeOK

LEMMA InvLimit == IInv => AtMostLimit
<1> SUFFICES ASSUME IInv PROVE AtMostLimit
  OBVIOUS
<1>1. Sending \in SUBSET Holders /\ Holders \in SUBSET Accounts
  BY DEF Sending, Holders
<1>2. /\ Cardinality(Sending) <= Cardinality(Holders)
      /\ Cardinality(Sending) \in Nat /\ Cardinality(Holders) \in Nat
  BY <1>1, CountAccounts, FS_Subset
<1> QED
  BY <1>2, LimitType DEF IInv, Types, AtMostLimit

LEMMA InvServed == IInv => ReturnsAfterAll
<1> SUFFICES ASSUME IInv, caller = "returned", NEW i \in Accounts
             PROVE  task[i] = "ended" /\ sends[i] = 1
  BY DEF ReturnsAfterAll
<1>1. Counted \in SUBSET Accounts
  BY DEF Counted
<1>2. Counted = {}
  BY <1>1, CountAccounts DEF IInv, Started
<1>3. task[i] # "none"
  BY DEF IInv, Started, Types, Accounts
<1>4. task[i] = "ended"
  BY <1>2, <1>3 DEF IInv, Types, TaskSteps, Counted
<1> QED
  BY <1>4 DEF IInv, Started

\* The channel and the WaitGroup stay within their ranges: no Done without an
\* Add, never more elements than the capacity (account.go:1554-1555).
THEOREM TypeCorrect == Spec => []TypeOK
  BY InvType, Invariance, PTL

\* At most the configured number of sends run at once, however many accounts
\* there are (account.go:1566-1569).
THEOREM LimitKept == Spec => []AtMostLimit
  BY InvLimit, Invariance, PTL

\* The call returns only when every account has been served exactly once
\* (account.go:1565-1581).
THEOREM ReturnServesAll == Spec => []ReturnsAfterAll
  BY InvServed, Invariance, PTL
=============================================================================
