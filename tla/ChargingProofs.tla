--------------------------- MODULE ChargingProofs ---------------------------
(***************************************************************************)
(* Charging for every number of accounts, limit and fault budget.  A step  *)
(* of the composition is a step or a stutter of each of its parts, so that *)
(* what ConcurrentSendProofs and RetrySenderProofs prove of them holds in  *)
(* it; what ties the parts together is that a goroutine transfers only     *)
(* once it is started, and goes on only once its transfer has returned.    *)
(***************************************************************************)
EXTENDS Charging, ConcurrentSendProofs

RP == INSTANCE RetrySenderProofs WITH
        Workers <- Accounts, Slaves <- {Reservoir},
        SlaveOf <- [i \in Accounts |-> Reservoir]

Begun  == \A i \in Accounts : pc[i] # "start" => task[i] # "none"
Served == \A i \in Accounts : \/ task[i] \in {"release", "finish", "ended"}
                              \/ pc[i] = "done"
                              => i \in RP!Executed

SenderInv == RP!IInv /\ RP!CInv
ChargeInv == IInv /\ SenderInv /\ Begun /\ Served

\* Counting is the same in both.
LEMMA SameFinite == \A S : RP!IsFiniteSet(S) <=> IsFiniteSet(S)
  BY DEF RP!IsFiniteSet, IsFiniteSet

LEMMA Counting == \A S : RP!Cardinality(S) = Cardinality(S)
  BY DEF RP!Cardinality, Cardinality

\* The assumption of the sender, as Charging fills its parameters in.
LEMMA Assumption == RP!RetryAssumption
<1>1. IsFiniteSet(Accounts)
  BY CountAccounts
<1> QED
  BY <1>1, SameFinite, ChargeAssumption DEF RP!RetryAssumption

\* The two instances of RetrySender are the same actions.
LEMMA SameInit == R!Init => RP!Init
  BY DEF R!Init, RP!Init

LEMMA SameWorker ==
    ASSUME NEW i \in Accounts, R!Worker(i) PROVE RP!Worker(i)
<1> USE DEF R!Goto, RP!Goto, R!Unlock, RP!Unlock, R!Forget, RP!Forget, R!Fault, RP!Fault,
            R!TxOf, RP!TxOf, R!Pooled, RP!Pooled, R!Fresh, RP!Fresh, R!account,
            RP!account, R!local, RP!local, R!node, RP!node
<1>1. R!Lock(i) => RP!Lock(i)
  BY DEF R!Lock, RP!Lock
<1>2. R!FetchNonce(i) => RP!FetchNonce(i)
  BY DEF R!FetchNonce, RP!FetchNonce
<1>3. R!FetchFails(i) => RP!FetchFails(i)
  BY DEF R!FetchFails, RP!FetchFails
<1>4. R!StoreNonce(i) => RP!StoreNonce(i)
  BY DEF R!StoreNonce, RP!StoreNonce
<1>5. R!LoadNonce(i) => RP!LoadNonce(i)
  BY DEF R!LoadNonce, RP!LoadNonce
<1>6. R!SendAccepted(i) => RP!SendAccepted(i)
  BY DEF R!SendAccepted, RP!SendAccepted
<1>7. R!SendRejected(i) => RP!SendRejected(i)
  BY DEF R!SendRejected, RP!SendRejected
<1>8. R!SendKnown(i) => RP!SendKnown(i)
  BY DEF R!SendKnown, RP!SendKnown, R!SendFailed, RP!SendFailed
<1>9. R!SendError(i) => RP!SendError(i)
  BY DEF R!SendError, RP!SendError, R!SendFailed, RP!SendFailed
<1>10. R!SendAnswerLost(i) => RP!SendAnswerLost(i)
  BY DEF R!SendAnswerLost, RP!SendAnswerLost, R!SendFailed, RP!SendFailed
<1>11. R!IncStore(i) => RP!IncStore(i)
  BY DEF R!IncStore, RP!IncStore
<1>12. R!Receipt(i) => RP!Receipt(i)
  BY DEF R!Receipt, RP!Receipt
<1>13. R!Timeout(i) => RP!Timeout(i)
  BY DEF R!Timeout, RP!Timeout, R!OnItsWay, RP!OnItsWay
<1>14. R!Reset(i) => RP!Reset(i)
  BY DEF R!Reset, RP!Reset, R!Overwrites, RP!Overwrites, R!InInc, RP!InInc
<1> QED
  BY <1>1, <1>2, <1>3, <1>4, <1>5, <1>6, <1>7, <1>8, <1>9, <1>10, <1>11, <1>12,
     <1>13, <1>14 DEF R!Worker, RP!Worker, R!Send, RP!Send

LEMMA SameNode ==
    /\ R!Mine => RP!Mine
    /\ R!Revert => RP!Revert
    /\ R!Drop => RP!Drop
  BY DEF R!Mine, RP!Mine, R!Revert, RP!Revert, R!Drop, RP!Drop, R!MineTx, RP!MineTx,
         R!DropTx, RP!DropTx, R!Fault, RP!Fault, R!account, RP!account, R!local, RP!local

\* A step of the composition is a step, or a stutter, of each part.
LEMMA BothParts ==
    [ChargeNext]_chargeVars => [Next]_vars /\ [RP!Next]_(RP!vars)
<1> SUFFICES ASSUME [ChargeNext]_chargeVars PROVE [Next]_vars /\ [RP!Next]_(RP!vars)
  OBVIOUS
<1>1. UNCHANGED senderVars => UNCHANGED RP!vars
  BY DEF senderVars, RP!vars, RP!account, RP!local, RP!node
<1>2. ASSUME NEW i \in Accounts, Transfer(i) PROVE [Next]_vars /\ [RP!Next]_(RP!vars)
  BY <1>2, SameWorker DEF Transfer, RP!Next
<1>3. ASSUME NEW i \in Accounts,
             TransferReturns(i) \/ ((Release(i) \/ Finish(i)) /\ UNCHANGED senderVars)
      PROVE  [Next]_vars /\ [RP!Next]_(RP!vars)
  BY <1>1, <1>3 DEF TransferReturns, Next, Task
<1>4. CASE (Caller \/ Terminated) /\ UNCHANGED senderVars
  BY <1>1, <1>4 DEF Next
<1>5. CASE (R!Mine \/ R!Revert \/ R!Drop) /\ UNCHANGED vars
  BY <1>5, SameNode DEF RP!Next
<1>6. CASE UNCHANGED chargeVars
  BY <1>1, <1>6 DEF chargeVars
<1> QED
  BY <1>2, <1>3, <1>4, <1>5, <1>6 DEF ChargeNext, Goroutine

\* What the sender's own proofs say of a step of the composition.
LEMMA SenderStep ==
    SenderInv /\ [ChargeNext]_chargeVars =>
        SenderInv' /\ [RP!Promise!Next]_(RP!Promise!vars)
<1> SUFFICES ASSUME SenderInv, [ChargeNext]_chargeVars
             PROVE  SenderInv' /\ [RP!Promise!Next]_(RP!Promise!vars)
  OBVIOUS
<1>1. [RP!Next]_(RP!vars)
  BY BothParts
<1>2. RP!IInv /\ [RP!Next]_(RP!vars) => RP!IInv'
  BY RP!NextInv, Assumption DEF RP!RetryAssumption
<1>3. RP!IInv /\ RP!Tracked /\ [RP!Next]_(RP!vars) => RP!Tracked'
  BY RP!TrackedStep, Assumption DEF RP!RetryAssumption
<1>4. RP!IInv /\ RP!CInv /\ [RP!Next]_(RP!vars) => RP!IsFiniteSet(pool') /\ RP!Paid'
  BY RP!PaidStep, Assumption DEF RP!RetryAssumption
<1>5. RP!TypeOK /\ [RP!Next]_(RP!vars) => [RP!Promise!Next]_(RP!Promise!vars)
  BY RP!StepKeepsPromise, Assumption DEF RP!RetryAssumption
<1> QED
  BY <1>1, <1>2, <1>3, <1>4, <1>5 DEF SenderInv, RP!IInv, RP!CInv

\* A goroutine transfers only once it is started (account.go:1571-1577).
LEMMA BegunStep == IInv /\ SenderInv /\ Begun /\ [ChargeNext]_chargeVars => Begun'
<1> SUFFICES ASSUME IInv, SenderInv, Begun, [ChargeNext]_chargeVars, NEW i \in Accounts,
                    pc'[i] # "start"
             PROVE  task'[i] # "none"
  BY DEF Begun
<1> USE DEF IInv, Types
<1>1. task[i] # "none" => task'[i] # "none"
  <2>1. [Next]_vars
    BY BothParts
  <2> QED
    BY <2>1 DEF Next, Caller, Acquire, Add, Spawn, LoopEnds, WaitEnds, Task, SendEnds,
           Release, Finish, Terminated, vars
<1>2. CASE pc[i] # "start"
  BY <1>1, <1>2 DEF Begun
<1>3. CASE pc[i] = "start"
  <2>1. ~UNCHANGED pc
    BY <1>3
  <2>2. ASSUME (R!Mine \/ R!Revert \/ R!Drop) PROVE UNCHANGED pc
    BY <2>2 DEF R!Mine, R!Revert, R!Drop, R!MineTx, R!DropTx
  <2>3. PICK j \in Accounts : Transfer(j)
    BY <2>1, <2>2 DEF ChargeNext, Goroutine, TransferReturns, senderVars, chargeVars
  <2> pc \in [Accounts -> RP!Steps]
    BY DEF SenderInv, RP!IInv, RP!TypeOK
  <2>4. j # i => pc'[i] = pc[i]
    BY <2>3 DEF Transfer, R!Worker, R!Send, R!Lock, R!FetchNonce, R!FetchFails,
           R!StoreNonce, R!LoadNonce, R!SendAccepted, R!SendRejected, R!SendKnown,
           R!SendError, R!SendAnswerLost, R!SendFailed, R!IncStore, R!Receipt,
           R!Timeout, R!Reset, R!Goto
  <2> QED
    BY <1>1, <1>3, <2>3, <2>4 DEF Transfer
<1> QED
  BY <1>2, <1>3

\* What is returned has been executed, and stays so.
LEMMA ServedStep ==
    IInv /\ SenderInv /\ Served /\ [ChargeNext]_chargeVars => Served'
<1> SUFFICES ASSUME IInv, SenderInv, Served, [ChargeNext]_chargeVars, NEW i \in Accounts,
                    task'[i] \in {"release", "finish", "ended"} \/ pc'[i] = "done"
             PROVE  i \in RP!Executed'
  BY DEF Served
<1>1. [RP!Promise!Next]_(RP!Promise!vars) /\ [Next]_vars
  BY SenderStep, BothParts
<1>2. RP!Executed \subseteq RP!Executed'
  BY <1>1 DEF RP!Promise!Next, RP!Promise!Execute, RP!Promise!Return, RP!Promise!vars
<1>3. CASE pc'[i] = "done"
  <2>1. i \in RP!Returned'
    BY <1>3 DEF RP!Returned
  <2>2. i \in RP!Returned => i \in RP!Executed
    BY DEF RP!Returned, Served
  <2>3. i \in RP!Returned \/ i \in RP!Executed
    BY <1>1, <2>1 DEF RP!Promise!Next, RP!Promise!Execute, RP!Promise!Return, RP!Promise!vars
  <2> QED
    BY <1>2, <2>2, <2>3
<1>4. CASE task'[i] \in {"release", "finish", "ended"}
  <2>1. CASE task[i] \in {"release", "finish", "ended"}
    BY <1>2, <2>1 DEF Served
  <2>2. CASE task[i] \notin {"release", "finish", "ended"}
    <3> task \in [Accounts -> TaskSteps]
      BY DEF IInv, Types
    <3>1. pc[i] = "done"
      BY <1>4, <2>2 DEF ChargeNext, Goroutine, Transfer, TransferReturns, Caller, Acquire,
             Add, Spawn, LoopEnds, WaitEnds, SendEnds, Release, Finish, Terminated,
             vars, chargeVars
    <3> QED
      BY <1>2, <3>1 DEF Served
  <2> QED
    BY <2>1, <2>2
<1> QED
  BY <1>3, <1>4

\* Every reachable state satisfies the invariant.
THEOREM ChargeInvariance == FairChargeSpec => []ChargeInv
<1>1. ChargeInit => ChargeInv
  <2> SUFFICES ASSUME ChargeInit PROVE ChargeInv
    OBVIOUS
  <2>1. IInv
    BY InitInv DEF ChargeInit
  <2>2. RP!IInv /\ RP!CInv
    BY SameInit, RP!InitBalance, Assumption DEF ChargeInit, RP!RetryAssumption
  <2>3. Begun /\ Served
    BY DEF Begun, Served, ChargeInit, Init, R!Init
  <2> QED
    BY <2>1, <2>2, <2>3 DEF ChargeInv, SenderInv
<1>2. ChargeInv /\ [ChargeNext]_chargeVars => ChargeInv'
  <2>1. IInv /\ [ChargeNext]_chargeVars => IInv'
    BY NextInv, BothParts
  <2> QED
    BY <2>1, SenderStep, BegunStep, ServedStep DEF ChargeInv
<1> QED
  BY <1>1, <1>2, PTL DEF FairChargeSpec

\* What is proved of the fan-out holds with real transfers in the goroutines.
THEOREM ChargeTypeCorrect == FairChargeSpec => []TypeOK
  BY InvType, ChargeInvariance, PTL DEF ChargeInv

\* At most the configured number of accounts are charged at once (account.go:1566-1569).
THEOREM ChargeLimitKept == FairChargeSpec => []AtMostLimit
  BY InvLimit, ChargeInvariance, PTL DEF ChargeInv

\* The deployment starts only when every goroutine has ended (main.go:117-125).
THEOREM ChargeServesAll == FairChargeSpec => []ReturnsAfterAll
  BY InvServed, ChargeInvariance, PTL DEF ChargeInv

\* When the charging is reported as finished (main.go:122), every account has
\* been paid by a transaction that the chain executed with success.
THEOREM AllPaidAlways == FairChargeSpec => []AllPaid
<1>1. ChargeInv => AllPaid
  <2> SUFFICES ASSUME ChargeInv, caller = "returned", NEW i \in Accounts
               PROVE  \E k \in DOMAIN chain : chain[k].to = i /\ chain[k].ok
    BY DEF AllPaid
  <2>1. task[i] = "ended"
    BY InvServed DEF ChargeInv, ReturnsAfterAll
  <2> QED
    BY <2>1 DEF ChargeInv, Served, RP!Executed
<1> QED
  BY <1>1, ChargeInvariance, PTL

\* A transfer beyond one for each started account needs a fault of its own: the
\* spare charges of the reservoir (main.go:104) are for faults only.
THEOREM AffordableAlways == FairChargeSpec => []Affordable
<1>1. ChargeInv => Affordable
  <2> DEFINE Open == {i \in Accounts : task[i] # "none"}
  <2> SUFFICES ASSUME ChargeInv, dropped = {}
               PROVE  Len(chain) + Cardinality(pool) <= Cardinality(Open) + (Budget - budget)
    BY DEF Affordable
  <2>1. RP!Live \subseteq Open
    BY DEF ChargeInv, Begun, RP!Live, RP!Earned
  <2>2. /\ Cardinality(RP!Live) <= Cardinality(Open)
        /\ Cardinality(RP!Live) \in Nat /\ Cardinality(Open) \in Nat
    BY <2>1, CountAccounts, FS_Subset
  <2>3. Len(chain) + Cardinality(pool) <= Cardinality(RP!Live) + (Budget - budget)
    BY Counting DEF ChargeInv, SenderInv, RP!CInv, RP!Paid
  <2>4. Len(chain) \in Nat /\ budget \in Nat /\ IsFiniteSet(pool)
    BY SameFinite, ChargeAssumption DEF ChargeInv, SenderInv, RP!CInv, RP!IInv, RP!TypeOK
  <2>5. Cardinality(pool) \in Nat
    BY <2>4, FS_CardinalityType
  <2> HIDE DEF Open
  <2> QED
    BY <2>2, <2>3, <2>4, <2>5, ChargeAssumption
<1> QED
  BY <1>1, ChargeInvariance, PTL
=============================================================================
