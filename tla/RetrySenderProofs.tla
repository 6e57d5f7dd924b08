------------------------ MODULE RetrySenderProofs ------------------------
(***************************************************************************)
(* RetrySender for every set of workers and slaves and every fault budget: *)
(* types, NoHole, HeldNonce, and the refinement of AtLeastOnce.            *)
(***************************************************************************)
EXTENDS RetrySender, FiniteSetTheorems, TLAPS

USE RetryAssumption

----------------------------------------------------------------------------
\* Every variable keeps its type (mirrors the declarations of Account,
\* account.go:46-55, and the node's view of the key).
LEMMA InitType == Init => TypeOK
  BY DEF Init, TypeOK, Steps

LEMMA NextType == TypeOK /\ [Next]_vars => TypeOK'
<1> SUFFICES ASSUME TypeOK, [Next]_vars PROVE TypeOK'
  OBVIOUS
<1> USE DEF TypeOK
<1>1. ASSUME NEW w \in Workers, Lock(w) PROVE TypeOK'
  BY <1>1 DEF Lock, Goto, local, node, Steps
<1>2. ASSUME NEW w \in Workers, FetchNonce(w) PROVE TypeOK'
  BY <1>2 DEF FetchNonce, Goto, account, node, Steps
<1>3. ASSUME NEW w \in Workers, FetchFails(w) PROVE TypeOK'
  BY <1>3 DEF FetchFails, Goto, Fault, account, local, node, Steps
<1>4. ASSUME NEW w \in Workers, StoreNonce(w) PROVE TypeOK'
  BY <1>4 DEF StoreNonce, Goto, local, node, Steps
<1>5. ASSUME NEW w \in Workers, LoadNonce(w) PROVE TypeOK'
  BY <1>5 DEF LoadNonce, Goto, account, node, Steps
<1>6. ASSUME NEW w \in Workers, SendAccepted(w) PROVE TypeOK'
  BY <1>6 DEF SendAccepted, Goto, TxOf, Tx, account, Steps
<1>7. ASSUME NEW w \in Workers, SendRejected(w) PROVE TypeOK'
  BY <1>7 DEF SendRejected, Goto, account, node, Steps
<1>8. ASSUME NEW w \in Workers, SendKnown(w) PROVE TypeOK'
  BY <1>8 DEF SendKnown, SendFailed, Unlock, Forget, Goto, Steps
<1>9. ASSUME NEW w \in Workers, SendError(w) PROVE TypeOK'
  BY <1>9 DEF SendError, SendFailed, Unlock, Forget, Goto, Fault, Steps
<1>10. ASSUME NEW w \in Workers, SendAnswerLost(w) PROVE TypeOK'
  BY <1>10 DEF SendAnswerLost, SendFailed, Unlock, Forget, Goto, Fault, TxOf,
               Tx, Steps
<1>11. ASSUME NEW w \in Workers, IncStore(w) PROVE TypeOK'
  <2>1. nonce' \in [Slaves -> Nat] /\ seen' \in [Workers -> Nat]
    BY <1>11 DEF IncStore
  <2>2. holder' \in [Slaves -> Workers \cup {NoWorker}]
    BY <1>11 DEF IncStore, Unlock
  <2>3. pc' \in [Workers -> Steps] /\ n' \in [Workers -> Nat]
    <3>1. \/ Goto(w, "wait") /\ UNCHANGED n
          \/ Goto(w, "start") /\ Forget(w)
      BY <1>11 DEF IncStore
    <3>2. CASE Goto(w, "wait") /\ UNCHANGED n
      BY <3>2 DEF Goto, Steps
    <3>3. CASE Goto(w, "start") /\ Forget(w)
      BY <3>3 DEF Goto, Forget, Steps
    <3> QED
      BY <3>1, <3>2, <3>3
  <2> QED
    BY <1>11, <2>1, <2>2, <2>3 DEF IncStore, node
<1>12. ASSUME NEW w \in Workers, Receipt(w) PROVE TypeOK'
  BY <1>12 DEF Receipt, Forget, Goto, account, node, Steps
<1>13. ASSUME NEW w \in Workers, Timeout(w) PROVE TypeOK'
  BY <1>13 DEF Timeout, Forget, Goto, Fault, account, node, Steps
<1>14. ASSUME NEW w \in Workers, Reset(w) PROVE TypeOK'
  BY <1>14 DEF Reset, Goto, Fault, local, node, Steps
<1>15. ASSUME NEW t \in pool, NEW ok \in BOOLEAN, MineTx(t, ok),
              budget' \in 0..Budget
       PROVE  TypeOK'
  BY <1>15 DEF MineTx, account, local, Tx, Mined
<1>16. ASSUME NEW t \in pool, DropTx(t) PROVE TypeOK'
  <2>1. t.nonce \in Nat
    BY DEF Tx
  <2>2. budget' \in 0..Budget
    BY <1>16 DEF DropTx, Fault
  <2> QED
    BY <1>16, <2>1, <2>2 DEF DropTx, account, local
<1>17. ASSUME UNCHANGED vars PROVE TypeOK'
  BY <1>17 DEF vars, account, local, node
<1>18. CASE \E w \in Workers : Worker(w)
  BY <1>18, <1>1, <1>2, <1>3, <1>4, <1>5, <1>6, <1>7, <1>8, <1>9, <1>10, <1>11,
     <1>12, <1>13, <1>14 DEF Worker, Send
<1>19. CASE Mine \/ Revert
  <2>1. CASE Mine
    BY <2>1, <1>15 DEF Mine
  <2>2. CASE Revert
    <3>1. budget' \in 0..Budget
      BY <2>2 DEF Revert, Fault
    <3> QED
      BY <2>2, <3>1, <1>15 DEF Revert
  <2> QED
    BY <1>19, <2>1, <2>2
<1>20. CASE Drop
  BY <1>20, <1>16 DEF Drop
<1> QED
  BY <1>17, <1>18, <1>19, <1>20 DEF Next, Terminated

\* Every reachable state has the declared types.
THEOREM TypeCorrect == Spec => []TypeOK
<1> QED BY InitType, NextType, PTL DEF Spec

----------------------------------------------------------------------------
(***************************************************************************)
(* NoHole is not inductive: nonce++ stores what was loaded before the      *)
(* answer came.  What makes its result safe is that a worker between the   *)
(* load of the nonce and the end of nonce++ owns the mutex, so the cached  *)
(* nonce is still the one it sent, or 0 after a reset.                     *)
(***************************************************************************)
Owns == \A w \in Workers : pc[w] \in Critical => holder[SlaveOf[w]] = w

Sending == \A w \in Workers :
    /\ pc[w] \in {"store", "send"} => Safe(n[w])
    /\ pc[w] = "send" => nonce[SlaveOf[w]] \in {n[w], 0}

Adding == \A w \in Workers : pc[w] \in InInc => Safe(seen[w] + 1)

IInv == TypeOK /\ Owns /\ Sending /\ Adding /\ NoHole /\ HeldNonce

\* The mutex: a worker in the critical section of sendRawTx holds it.
LEMMA OwnsStep == TypeOK /\ Owns /\ [Next]_vars => Owns'
<1> SUFFICES ASSUME TypeOK, Owns, [Next]_vars PROVE Owns'
  OBVIOUS
<1> USE DEF TypeOK, Owns, Critical, InInc, Goto
<1>1. ASSUME NEW w \in Workers, Lock(w) PROVE Owns'
  BY <1>1 DEF Lock
<1>2. ASSUME NEW w \in Workers,
             FetchNonce(w) \/ FetchFails(w) \/ StoreNonce(w) \/ LoadNonce(w)
      PROVE  Owns'
  BY <1>2 DEF FetchNonce, FetchFails, StoreNonce, LoadNonce, account
<1>3. ASSUME NEW w \in Workers, SendAccepted(w) \/ SendRejected(w)
      PROVE  Owns'
  BY <1>3 DEF SendAccepted, SendRejected, account
<1>4. ASSUME NEW w \in Workers, SendKnown(w) \/ SendError(w) \/ SendAnswerLost(w)
      PROVE  Owns'
  <2>1. /\ pc[w] = "send" /\ pc' = [pc EXCEPT ![w] = "start"]
        /\ holder' = [holder EXCEPT ![SlaveOf[w]] = NoWorker]
    BY <1>4 DEF SendKnown, SendError, SendAnswerLost, SendFailed, Unlock
  <2> QED
    BY <2>1
<1>5. ASSUME NEW w \in Workers, IncStore(w) PROVE Owns'
  BY <1>5 DEF IncStore, Unlock
<1>6. ASSUME NEW w \in Workers, Receipt(w) \/ Timeout(w) \/ Reset(w)
      PROVE  Owns'
  BY <1>6 DEF Receipt, Timeout, Reset, account
<1>7. CASE Mine \/ Revert \/ Drop \/ UNCHANGED vars
  BY <1>7 DEF Mine, Revert, Drop, MineTx, DropTx, vars, account
<1>8. CASE \E w \in Workers : Worker(w)
  BY <1>8, <1>1, <1>2, <1>3, <1>4, <1>5, <1>6 DEF Worker, Send
<1> QED
  BY <1>7, <1>8 DEF Next, Terminated

\* The node never takes a nonce back: what is used up stays so, mined
\* transactions leave the pool for the chain and dropped ones are remembered.
LEMMA UsedGrows == TypeOK /\ [Next]_vars => Used \subseteq Used'
<1> SUFFICES ASSUME TypeOK, [Next]_vars PROVE Used \subseteq Used'
  OBVIOUS
<1> USE DEF TypeOK, Used
<1>1. CASE UNCHANGED node
  BY <1>1 DEF node
<1>2. ASSUME NEW w \in Workers, SendAccepted(w) \/ SendAnswerLost(w)
      PROVE  Used \subseteq Used'
  BY <1>2 DEF SendAccepted, SendAnswerLost, SendFailed
<1>3. ASSUME NEW t \in pool, NEW ok \in BOOLEAN, MineTx(t, ok)
      PROVE  Used \subseteq Used'
  <2>1. Len(chain') = Len(chain) + 1 /\ Len(chain) \in Nat
    BY <1>3 DEF MineTx
  <2> QED
    BY <1>3, <2>1 DEF MineTx, Tx
<1>4. ASSUME NEW t \in pool, DropTx(t) PROVE Used \subseteq Used'
  BY <1>4 DEF DropTx
<1>5. CASE Mine \/ Revert \/ Drop
  BY <1>5, <1>3, <1>4 DEF Mine, Revert, Drop
<1>6. CASE \E w \in Workers : Worker(w)
  <2> PICK w \in Workers : Worker(w)
    BY <1>6
  <2>1. UNCHANGED node \/ SendAccepted(w) \/ SendAnswerLost(w)
    BY DEF Worker, Send, Lock, FetchNonce, FetchFails, StoreNonce, LoadNonce,
           SendRejected, SendKnown, SendError, SendFailed, IncStore, Receipt,
           Timeout, Reset, node
  <2> QED
    BY <2>1, <1>1, <1>2
<1> QED
  BY <1>1, <1>5, <1>6 DEF Next, Terminated, vars, node

\* A node that has every nonce below a, and a, has every nonce below b + 1.
LEMMA Absorb ==
    ASSUME NEW U, NEW a \in Nat, NEW b \in {a, 0}, 0..(a - 1) \subseteq U, a \in U
    PROVE  0..((b + 1) - 1) \subseteq U
  OBVIOUS

\* The invariant holds before any worker starts.
LEMMA InitInv == Init => IInv
<1> SUFFICES ASSUME Init PROVE IInv
  OBVIOUS
<1>1. TypeOK
  BY InitType
<1>2. NoHole
  BY DEF Init, NoHole, Safe
<1> QED
  BY <1>1, <1>2 DEF Init, IInv, Owns, Sending, Adding, HeldNonce, Critical, InInc

\* One case per action; the sends are the ones with something to show.
LEMMA NextInv == IInv /\ [Next]_vars => IInv'
<1> SUFFICES ASSUME IInv, [Next]_vars PROVE IInv'
  OBVIOUS
<1> DEFINE Parts == Sending /\ Adding /\ NoHole /\ HeldNonce
<1>t. TypeOK /\ TypeOK'
  BY NextType DEF IInv
<1>o. Owns /\ Owns'
  BY OwnsStep DEF IInv
<1>u. Used \subseteq Used'
  BY UsedGrows DEF IInv
<1> USE <1>t, <1>o, <1>u DEF IInv, TypeOK, Owns, Sending, Adding, NoHole,
      HeldNonce, Safe, Critical, InInc, Goto
<1>1. ASSUME NEW w \in Workers, Lock(w) PROVE Parts'
  BY <1>1 DEF Lock, local, node
<1>2. ASSUME NEW w \in Workers, FetchNonce(w) PROVE Parts'
  <2>1. 0..(Len(chain) - 1) \subseteq Used'
    BY DEF Used
  <2> QED
    BY <1>2, <2>1 DEF FetchNonce, account, node
<1>3. ASSUME NEW w \in Workers, FetchFails(w) PROVE Parts'
  BY <1>3 DEF FetchFails, account, local, node
<1>4. ASSUME NEW w \in Workers, StoreNonce(w) PROVE Parts'
  BY <1>4 DEF StoreNonce, local, node
<1>5. ASSUME NEW w \in Workers, LoadNonce(w) PROVE Parts'
  BY <1>5 DEF LoadNonce, account, node
<1>6. ASSUME NEW w \in Workers, SendAccepted(w) PROVE Parts'
  <2>1. n[w] \in Used'
    <3>1. TxOf(w) \in pool' /\ TxOf(w).nonce = n[w]
      BY <1>6 DEF SendAccepted, TxOf
    <3> QED
      BY <3>1 DEF Used
  <2>2. 0..((nonce[SlaveOf[w]] + 1) - 1) \subseteq Used'
    <3>1. /\ n[w] \in Nat /\ nonce[SlaveOf[w]] \in {n[w], 0}
          /\ 0..(n[w] - 1) \subseteq Used'
      BY <1>6 DEF SendAccepted
    <3> QED
      BY <3>1, <2>1, Absorb
  <2>3. \A t \in pool' : 0..(t.nonce - 1) \subseteq Used'
    BY <1>6 DEF SendAccepted, TxOf
  <2>4. Adding' /\ HeldNonce'
    BY <1>6, <2>2 DEF SendAccepted, account
  <2> QED
    BY <1>6, <2>3, <2>4 DEF SendAccepted, account
<1>7. ASSUME NEW w \in Workers, SendRejected(w) PROVE Parts'
  <2>1. n[w] \in Used'
    <3>1. n[w] \in 0..(Len(chain) - 1) \/ Pooled(n[w])
      BY <1>7 DEF SendRejected
    <3>2. n[w] \in Used
      BY <3>1 DEF Pooled, Used
    <3> QED
      BY <3>2
  <2>2. 0..((nonce[SlaveOf[w]] + 1) - 1) \subseteq Used'
    <3>1. /\ n[w] \in Nat /\ nonce[SlaveOf[w]] \in {n[w], 0}
          /\ 0..(n[w] - 1) \subseteq Used'
      BY <1>7 DEF SendRejected
    <3> QED
      BY <3>1, <2>1, Absorb
  <2>3. Adding' /\ HeldNonce'
    BY <1>7, <2>2 DEF SendRejected, account
  <2> QED
    BY <1>7, <2>3 DEF SendRejected, account, node
<1>8. ASSUME NEW w \in Workers, SendKnown(w) \/ SendError(w) PROVE Parts'
  <2>1. /\ pc' = [pc EXCEPT ![w] = "start"] /\ n' = [n EXCEPT ![w] = 0]
        /\ UNCHANGED <<nonce, seen, chain, pool, dropped>>
    BY <1>8 DEF SendKnown, SendError, SendFailed, Forget
  <2>2. \A v \in Workers : pc'[v] \in Critical => pc[v] = pc'[v] /\ n'[v] = n[v]
    BY <2>1
  <2>3. Sending' /\ Adding' /\ HeldNonce'
    BY <2>1, <2>2
  <2>4. NoHole'
    BY <2>1, <2>2
  <2> QED
    BY <2>3, <2>4
<1>9. ASSUME NEW w \in Workers, SendAnswerLost(w) PROVE Parts'
  <2>1. \A t \in pool' : 0..(t.nonce - 1) \subseteq Used'
    BY <1>9 DEF SendAnswerLost, TxOf
  <2>2. Sending' /\ Adding' /\ HeldNonce'
    BY <1>9 DEF SendAnswerLost, SendFailed, Unlock, Forget
  <2> QED
    BY <1>9, <2>1, <2>2 DEF SendAnswerLost, SendFailed
<1>10. ASSUME NEW w \in Workers, IncStore(w) PROVE Parts'
  <2>1. \A v \in Workers : /\ pc'[v] \in {"store", "send"} => pc[v] = pc'[v]
                           /\ pc'[v] \in InInc => pc[v] \in InInc
                           /\ v # w /\ pc'[v] \in Critical => SlaveOf[v] # SlaveOf[w]
    BY <1>10 DEF IncStore
  <2>2. \A v \in Workers : pc'[v] \in Critical => n'[v] = n[v] /\ seen'[v] = seen[v]
                                                  /\ v # w
    BY <1>10 DEF IncStore, Forget
  <2>3. \A s \in Slaves : nonce'[s] = IF s = SlaveOf[w] THEN seen[w] + 1 ELSE nonce[s]
    BY <1>10 DEF IncStore
  <2>4. 0..((seen[w] + 1) - 1) \subseteq Used'
    BY <1>10 DEF IncStore
  <2>5. NoHole'
    BY <1>10, <2>1, <2>2, <2>3, <2>4 DEF IncStore, node
  <2> QED
    BY <2>1, <2>2, <2>3, <2>5
<1>11. ASSUME NEW w \in Workers, Receipt(w) \/ Timeout(w) PROVE Parts'
  <2>1. \A v \in Workers : pc'[v] \in Critical => pc[v] = pc'[v] /\ n'[v] = n[v]
    BY <1>11 DEF Receipt, Timeout, Forget
  <2> QED
    BY <1>11, <2>1 DEF Receipt, Timeout, account, node
<1>12. ASSUME NEW w \in Workers, Reset(w) PROVE Parts'
  BY <1>12 DEF Reset, local, node
<1>13. ASSUME NEW t \in pool, NEW ok \in BOOLEAN, MineTx(t, ok)
       PROVE  Parts'
  BY <1>13 DEF MineTx, account, local
<1>14. ASSUME NEW t \in pool, DropTx(t) PROVE Parts'
  BY <1>14 DEF DropTx, account, local
<1>15. CASE UNCHANGED vars
  BY <1>15 DEF vars, account, local, node
<1>16. CASE \E w \in Workers : Worker(w)
  BY <1>16, <1>1, <1>2, <1>3, <1>4, <1>5, <1>6, <1>7, <1>8, <1>9, <1>10,
     <1>11, <1>12 DEF Worker, Send
<1>17. CASE Mine \/ Revert \/ Drop
  BY <1>17, <1>13, <1>14 DEF Mine, Revert, Drop
<1> QED
  BY <1>15, <1>16, <1>17 DEF Next, Terminated

\* No interleaving of sends, retries and resets, under any number of faults,
\* leaves a hole in the nonces given to the node (account.go:89-147).
THEOREM NoHoleAlways == Spec => []NoHole
<1>1. IInv => NoHole
  BY DEF IInv
<1> QED
  BY <1>1, InitInv, NextInv, PTL DEF Spec

\* Between the load and the store of nonce++ only an unlocked reset writes the
\* cached nonce: two senders of one process never race (account.go:135-147).
THEOREM HeldNonceAlways == Spec => []HeldNonce
<1>1. IInv => HeldNonce
  BY DEF IInv
<1> QED
  BY <1>1, InitInv, NextInv, PTL DEF Spec

----------------------------------------------------------------------------
\* A mined transaction that succeeds executes its transfer, a receipt of
\* success returns one that is executed; nothing else shows to the caller.
LEMMA StepKeepsPromise ==
    TypeOK /\ [Next]_vars => [Promise!Next]_(Promise!vars)
<1> SUFFICES ASSUME TypeOK, [Next]_vars
             PROVE  Promise!Next \/ (Executed' = Executed /\ Returned' = Returned)
  BY DEF Promise!vars
<1> USE DEF TypeOK
<1>1. ASSUME NEW t \in pool, NEW ok \in BOOLEAN, MineTx(t, ok)
      PROVE  Promise!Next \/ (Executed' = Executed /\ Returned' = Returned)
  <2>1. Returned' = Returned
    BY <1>1 DEF MineTx, Returned
  <2>2. /\ t.to \in Workers /\ Len(chain) \in Nat
        /\ Len(chain') = Len(chain) + 1
        /\ chain'[Len(chain) + 1] = [to |-> t.to, ok |-> ok]
        /\ \A i \in 1..Len(chain) : chain'[i] = chain[i]
    BY <1>1 DEF MineTx, Tx
  <2>3. DOMAIN chain = 1..Len(chain) /\ DOMAIN chain' = 1..(Len(chain) + 1)
    BY <1>1, <2>2 DEF MineTx
  <2> DEFINE Paid(c, i, w) == c[i].to = w /\ c[i].ok
  <2>4. \A w : Paid(chain', Len(chain) + 1, w) <=> w = t.to /\ ok
    BY <2>2
  <2>5. \A w : (\E i \in DOMAIN chain' : Paid(chain', i, w))
                 <=> \/ \E i \in DOMAIN chain : Paid(chain, i, w)
                     \/ w = t.to /\ ok
    <3> SUFFICES ASSUME NEW w
                 PROVE  (\E i \in DOMAIN chain' : Paid(chain', i, w))
                          <=> \/ \E i \in DOMAIN chain : Paid(chain, i, w)
                              \/ w = t.to /\ ok
      OBVIOUS
    <3>1. \A i \in DOMAIN chain : Paid(chain', i, w) <=> Paid(chain, i, w)
      BY <2>2, <2>3
    <3>2. DOMAIN chain' = DOMAIN chain \cup {Len(chain) + 1}
      BY <2>2, <2>3
    <3> HIDE DEF Paid
    <3> QED
      BY <2>4, <3>1, <3>2
  <2>6. Executed' = IF ok THEN Executed \cup {t.to} ELSE Executed
    <3>1. Executed = {w \in Workers : \E i \in DOMAIN chain : Paid(chain, i, w)}
      BY DEF Executed
    <3>2. Executed' = {w \in Workers : \E i \in DOMAIN chain' : Paid(chain', i, w)}
      BY DEF Executed
    <3> HIDE DEF Paid
    <3> QED
      BY <2>2, <2>5, <3>1, <3>2
  <2> QED
    BY <2>1, <2>2, <2>6 DEF Promise!Next, Promise!Execute
<1>2. ASSUME NEW w \in Workers, Receipt(w)
      PROVE  Promise!Next \/ (Executed' = Executed /\ Returned' = Returned)
  <2>1. Executed' = Executed
    BY <1>2 DEF Receipt, node, Executed
  <2>2. CASE chain[n[w] + 1].ok
    <3>1. n[w] + 1 \in DOMAIN chain
      BY <1>2 DEF Receipt
    <3>2. w \in Executed
      BY <1>2, <2>2, <3>1 DEF Receipt, Executed
    <3>3. Returned' = Returned \cup {w}
      BY <1>2, <2>2 DEF Receipt, Goto, Returned
    <3> QED
      BY <2>1, <3>2, <3>3 DEF Promise!Next, Promise!Return
  <2>3. CASE ~chain[n[w] + 1].ok
    <3>1. Returned' = Returned
      BY <1>2, <2>3 DEF Receipt, Goto, Returned
    <3> QED
      BY <2>1, <3>1
  <2> QED
    BY <2>2, <2>3
<1>3. ASSUME NEW w \in Workers, Worker(w), ~Receipt(w)
      PROVE  Executed' = Executed /\ Returned' = Returned
  <2>1. UNCHANGED chain
    BY <1>3 DEF Worker, Send, Lock, FetchNonce, FetchFails, StoreNonce,
                LoadNonce, SendAccepted, SendRejected, SendKnown, SendError,
                SendAnswerLost, SendFailed, IncStore, Timeout, Reset, node
  <2>2. \E step \in Steps \ {"done"} : pc[w] # "done" /\ Goto(w, step)
    BY <1>3 DEF Worker, Send, Lock, FetchNonce, FetchFails, StoreNonce,
                LoadNonce, SendAccepted, SendRejected, SendKnown, SendError,
                SendAnswerLost, SendFailed, IncStore, Timeout, Reset, Steps
  <2>3. Returned' = Returned
    BY <2>2 DEF Goto, Returned
  <2> QED
    BY <2>1, <2>3 DEF Executed
<1>4. CASE Drop \/ UNCHANGED vars
  BY <1>4 DEF Drop, DropTx, vars, node, Executed, Returned
<1>5. CASE Mine \/ Revert
  BY <1>5, <1>1 DEF Mine, Revert
<1> QED
  BY <1>2, <1>3, <1>4, <1>5 DEF Next, Terminated

\* RunWithRetry implements AtLeastOnce: it returns only once its transfer has
\* been executed successfully (account.go:113-115).
THEOREM RetryKeepsPromise == Spec => ReturnsOnlyExecuted
<1>1. Init => Promise!Init
  BY DEF Init, Promise!Init, Executed, Returned
<1> QED
  BY <1>1, TypeCorrect, StepKeepsPromise, PTL
     DEF Spec, ReturnsOnlyExecuted, Promise!Spec

----------------------------------------------------------------------------
(***************************************************************************)
(* How many transactions are sent.  A worker has earned one where it waits *)
(* for one that has not reverted, or is done; every other one needs a      *)
(* fault.  As long as the node drops nothing, the transaction a worker     *)
(* waits for is in the pool or in a block, and what is in the pool can be  *)
(* mined: with no hole below it, only a fault makes the wait time out.     *)
(***************************************************************************)
Reverted(w) == n[w] < Len(chain) /\ chain[n[w] + 1] = [to |-> w, ok |-> FALSE]

Earned(w) == \/ pc[w] = "done"
             \/ pc[w] \in {"accepted", "wait"} /\ ~Reverted(w)

Live == {w \in Workers : Earned(w)}

Tracked ==
    dropped = {} =>
        \A w \in Workers : pc[w] \in {"accepted", "wait"} =>
            \/ TxOf(w) \in pool
            \/ n[w] < Len(chain) /\ chain[n[w] + 1].to = w

Paid ==
    dropped = {} =>
        Len(chain) + Cardinality(pool) <= Cardinality(Live) + (Budget - budget)

CInv == IsFiniteSet(pool) /\ Tracked /\ Paid

\* Sets of workers are finite, and counted by taking one away.
LEMMA CountWorkers ==
    ASSUME NEW S \in SUBSET Workers, NEW T \in SUBSET Workers
    PROVE  /\ Cardinality(S) \in Nat
           /\ S \subseteq T => Cardinality(S) <= Cardinality(T)
           /\ \A w \in Workers : S \subseteq T \cup {w} => Cardinality(S) <= Cardinality(T) + 1
           /\ \A w \in Workers \ S : Cardinality(S \cup {w}) = Cardinality(S) + 1
<1>1. \A U \in SUBSET Workers : IsFiniteSet(U) /\ Cardinality(U) \in Nat
  BY FS_Subset, FS_CardinalityType
<1>2. ASSUME NEW w \in Workers, S \subseteq T \cup {w}
      PROVE  Cardinality(S) <= Cardinality(T) + 1
  <2>1. Cardinality(S) <= Cardinality(T \cup {w}) /\ IsFiniteSet(T \cup {w})
    BY <1>1, <1>2, FS_Subset
  <2>2. Cardinality(T \cup {w}) <= Cardinality(T) + 1
    BY <1>1, FS_AddElement
  <2> QED
    BY <1>1, <2>1, <2>2
<1> QED
  BY <1>1, <1>2, FS_Subset, FS_AddElement

\* The pool grows by one and shrinks by one.
LEMMA CountPool ==
    ASSUME NEW P, IsFiniteSet(P), NEW t
    PROVE  /\ Cardinality(P) \in Nat
           /\ IsFiniteSet(P \cup {t}) /\ IsFiniteSet(P \ {t})
           /\ Cardinality(P \cup {t}) = IF t \in P THEN Cardinality(P) ELSE Cardinality(P) + 1
           /\ Cardinality(P \ {t}) = IF t \in P THEN Cardinality(P) - 1 ELSE Cardinality(P)
  BY FS_AddElement, FS_RemoveElement, FS_CardinalityType

\* What a block does to the chain, and to the worker of its transaction.
LEMMA Mined1 ==
    ASSUME TypeOK, NEW t \in pool, NEW ok \in BOOLEAN, MineTx(t, ok)
    PROVE  /\ Len(chain) \in Nat /\ Len(chain') = Len(chain) + 1
           /\ chain'[Len(chain) + 1] = [to |-> t.to, ok |-> ok]
           /\ \A i \in 1..Len(chain) : chain'[i] = chain[i]
           /\ \A w \in Workers :
                 Reverted(w)' <=> \/ Reverted(w)
                                  \/ n[w] = Len(chain) /\ w = t.to /\ ~ok
<1>1. /\ Len(chain) \in Nat /\ Len(chain') = Len(chain) + 1
      /\ chain'[Len(chain) + 1] = [to |-> t.to, ok |-> ok]
      /\ \A i \in 1..Len(chain) : chain'[i] = chain[i]
  BY DEF TypeOK, MineTx
<1>2. n' = n
  BY DEF MineTx, local
<1>3. ASSUME NEW w \in Workers
      PROVE  Reverted(w)' <=> \/ Reverted(w)
                              \/ n[w] = Len(chain) /\ w = t.to /\ ~ok
  <2>1. n[w] \in Nat
    BY DEF TypeOK
  <2>2. CASE n[w] < Len(chain)
    BY <1>1, <1>2, <2>1, <2>2 DEF Reverted
  <2>3. CASE n[w] = Len(chain)
    <3>1. Reverted(w)' <=> chain'[Len(chain) + 1] = [to |-> w, ok |-> FALSE]
      BY <1>1, <1>2, <2>1, <2>3 DEF Reverted
    <3>2. ~Reverted(w)
      BY <2>3 DEF Reverted
    <3>3. [to |-> t.to, ok |-> ok] = [to |-> w, ok |-> FALSE] <=> t.to = w /\ ~ok
      OBVIOUS
    <3> QED
      BY <1>1, <2>3, <3>1, <3>2, <3>3
  <2>4. CASE n[w] > Len(chain)
    BY <1>1, <1>2, <2>1, <2>4 DEF Reverted
  <2> QED
    BY <1>1, <2>1, <2>2, <2>3, <2>4
<1> QED
  BY <1>1, <1>3

\* While nothing is dropped, what a worker waits for gets to it.
LEMMA NeverStuck ==
    ASSUME IInv, Tracked, dropped = {}, NEW w \in Workers, pc[w] = "wait"
    PROVE  OnItsWay(w)
<1> USE DEF IInv, TypeOK
<1>1. CASE n[w] < Len(chain) /\ chain[n[w] + 1].to = w
  BY <1>1 DEF OnItsWay
<1>2. CASE TxOf(w) \in pool
  <2>1. TxOf(w).nonce = n[w] /\ n[w] \in Nat
    BY DEF TxOf
  <2>2. 0..(n[w] - 1) \subseteq Used
    BY <1>2, <2>1 DEF NoHole, Safe
  <2>3. ASSUME NEW m \in Len(chain)..n[w] PROVE Pooled(m)
    <3>1. CASE m = n[w]
      BY <1>2, <2>1, <3>1 DEF Pooled
    <3>2. CASE m # n[w]
      <4>1. m \in Nat /\ m >= Len(chain) /\ m \in 0..(n[w] - 1)
        BY <2>1, <3>2
      <4>2. m \in Used
        BY <2>2, <4>1
      <4> QED
        BY <4>1, <4>2 DEF Used, Pooled
    <3> QED
      BY <3>1, <3>2
  <2> QED
    BY <1>2, <2>3 DEF OnItsWay
<1> QED
  BY <1>1, <1>2 DEF Tracked

LEMMA TrackedStep == IInv /\ Tracked /\ [Next]_vars => Tracked'
<1> SUFFICES ASSUME IInv, Tracked, [Next]_vars, dropped' = {}, NEW v \in Workers,
                    pc'[v] \in {"accepted", "wait"}
             PROVE  (TxOf(v) \in pool \/ (n[v] < Len(chain) /\ chain[n[v] + 1].to = v))'
  BY DEF Tracked
<1> USE DEF IInv, TypeOK
<1> DEFINE Known == (TxOf(v) \in pool \/ (n[v] < Len(chain) /\ chain[n[v] + 1].to = v))
<1>0. dropped = {}
  <2>1. dropped \subseteq dropped'
    BY DEF Next, Worker, Send, Lock, FetchNonce, FetchFails, StoreNonce, LoadNonce,
           SendAccepted, SendRejected, SendKnown, SendError, SendAnswerLost,
           SendFailed, IncStore, Receipt, Timeout, Reset, node, Mine, Revert,
           MineTx, Drop, DropTx, Terminated, vars
  <2> QED
    BY <2>1
<1>1. pc[v] \in {"accepted", "wait"} => Known
  BY <1>0 DEF Tracked
<1>2. ASSUME NEW w \in Workers, SendAccepted(w) PROVE Known'
  <2>1. CASE v = w
    <3>1. TxOf(v)' = TxOf(v) /\ TxOf(v) \in pool'
      BY <1>2, <2>1 DEF SendAccepted, TxOf
    <3> QED
      BY <3>1
  <2>2. CASE v # w
    <3>1. pc[v] = pc'[v] /\ TxOf(v)' = TxOf(v) /\ n'[v] = n[v] /\ chain' = chain
      BY <1>2, <2>2 DEF SendAccepted, Goto, TxOf
    <3> QED
      BY <1>1, <1>2, <3>1 DEF SendAccepted
  <2> QED
    BY <2>1, <2>2
<1>3. ASSUME NEW w \in Workers, Worker(w), ~SendAccepted(w) PROVE Known'
  <2>1. pc[v] \in {"accepted", "wait"} /\ n'[v] = n[v]
    BY <1>3 DEF Worker, Send, Lock, FetchNonce, FetchFails, StoreNonce, LoadNonce,
           SendRejected, SendKnown, SendError, SendAnswerLost, SendFailed, IncStore,
           Receipt, Timeout, Reset, Goto, Forget, local
  <2>2. pool \subseteq pool' /\ chain' = chain
    BY <1>3 DEF Worker, Send, Lock, FetchNonce, FetchFails, StoreNonce, LoadNonce,
           SendRejected, SendKnown, SendError, SendAnswerLost, SendFailed, IncStore,
           Receipt, Timeout, Reset, node
  <2>3. TxOf(v)' = TxOf(v)
    BY <2>1 DEF TxOf
  <2> QED
    BY <1>1, <2>1, <2>2, <2>3
<1>4. ASSUME NEW t \in pool, NEW ok \in BOOLEAN, MineTx(t, ok) PROVE Known'
  <2>1. n'[v] = n[v] /\ pc'[v] = pc[v] /\ TxOf(v)' = TxOf(v) /\ Known /\ n[v] \in Nat
    BY <1>1, <1>4 DEF MineTx, local, TxOf
  <2>2. /\ Len(chain) \in Nat /\ Len(chain') = Len(chain) + 1
        /\ chain'[Len(chain) + 1] = [to |-> t.to, ok |-> ok]
        /\ \A i \in 1..Len(chain) : chain'[i] = chain[i]
    BY <1>4, Mined1
  <2>3. CASE n[v] < Len(chain) /\ chain[n[v] + 1].to = v
    <3>1. n[v] + 1 \in 1..Len(chain)
      BY <2>1, <2>2, <2>3
    <3>2. n'[v] < Len(chain') /\ chain'[n'[v] + 1].to = v
      BY <2>1, <2>2, <2>3, <3>1
    <3> QED
      BY <3>2
  <2>4. CASE TxOf(v) \in pool /\ TxOf(v) # t
    BY <1>4, <2>1, <2>4 DEF MineTx
  <2>5. CASE TxOf(v) = t
    <3>1. t.nonce = Len(chain) /\ t.nonce = n[v] /\ t.to = v
      BY <1>4, <2>5 DEF MineTx, TxOf
    <3>2. n'[v] < Len(chain') /\ chain'[n'[v] + 1].to = v
      BY <2>1, <2>2, <3>1
    <3> QED
      BY <3>2
  <2> QED
    BY <2>1, <2>3, <2>4, <2>5
<1>5. CASE Drop
  BY <1>5 DEF Drop, DropTx
<1>6. CASE UNCHANGED vars
  <2>1. UNCHANGED <<pc, n, chain, pool>>
    BY <1>6 DEF vars, local, node
  <2> QED
    BY <1>1, <2>1 DEF TxOf
<1> QED
  BY <1>2, <1>3, <1>4, <1>5, <1>6 DEF Next, Mine, Revert, Terminated

LEMMA PaidStep ==
    IInv /\ CInv /\ [Next]_vars => IsFiniteSet(pool)' /\ Paid'
<1> SUFFICES ASSUME IInv, CInv, [Next]_vars PROVE IsFiniteSet(pool)' /\ Paid'
  OBVIOUS
<1> USE DEF IInv, CInv, TypeOK
<1> DEFINE Taken == Len(chain) + Cardinality(pool)
           Bound == Cardinality(Live) + (Budget - budget)
<1>n. /\ Len(chain) \in Nat /\ Cardinality(pool) \in Nat
      /\ budget \in Nat /\ Budget \in Nat
      /\ Live \in SUBSET Workers /\ Cardinality(Live) \in Nat
  <2>1. Len(chain) \in Nat /\ budget \in Nat /\ Live \in SUBSET Workers
    BY DEF Live
  <2>2. Cardinality(pool) \in Nat
    BY CountPool
  <2> QED
    BY <2>1, <2>2, CountWorkers
<1>t. Live' \in SUBSET Workers /\ Cardinality(Live') \in Nat
  <2>1. Live' \in SUBSET Workers
    BY DEF Live
  <2> QED
    BY <2>1, CountWorkers
<1>p. dropped = {} => Len(chain) + Cardinality(pool) <= Cardinality(Live) + (Budget - budget)
  BY DEF Paid
\* The three ways in which a step keeps the balance.
<1>a. ASSUME UNCHANGED <<chain, pool>>, dropped' = {} => dropped = {},
             Live \subseteq Live', budget' = budget \/ budget' = budget - 1
      PROVE  IsFiniteSet(pool)' /\ Paid'
  <2>1. Cardinality(Live) <= Cardinality(Live')
    BY <1>a, <1>n, <1>t, CountWorkers
  <2>2. IsFiniteSet(pool') /\ pool' = pool /\ chain' = chain
    BY <1>a
  <2> QED
    <3> HIDE DEF IInv, CInv, TypeOK
    <3>1. dropped' = {} => Len(chain') + Cardinality(pool')
                             <= Cardinality(Live') + (Budget - budget')
      BY <1>a, <1>n, <1>t, <1>p, <2>1, <2>2
    <3> QED
      BY <2>2, <3>1 DEF Paid
<1>b. ASSUME NEW t, t \notin pool, pool' = pool \cup {t}, chain' = chain,
             dropped' = {} => dropped = {}, Live \subseteq Live',
             \/ budget' = budget - 1
             \/ /\ budget' = budget
                /\ \E w \in Workers \ Live : Live' = Live \cup {w}
      PROVE  IsFiniteSet(pool)' /\ Paid'
  <2>1. IsFiniteSet(pool') /\ Cardinality(pool') = Cardinality(pool) + 1
    BY <1>b, CountPool
  <2>2. \/ budget' = budget - 1 /\ Cardinality(Live) <= Cardinality(Live')
        \/ budget' = budget /\ Cardinality(Live') = Cardinality(Live) + 1
    BY <1>b, <1>n, <1>t, CountWorkers
  <2> QED
    <3> HIDE DEF IInv, CInv, TypeOK
    <3> QED
      BY <1>b, <1>n, <1>t, <1>p, <2>1, <2>2 DEF Paid
<1>c. ASSUME Len(chain') + Cardinality(pool') = Len(chain) + Cardinality(pool),
             IsFiniteSet(pool'), dropped' = {} => dropped = {},
             \/ budget' = budget /\ Live \subseteq Live'
             \/ budget' = budget - 1 /\ \E w \in Workers : Live \subseteq Live' \cup {w}
      PROVE  IsFiniteSet(pool)' /\ Paid'
  <2>1. \/ budget' = budget /\ Cardinality(Live) <= Cardinality(Live')
        \/ budget' = budget - 1 /\ Cardinality(Live) <= Cardinality(Live') + 1
    BY <1>c, <1>n, <1>t, CountWorkers
  <2> QED
    <3>1. IsFiniteSet(pool') /\ Cardinality(pool') \in Nat
      BY <1>c, FS_CardinalityType
    <3>2. Len(chain') + Cardinality(pool') = Len(chain) + Cardinality(pool)
      BY <1>c
    <3> HIDE DEF IInv, CInv, TypeOK
    <3>3. dropped' = {} => Len(chain') + Cardinality(pool')
                             <= Cardinality(Live') + (Budget - budget')
      BY <1>c, <1>n, <1>t, <1>p, <2>1, <3>2
    <3> QED
      BY <3>1, <3>3 DEF Paid
<1>1. ASSUME NEW w \in Workers, SendAccepted(w) PROVE IsFiniteSet(pool)' /\ Paid'
  <2>1. /\ TxOf(w) \notin pool /\ pool' = pool \cup {TxOf(w)}
        /\ UNCHANGED <<chain, dropped, budget, n>>
        /\ pc[w] = "send" /\ pc'[w] = "accepted" /\ n[w] >= Len(chain)
        /\ \A v \in Workers \ {w} : pc'[v] = pc[v]
    BY <1>1 DEF SendAccepted, Fresh, Pooled, TxOf, Goto
  <2>2. w \notin Live /\ Live' = Live \cup {w}
    BY <1>n, <2>1 DEF Live, Earned, Reverted
  <2> QED
    BY <1>b, <2>1, <2>2
<1>2. ASSUME NEW w \in Workers, SendAnswerLost(w) PROVE IsFiniteSet(pool)' /\ Paid'
  <2>1. /\ TxOf(w) \notin pool /\ pool' = pool \cup {TxOf(w)}
        /\ UNCHANGED <<chain, dropped>> /\ budget' = budget - 1
        /\ pc[w] = "send" /\ \A v \in Workers \ {w} : pc'[v] = pc[v] /\ n'[v] = n[v]
    BY <1>2 DEF SendAnswerLost, SendFailed, Fresh, Fault, Pooled, TxOf, Goto, Forget
  <2>2. Live \subseteq Live'
    BY <2>1 DEF Live, Earned, Reverted
  <2> QED
    BY <1>b, <2>1, <2>2
<1>3. ASSUME NEW w \in Workers,
             \/ Lock(w) \/ FetchNonce(w) \/ FetchFails(w) \/ StoreNonce(w) \/ LoadNonce(w)
             \/ SendRejected(w) \/ SendKnown(w) \/ SendError(w) \/ Reset(w)
             \/ IncStore(w) /\ pc[w] = "rejected"
      PROVE  IsFiniteSet(pool)' /\ Paid'
  <2>1. /\ UNCHANGED <<chain, pool, dropped>> /\ (budget' = budget \/ budget' = budget - 1)
        /\ pc[w] \notin {"accepted", "wait", "done"}
        /\ \A v \in Workers \ {w} : pc'[v] = pc[v] /\ n'[v] = n[v]
    BY <1>3 DEF Lock, FetchNonce, FetchFails, StoreNonce, LoadNonce, SendRejected,
           SendKnown, SendError, SendFailed, Reset, IncStore, Fault, Goto, Forget,
           local, node
  <2>2. Live \subseteq Live'
    BY <2>1 DEF Live, Earned, Reverted
  <2> QED
    BY <1>a, <2>1, <2>2
<1>4. ASSUME NEW w \in Workers, IncStore(w), pc[w] = "accepted"
      PROVE  IsFiniteSet(pool)' /\ Paid'
  <2>1. /\ UNCHANGED <<chain, pool, dropped, budget, n>> /\ pc'[w] = "wait"
        /\ \A v \in Workers \ {w} : pc'[v] = pc[v]
    BY <1>4 DEF IncStore, Goto, node
  <2>2. Live \subseteq Live'
    BY <1>4, <2>1 DEF Live, Earned, Reverted
  <2> QED
    BY <1>a, <2>1, <2>2
<1>5. ASSUME NEW w \in Workers, Receipt(w) PROVE IsFiniteSet(pool)' /\ Paid'
  <2>1. /\ UNCHANGED <<chain, pool, dropped, budget>> /\ pc[w] = "wait"
        /\ n[w] \in Nat /\ n[w] < Len(chain) /\ chain[n[w] + 1].to = w
        /\ pc'[w] = IF chain[n[w] + 1].ok THEN "done" ELSE "reset"
        /\ \A v \in Workers \ {w} : pc'[v] = pc[v] /\ n'[v] = n[v]
    BY <1>5 DEF Receipt, Goto, Forget, node
  <2>2. chain[n[w] + 1] \in Mined
    BY <1>n, <2>1
  <2>3. ~chain[n[w] + 1].ok => w \notin Live
    BY <2>1, <2>2 DEF Live, Earned, Reverted, Mined
  <2>4. Live \subseteq Live'
    BY <2>1, <2>3 DEF Live, Earned, Reverted
  <2> QED
    BY <1>a, <2>1, <2>4
<1>6. ASSUME NEW w \in Workers, Timeout(w) PROVE IsFiniteSet(pool)' /\ Paid'
  <2>1. /\ UNCHANGED <<chain, pool, dropped>> /\ pc[w] = "wait"
        /\ OnItsWay(w) => budget' = budget - 1
        /\ \A v \in Workers \ {w} : pc'[v] = pc[v] /\ n'[v] = n[v]
    BY <1>6 DEF Timeout, Fault, Goto, Forget, node
  <2>2. dropped = {} => budget' = budget - 1
    BY <2>1, NeverStuck
  <2>3. Live \subseteq Live' \cup {w}
    BY <2>1 DEF Live, Earned, Reverted
  <2> QED
    BY <1>c, <2>1, <2>2, <2>3 DEF Paid
<1>7. ASSUME NEW t \in pool, NEW ok \in BOOLEAN, MineTx(t, ok),
             IF ok THEN UNCHANGED budget ELSE Fault
      PROVE  IsFiniteSet(pool)' /\ Paid'
  <2>1. /\ IsFiniteSet(pool') /\ Cardinality(pool') = Cardinality(pool) - 1
        /\ Len(chain') = Len(chain) + 1 /\ UNCHANGED <<pc, dropped>>
    BY <1>7, CountPool, Mined1 DEF MineTx
  <2>2. \A w \in Workers : Reverted(w)' => Reverted(w) \/ (w = t.to /\ ~ok)
    <3>1. \A w \in Workers : Reverted(w)' <=> \/ Reverted(w)
                                              \/ n[w] = Len(chain) /\ w = t.to /\ ~ok
      BY <1>7, Mined1
    <3> HIDE DEF IInv, CInv, TypeOK
    <3> QED
      BY <3>1
  <2>3. t.to \in Workers
    BY DEF Tx
  <2>4. Live \subseteq (IF ok THEN Live' ELSE Live' \cup {t.to})
    BY <2>1, <2>2 DEF Live, Earned
  <2> QED
    <3>1. Len(chain') + Cardinality(pool') = Len(chain) + Cardinality(pool)
      BY <1>n, <2>1
    <3>2. CASE ok
      BY <1>7, <1>c, <2>1, <2>4, <3>1, <3>2
    <3>3. CASE ~ok
      BY <1>7, <1>c, <2>1, <2>3, <2>4, <3>1, <3>3 DEF Fault
    <3> QED
      BY <3>2, <3>3
<1>8. CASE Drop
  <2>1. PICK t \in pool : pool' = pool \ {t} /\ dropped' = dropped \cup {t.nonce}
    BY <1>8 DEF Drop, DropTx
  <2> QED
    BY <2>1, CountPool DEF Paid
<1>9. CASE UNCHANGED vars
  <2>1. UNCHANGED <<pc, n, chain, pool, dropped, budget>>
    BY <1>9 DEF vars, local, node
  <2>2. Live' = Live
    BY <2>1 DEF Live, Earned, Reverted
  <2> QED
    BY <1>a, <2>1, <2>2
<1>10. CASE Mine \/ Revert
  BY <1>10, <1>7 DEF Mine, Revert
<1>11. CASE \E w \in Workers : Worker(w)
  <2> PICK w \in Workers : Worker(w)
    BY <1>11
  <2>1. IncStore(w) => pc[w] \in {"accepted", "rejected"}
    BY DEF IncStore
  <2> QED
    BY <1>1, <1>2, <1>3, <1>4, <1>5, <1>6, <2>1 DEF Worker, Send
<1> QED
  BY <1>8, <1>9, <1>10, <1>11 DEF Next, Terminated

LEMMA InitBalance == Init => IInv /\ CInv
<1> SUFFICES ASSUME Init PROVE IInv /\ CInv
  OBVIOUS
<1>1. IsFiniteSet(pool) /\ Cardinality(pool) = 0 /\ Len(chain) = 0 /\ budget = Budget
  BY FS_EmptySet DEF Init
<1>2. Live \in SUBSET Workers /\ Cardinality(Live) \in Nat
  BY CountWorkers DEF Live
<1> QED
  BY <1>1, <1>2, InitInv DEF CInv, Tracked, Paid, Init

\* Every reachable state keeps the balance.
THEOREM Balance == Spec => [](IInv /\ CInv)
<1>1. IInv /\ CInv /\ [Next]_vars => (IInv /\ CInv)'
  BY NextInv, TrackedStep, PaidStep DEF CInv
<1> QED
  BY <1>1, InitBalance, PTL DEF Spec

\* Whatever the interleaving of retries, resets and blocks, a transfer beyond
\* one for each call needs a fault of its own (account.go:109-120), as long as
\* the node drops nothing.
THEOREM OverpayBoundedAlways == Spec => []OverpayBounded
<1>1. IInv /\ CInv => OverpayBounded
  <2> SUFFICES ASSUME IInv, CInv, dropped = {} PROVE OverpayBounded
    BY DEF OverpayBounded
  <2>1. /\ Live \in SUBSET Workers /\ Cardinality(Live) \in Nat
        /\ Cardinality(Live) <= Cardinality(Workers) /\ Cardinality(Workers) \in Nat
    BY CountWorkers DEF Live
  <2>2. Cardinality(pool) \in Nat
    BY CountPool DEF CInv
  <2>3. Len(chain) \in Nat /\ budget \in Nat
    BY DEF IInv, TypeOK
  <2> QED
    BY <2>1, <2>2, <2>3 DEF CInv, Paid, OverpayBounded
<1> QED
  BY <1>1, Balance, PTL
=============================================================================
