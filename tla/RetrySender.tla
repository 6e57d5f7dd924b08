---------------------------- MODULE RetrySender ----------------------------
(***************************************************************************)
(* The retrying sender: RunWithRetry around a sending function that        *)
(* allocates nonces from the account's cached counter, as                  *)
(* TransferSignedTxWithGuaranteeRetry uses it to charge accounts           *)
(* (klayslave/account/account.go).                                         *)
(*                                                                         *)
(* One key sends to every worker's target, one transfer per worker.  The   *)
(* workers of one slave process are goroutines that share an Account       *)
(* object (cached nonce and mutex); several slaves may hold the same key,  *)
(* each in an Account object of its own (the global reservoir, the token   *)
(* deployers).  The node is external: the mined transactions of the key in *)
(* nonce order, and its pool.                                              *)
(***************************************************************************)
EXTENDS Integers, Sequences, FiniteSets

CONSTANTS Workers,  \* one call of TransferSignedTxWithGuaranteeRetry each
          Slaves,   \* processes that hold the key
          SlaveOf,  \* the process a worker runs in
          NoWorker, \* holder of a free mutex
          Budget    \* how many faults may happen in a behaviour

ASSUME RetryAssumption ==
    /\ SlaveOf \in [Workers -> Slaves]
    /\ NoWorker \notin Workers /\ IsFiniteSet(Workers)
    /\ Budget \in Nat

VARIABLES
    nonce,   \* Account.nonce of each slave; 0 stands for "not cached"
    holder,  \* Account.mutex of each slave
    pc,      \* where each worker is
    n,       \* nonce of the worker's current transaction (0 out of its scope)
    seen,    \* value nonce++ has loaded
    chain,   \* mined transactions of the key: entry i has nonce i - 1
    pool,    \* transactions the node holds, not mined yet
    dropped, \* nonces of the transactions the node accepted and lost (history)
    budget   \* faults that may still happen

account == <<nonce, holder>>
local   == <<n, seen>>
node    == <<chain, pool, dropped>>
vars    == <<account, pc, local, node, budget>>

Steps    == {"start", "fetch", "store", "load", "send", "accepted", "rejected",
             "wait", "reset", "done"}
InInc    == {"accepted", "rejected"}
Critical == {"fetch", "store", "load", "send"} \cup InInc

Tx    == [nonce : Nat, to : Workers]
Mined == [to : Workers, ok : BOOLEAN]

TypeOK ==
    /\ nonce \in [Slaves -> Nat]
    /\ holder \in [Slaves -> Workers \cup {NoWorker}]
    /\ pc \in [Workers -> Steps]
    /\ n \in [Workers -> Nat]
    /\ seen \in [Workers -> Nat]
    /\ chain \in Seq(Mined)
    /\ pool \subseteq Tx
    /\ dropped \subseteq Nat
    /\ budget \in 0..Budget

Init ==
    /\ nonce = [s \in Slaves |-> 0]
    /\ holder = [s \in Slaves |-> NoWorker]
    /\ pc = [w \in Workers |-> "start"]
    /\ n = [w \in Workers |-> 0]
    /\ seen = [w \in Workers |-> 0]
    /\ chain = <<>>
    /\ pool = {}
    /\ dropped = {}
    /\ budget = Budget

----------------------------------------------------------------------------
Goto(w, step) == pc' = [pc EXCEPT ![w] = step]
Unlock(w)     == holder' = [holder EXCEPT ![SlaveOf[w]] = NoWorker]
Forget(w)     == n' = [n EXCEPT ![w] = 0]
Fault         == budget > 0 /\ budget' = budget - 1

\* Types.Transaction of this attempt: equal nonce and target means equal hash.
TxOf(w)   == [nonce |-> n[w], to |-> w]
Pooled(m) == \E t \in pool : t.nonce = m

\* Mutant of Lock: sending without the mutex, as with TxOption.NoLock.
LockFree(w) ==
    /\ pc[w] = "start"
    /\ holder' = [holder EXCEPT ![SlaveOf[w]] = w]
    /\ Goto(w, IF nonce[SlaveOf[w]] # 0 THEN "load" ELSE "fetch")
    /\ UNCHANGED <<nonce, local, node, budget>>

\* TransferSignedTxReturnTx takes the mutex; GetNonce first looks at the cache.
Lock(w) ==
    /\ pc[w] = "start"
    /\ holder[SlaveOf[w]] = NoWorker
    /\ holder' = [holder EXCEPT ![SlaveOf[w]] = w]
    /\ Goto(w, IF nonce[SlaveOf[w]] # 0 THEN "load" ELSE "fetch")
    /\ UNCHANGED <<nonce, local, node, budget>>

\* NonceAt at the latest block: the number of mined transactions.
FetchNonce(w) ==
    /\ pc[w] = "fetch"
    /\ n' = [n EXCEPT ![w] = Len(chain)]
    /\ Goto(w, "store")
    /\ UNCHANGED <<account, seen, node, budget>>

\* NonceAt fails: GetNonce returns the cached nonce all the same.
FetchFails(w) ==
    /\ pc[w] = "fetch"
    /\ Fault
    /\ Goto(w, "load")
    /\ UNCHANGED <<account, local, node>>

\* Mutant of StoreNonce: the last mined nonce instead of the next one.
StoreLastNonce(w) ==
    /\ pc[w] = "store"
    /\ nonce' = [nonce EXCEPT ![SlaveOf[w]] = n[w] - 1]
    /\ Goto(w, "load")
    /\ UNCHANGED <<holder, local, node, budget>>

StoreNonce(w) ==
    /\ pc[w] = "store"
    /\ nonce' = [nonce EXCEPT ![SlaveOf[w]] = n[w]]
    /\ Goto(w, "load")
    /\ UNCHANGED <<holder, local, node, budget>>

\* "return acc.nonce" reads the field again: a reset may have come in between.
LoadNonce(w) ==
    /\ pc[w] = "load"
    /\ n' = [n EXCEPT ![w] = nonce[SlaveOf[w]]]
    /\ Goto(w, "send")
    /\ UNCHANGED <<account, seen, node, budget>>

\* The node has room for this nonce.
Fresh(m) == m >= Len(chain) /\ ~Pooled(m)

\* The answer to SendRawTransaction, and the load of the nonce++ that follows
\* it (a reset between the two has the effect of one before the send).
SendAccepted(w) ==
    /\ pc[w] = "send"
    /\ Fresh(n[w])
    /\ pool' = pool \cup {TxOf(w)}
    /\ seen' = [seen EXCEPT ![w] = nonce[SlaveOf[w]]]
    /\ Goto(w, "accepted")
    /\ UNCHANGED <<account, n, chain, dropped, budget>>

\* Mutant of SendRejected: the nonce is not skipped.
SendRejectedKeepsNonce(w) ==
    /\ pc[w] = "send"
    /\ n[w] < Len(chain) \/ (Pooled(n[w]) /\ TxOf(w) \notin pool)
    /\ Unlock(w)
    /\ Goto(w, "start")
    /\ Forget(w)
    /\ UNCHANGED <<nonce, seen, node, budget>>

\* ErrNonceTooLow or ErrReplaceUnderpriced: the nonce is taken, skip it.
SendRejected(w) ==
    /\ pc[w] = "send"
    /\ n[w] < Len(chain) \/ (Pooled(n[w]) /\ TxOf(w) \notin pool)
    /\ seen' = [seen EXCEPT ![w] = nonce[SlaveOf[w]]]
    /\ Goto(w, "rejected")
    /\ UNCHANGED <<account, n, node, budget>>

\* Mutant of SendFailed: nonce++ on every error.
SendFailedSkips(w) ==
    /\ nonce' = [nonce EXCEPT ![SlaveOf[w]] = @ + 1]
    /\ Unlock(w)
    /\ Goto(w, "start")
    /\ Forget(w)
    /\ UNCHANGED <<seen, chain, dropped>>

\* An error that leaves the nonce alone; RunWithRetry sleeps and sends again.
SendFailed(w) ==
    /\ Unlock(w)
    /\ Goto(w, "start")
    /\ Forget(w)
    /\ UNCHANGED <<nonce, seen, chain, dropped>>

\* "known transaction": the pool holds this very transaction.
SendKnown(w) ==
    /\ pc[w] = "send"
    /\ TxOf(w) \in pool
    /\ SendFailed(w)
    /\ UNCHANGED <<pool, budget>>

\* The request never reaches the node, or the pool is full.
SendError(w) ==
    /\ pc[w] = "send"
    /\ Fault
    /\ SendFailed(w)
    /\ UNCHANGED pool

\* The node accepts the transaction and the answer is lost.
SendAnswerLost(w) ==
    /\ pc[w] = "send"
    /\ Fresh(n[w])
    /\ Fault
    /\ pool' = pool \cup {TxOf(w)}
    /\ SendFailed(w)

\* The store of self.nonce++: the reset of another worker, which does not take
\* the mutex, may have come after the load.
IncStore(w) ==
    /\ \/ pc[w] = "accepted" /\ Goto(w, "wait") /\ UNCHANGED n
       \/ pc[w] = "rejected" /\ Goto(w, "start") /\ Forget(w)
    /\ nonce' = [nonce EXCEPT ![SlaveOf[w]] = seen[w] + 1]
    /\ seen' = [seen EXCEPT ![w] = 0]
    /\ Unlock(w)
    /\ UNCHANGED <<node, budget>>

\* Mutant of Receipt: the status test inverted.
ReceiptInverted(w) ==
    /\ pc[w] = "wait"
    /\ n[w] < Len(chain)
    /\ chain[n[w] + 1].to = w
    /\ Goto(w, IF chain[n[w] + 1].ok THEN "reset" ELSE "done")
    /\ Forget(w)
    /\ UNCHANGED <<account, seen, node, budget>>

\* WaitMined finds the receipt of this transaction.
Receipt(w) ==
    /\ pc[w] = "wait"
    /\ n[w] < Len(chain)
    /\ chain[n[w] + 1].to = w
    /\ Goto(w, IF chain[n[w] + 1].ok THEN "done" ELSE "reset")
    /\ Forget(w)
    /\ UNCHANGED <<account, seen, node, budget>>

\* Nothing but time keeps the transaction of w from being mined and seen.
OnItsWay(w) ==
    \/ n[w] < Len(chain) /\ chain[n[w] + 1].to = w
    \/ TxOf(w) \in pool /\ \A m \in Len(chain)..n[w] : Pooled(m)

\* The context of WaitMined expires: because the transaction cannot be mined,
\* or (a fault) although it could.
Timeout(w) ==
    /\ pc[w] = "wait"
    /\ IF OnItsWay(w) THEN Fault ELSE UNCHANGED budget
    /\ Goto(w, "reset")
    /\ Forget(w)
    /\ UNCHANGED <<account, seen, node>>

\* Another worker of the slave has loaded the nonce and is not through its
\* nonce++, which will overwrite a reset made now.
Overwrites(w) ==
    \E v \in Workers : SlaveOf[v] = SlaveOf[w] /\ pc[v] \in {"send"} \cup InInc

\* a.nonce = 0 without the mutex; a reset about to be overwritten is a fault.
Reset(w) ==
    /\ pc[w] = "reset"
    /\ IF Overwrites(w) THEN Fault ELSE UNCHANGED budget
    /\ nonce' = [nonce EXCEPT ![SlaveOf[w]] = 0]
    /\ Goto(w, "start")
    /\ UNCHANGED <<holder, local, node>>

----------------------------------------------------------------------------
\* The next transaction in nonce order is executed; to revert is a fault.
MineTx(t, ok) ==
    /\ t.nonce = Len(chain)
    /\ chain' = Append(chain, [to |-> t.to, ok |-> ok])
    /\ pool' = pool \ {t}
    /\ UNCHANGED <<account, pc, local, dropped>>

Mine   == \E t \in pool : MineTx(t, TRUE) /\ UNCHANGED budget
Revert == \E t \in pool : MineTx(t, FALSE) /\ Fault

\* The node evicts a transaction or forgets it in a restart.
DropTx(t) ==
    /\ Fault
    /\ pool' = pool \ {t}
    /\ dropped' = dropped \cup {t.nonce}
    /\ UNCHANGED <<account, pc, local, chain>>

Drop == \E t \in pool : DropTx(t)

Send(w) == \/ SendAccepted(w) \/ SendRejected(w) \/ SendKnown(w)
           \/ SendError(w) \/ SendAnswerLost(w)

Worker(w) == \/ Lock(w) \/ FetchNonce(w) \/ FetchFails(w) \/ StoreNonce(w)
             \/ LoadNonce(w) \/ Send(w) \/ IncStore(w) \/ Receipt(w) \/ Timeout(w) \/ Reset(w)

AllDone == \A w \in Workers : pc[w] = "done"

Terminated == AllDone /\ UNCHANGED vars

Next == \/ \E w \in Workers : Worker(w)
        \/ Mine \/ Revert \/ Drop
        \/ Terminated

Spec == Init /\ [][Next]_vars

\* Goroutines run, blocks are made, Go hands a contended mutex over in FIFO
\* order once a waiter starves, and nothing blocks the store of a reset.
Fairness == /\ \A w \in Workers : WF_vars(Worker(w)) /\ SF_vars(Lock(w) \/ Reset(w))
            /\ WF_vars(Mine)

FairSpec == Spec /\ Fairness

----------------------------------------------------------------------------
\* Nonces that are used up: mined, pooled, or lost by the node itself.
Used    == 0..(Len(chain) - 1) \cup {t.nonce : t \in pool} \cup dropped
Safe(m) == 0..(m - 1) \subseteq Used

\* The sender never leaves a hole in the nonce sequence.  Whatever the order of
\* sends, unlocked resets (account.go:119), lost answers and failed NonceAt
\* calls, no cached nonce, no nonce about to be sent and no pooled transaction
\* lies above one the node has never been given: such a hole would block every
\* later transaction of the key.
NoHole ==
    /\ \A s \in Slaves : Safe(nonce[s])
    /\ \A w \in Workers : pc[w] = "send" => Safe(n[w])
    /\ \A t \in pool : Safe(t.nonce)

\* A target is paid twice only where a fault is the cause: unless the node
\* dropped something, the transactions it took never outnumber the transfers
\* by more than the faults so far (the retry of account.go:109-120 sends again
\* what may still be mined).
OverpayBounded ==
    dropped = {} =>
        Len(chain) + Cardinality(pool) <= Cardinality(Workers) + (Budget - budget)

\* Goroutines of one slave never race on nonce++ (account.go:140-145): between
\* its load and its store nothing but an unlocked reset writes the nonce.
HeldNonce ==
    \A w \in Workers : pc[w] \in InInc => nonce[SlaveOf[w]] \in {seen[w], 0}

\* Every call of TransferSignedTxWithGuaranteeRetry returns (account.go:463-470,
\* "GuaranteeRetry"), whatever the faults.
EveryTransferReturns == <>AllDone

\* RunWithRetry returns (account.go:113-115) only once the transfer has been
\* executed successfully on chain, for every caller at once.
Executed == {w \in Workers : \E i \in DOMAIN chain : chain[i].to = w /\ chain[i].ok}
Returned == {w \in Workers : pc[w] = "done"}
Promise  == INSTANCE AtLeastOnce WITH
                Transfers <- Workers, executed <- Executed, returned <- Returned
ReturnsOnlyExecuted == Promise!Spec
=============================================================================
