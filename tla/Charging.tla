------------------------------- MODULE Charging -------------------------------
(***************************************************************************)
(* Charging the test accounts at start-up (createTestAccGroupsAndPrepare-  *)
(* Contracts of klayslave/main.go): ConcurrentSend with RetrySender as the *)
(* transactionSend of its goroutines.  Every goroutine transfers from the  *)
(* slave's local reservoir to the account it was started for, with         *)
(* guaranteed retry, and the deployment of the contracts waits for all.    *)
(***************************************************************************)
EXTENDS ConcurrentSend, Sequences

CONSTANTS NoWorker, Budget  \* as in RetrySender

ASSUME ChargeAssumption == NoWorker \notin Accounts /\ Budget \in Nat

VARIABLES nonce, holder, pc, n, seen, chain, pool, dropped, budget  \* of RetrySender

Reservoir == "localReservoir"

R == INSTANCE RetrySender WITH
        Workers <- Accounts, Slaves <- {Reservoir},
        SlaveOf <- [i \in Accounts |-> Reservoir]

senderVars == <<nonce, holder, pc, n, seen, chain, pool, dropped, budget>>
chargeVars == <<vars, senderVars>>

ChargeInit == Init /\ R!Init

\* A step of the transfer that a goroutine runs.
Transfer(i) ==
    /\ task[i] = "sending"
    /\ R!Worker(i)
    /\ UNCHANGED vars

\* Mutant of TransferReturns: the transfer returns when the node has it.
TransferReturnsEarly(i) ==
    /\ pc[i] \in {"wait", "done"}
    /\ SendEnds(i)
    /\ UNCHANGED senderVars

TransferReturns(i) ==
    /\ pc[i] = "done"
    /\ SendEnds(i)
    /\ UNCHANGED senderVars

Goroutine(i) ==
    \/ Transfer(i)
    \/ TransferReturns(i)
    \/ (Release(i) \/ Finish(i)) /\ UNCHANGED senderVars

\* DeployTestContracts is up to Deployment.
ChargeNext ==
    \/ Caller /\ UNCHANGED senderVars
    \/ \E i \in Accounts : Goroutine(i)
    \/ (R!Mine \/ R!Revert \/ R!Drop) /\ UNCHANGED vars
    \/ Terminated /\ UNCHANGED senderVars

\* The fairness of both parts.
ChargeFairness ==
    /\ WF_chargeVars(Caller /\ UNCHANGED senderVars)
    /\ \A i \in Accounts : /\ WF_chargeVars(Goroutine(i))
                           /\ SF_chargeVars(Transfer(i) /\ (R!Lock(i) \/ R!Reset(i)))
    /\ WF_chargeVars(R!Mine /\ UNCHANGED vars)

FairChargeSpec == ChargeInit /\ [][ChargeNext]_chargeVars /\ ChargeFairness

----------------------------------------------------------------------------
\* "Finished charging KLAY" (main.go:122): every account has been paid by a
\* transfer that the chain executed with success, whichever attempt that was.
AllPaid ==
    caller = "returned" =>
        \A i \in Accounts : \E k \in DOMAIN chain : chain[k].to = i /\ chain[k].ok

\* The reservoir is given one charge for each account and some spare ones
\* (main.go:104): transfers beyond one for each account that has a goroutine
\* need a fault each, so that it cannot run dry by retrying alone.
Affordable ==
    dropped = {} =>
        Len(chain) + Cardinality(pool)
            <= Cardinality({i \in Accounts : task[i] # "none"}) + (Budget - budget)
=============================================================================
