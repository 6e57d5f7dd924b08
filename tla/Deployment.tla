----------------------------- MODULE Deployment ------------------------------
(***************************************************************************)
(* How the slaves get their test contracts (klayslave/account/accgroup.go, *)
(* DeployTestContracts): a leader deploys each contract from a key that    *)
(* every slave holds and sets some of them up, the followers poll the      *)
(* chain until that is done, and then every slave charges its accounts     *)
(* with tokens.  The slaves share nothing but the chain.                   *)
(*                                                                         *)
(* The node is external: per account the transactions in blocks and in the *)
(* pool, and the registry of system contracts.                             *)
(***************************************************************************)
EXTENDS Integers, Sequences, FiniteSets

CONSTANTS Slaves,
          Leaders,      \* started with --leader
          NumContracts, \* contracts of the selected test cases
          Gasless,      \* token, pair, ..., swap router, which is registered
          Auctions,     \* counter, vaults, entry point, which is registered
          Minting,      \* those whose charging begins with their deployer
          NoSlave,
          ManagerTxs,   \* of SetupLiquidity: 5, the last one adds liquidity
          MaxPolls,     \* attempts of a follower
          MaxFaults,    \* bound: time-outs, failed calls, reverts
          MaxRestarts,  \* bound: slaves started again
          MaxTroubles   \* bound: faults and restarts together

Contracts == 1..NumContracts
Manager   == 0                     \* GSRSetupManager
Senders   == Contracts \cup {Manager} \* each contract has a deployer of its own

ASSUME DeploymentAssumption ==
    /\ Leaders \subseteq Slaves /\ NoSlave \notin Slaves /\ IsFiniteSet(Slaves)
    /\ NumContracts \in Nat \ {0}
    /\ Gasless \subseteq Contracts /\ Cardinality(Gasless) # 1
    /\ Auctions \subseteq Contracts \ Gasless
    /\ Minting \subseteq Contracts
    /\ ManagerTxs \in Nat \ {0}
    /\ MaxPolls \in Nat \ {0}
    /\ MaxFaults \in Nat /\ MaxRestarts \in Nat /\ MaxTroubles \in Nat

\* TestContractInfos lists the token first and what is registered last.
Registered(S) == CHOOSE c \in S : \A d \in S : d <= c
Token         == CHOOSE c \in Gasless : \A d \in Gasless : c <= d

\* The contract whose registration means that c is deployed; 0 when the nonce
\* of its deployer is asked.
Keeper(c) == CASE c \in Gasless  -> Registered(Gasless)
               [] c \in Auctions -> Registered(Auctions)
               [] OTHER          -> 0

Routers == {c \in Contracts : Keeper(c) = c}

VARIABLES
    pc,     \* where each slave is
    phase,  \* of DeployTestContracts
    cur,    \* the contract it works on
    step,   \* of SetupLiquidity
    nonce,  \* Account.nonce of the deployers, in each slave
    sentAt, \* nonce of the deployment it waits for
    polls,  \* attempts of WaitForSetupCompletion
    gaveUp, \* slaves that proceeded anyway
    lost,   \* slaves whose deployer refused them a mint (history)
    chain, pool, funded, registry,
    supplied, \* the manager has its KAIA
    faults, restarts

place == <<pc, phase, cur, step, sentAt, polls>>
node  == <<chain, pool, funded, registry, supplied>>
vars  == <<place, nonce, gaveUp, lost, node, faults, restarts>>

Places == {"check", "fund", "deploy", "waitDeploy", "setup", "fixed", "waitFixed",
           "supply", "tokens", "register", "await", "late", "poll", "charge", "done", "exited"}
Kinds  == {"deploy", "setup", "supply", "mint", "reverted", "short"}
Tx     == [nonce : Nat, kind : Kinds, by : Slaves \cup {NoSlave}]

TypeOK ==
    /\ pc \in [Slaves -> Places]
    /\ phase \in [Slaves -> {1, 2}]
    /\ cur \in [Slaves -> Contracts]
    /\ step \in [Slaves -> 1..(ManagerTxs + 1)]
    /\ nonce \in [Slaves -> [Contracts -> Nat]]
    /\ sentAt \in [Slaves -> Nat]
    /\ polls \in [Slaves -> 0..MaxPolls]
    /\ gaveUp \subseteq Slaves /\ lost \subseteq Slaves
    /\ chain \in [Senders -> Seq(Kinds)]
    /\ pool \in [Senders -> SUBSET Tx]
    /\ funded \subseteq Contracts
    /\ registry \in [Contracts -> {"none", "registered", "active"}]
    /\ supplied \in BOOLEAN
    /\ faults \in Nat /\ restarts \in Nat

Start(s) == IF s \in Leaders THEN "check" ELSE "poll"

Init ==
    /\ pc = [s \in Slaves |-> Start(s)]
    /\ phase = [s \in Slaves |-> IF s \in Leaders THEN 1 ELSE 2]
    /\ cur = [s \in Slaves |-> 1]
    /\ step = [s \in Slaves |-> 1]
    /\ nonce = [s \in Slaves |-> [c \in Contracts |-> 0]]
    /\ sentAt = [s \in Slaves |-> 0]
    /\ polls = [s \in Slaves |-> 0]
    /\ gaveUp = {} /\ lost = {}
    /\ chain = [a \in Senders |-> <<>>]
    /\ pool = [a \in Senders |-> {}]
    /\ funded = {}
    /\ registry = [c \in Contracts |-> "none"]
    /\ supplied = FALSE
    /\ faults = 0 /\ restarts = 0

----------------------------------------------------------------------------
\* The node's view of a transaction: executed, refused, or new.
Executed(a)     == Len(chain[a])
TooLow(a, n)    == n < Executed(a)
Slot(a, n)      == {x \in pool[a] : x.nonce = n}
Fresh(a, n)     == n >= Executed(a) /\ Slot(a, n) = {}
Accept(a, x)    == pool' = [pool EXCEPT ![a] = @ \cup {x}]
Trouble         == faults + restarts < MaxTroubles
Fault           == Trouble /\ faults < MaxFaults /\ faults' = faults + 1

Deployment(n) == [nonce |-> n, kind |-> "deploy", by |-> NoSlave]

Goto(s, where) == pc' = [pc EXCEPT ![s] = where]
Advance(s, c, n) == nonce' = [nonce EXCEPT ![s][c] = n + 1]
ResetNonce(s, c) == nonce' = [nonce EXCEPT ![s][c] = 0]

\* GetNonce of a deployer, where NonceAt answers.
NonceOf(s, c) == IF nonce[s][c] # 0 THEN nonce[s][c] ELSE Executed(c)
Cache(s, c)   == nonce' = [nonce EXCEPT ![s][c] = NonceOf(s, c)]

\* Mutant of NextContract: one contract too many.
NextContractTooFar(s) ==
    /\ cur' = [cur EXCEPT ![s] = IF phase[s] = 1 /\ @ = NumContracts THEN 1 ELSE @ + 1]
    /\ phase' = [phase EXCEPT ![s] = IF cur[s] = NumContracts THEN 2 ELSE @]
    /\ Goto(s, IF cur[s] = NumContracts /\ phase[s] = 2 THEN "done"
               ELSE IF cur[s] = NumContracts THEN "charge"
               ELSE IF phase[s] = 1 THEN "check" ELSE IF s \in Leaders THEN "charge" ELSE "poll")

\* The loops over TestContractInfos: phase 2 begins when phase 1 has ended.
NextContract(s) ==
    LET last == cur[s] = NumContracts IN
    /\ cur' = [cur EXCEPT ![s] = IF ~last THEN @ + 1 ELSE IF phase[s] = 1 THEN 1 ELSE @]
    /\ phase' = [phase EXCEPT ![s] = IF last THEN 2 ELSE @]
    /\ Goto(s, CASE last /\ phase[s] = 2          -> "done"
                 [] ~last /\ phase[s] = 1         -> "check"
                 [] OTHER -> IF s \in Leaders THEN "charge" ELSE "poll")

----------------------------------------------------------------------------
\* IsDeployed: GetNonce > 0, or the contract is active in the registry.
Deployed(s, c) == IF Keeper(c) # 0 THEN registry[Keeper(c)] = "active"
                                   ELSE NonceOf(s, c) > 0
Ask(s, c)      == IF Keeper(c) # 0 THEN UNCHANGED nonce ELSE Cache(s, c)

\* When the call fails the answer is no; a cached nonce needs no call.
Unanswered(s, c) == (Keeper(c) # 0 \/ nonce[s][c] = 0) /\ Fault /\ UNCHANGED nonce

Check(s) ==
    LET c == cur[s] IN
    /\ pc[s] = "check"
    /\ \/ /\ Goto(s, IF Deployed(s, c) THEN "setup" ELSE "fund")
          /\ Ask(s, c) /\ UNCHANGED faults
       \/ Unanswered(s, c) /\ Goto(s, "fund")
    /\ UNCHANGED <<phase, cur, step, sentAt, polls, gaveUp, lost, node, restarts>>

\* The deployer is charged by the guaranteed transfer (RetrySender).
Fund(s) ==
    /\ pc[s] = "fund"
    /\ funded' = funded \cup {cur[s]}
    /\ Goto(s, "deploy")
    /\ UNCHANGED <<phase, cur, step, sentAt, polls, nonce, gaveUp, lost, chain, pool,
                   registry, supplied, faults, restarts>>

\* Mutant of DeployAccepted: the send loop is not left.
DeployAcceptedAgain(s) ==
    LET c == cur[s]
        n == NonceOf(s, c) IN
    /\ pc[s] = "deploy"
    /\ Fresh(c, n) /\ n < NumContracts + 2
    /\ Accept(c, Deployment(n))
    /\ Advance(s, c, n)
    /\ UNCHANGED <<place, gaveUp, lost, chain, funded, registry, supplied, faults, restarts>>

DeployAccepted(s) ==
    LET c == cur[s]
        n == NonceOf(s, c) IN
    /\ pc[s] = "deploy"
    /\ Fresh(c, n)
    /\ Accept(c, Deployment(n))
    /\ Advance(s, c, n)
    /\ sentAt' = [sentAt EXCEPT ![s] = n]
    /\ Goto(s, "waitDeploy")
    /\ UNCHANGED <<phase, cur, step, polls, gaveUp, lost, chain, funded, registry, supplied,
                   faults, restarts>>

\* ShouldSkip: the node has this very transaction, or its nonce is used, or
\* zero was taken for the nonce because NonceAt failed.
DeploySkipped(s) ==
    LET c == cur[s]
        n == NonceOf(s, c) IN
    /\ pc[s] = "deploy"
    /\ \/ Deployment(n) \in pool[c] /\ Cache(s, c) /\ UNCHANGED faults
       \/ TooLow(c, n) /\ Advance(s, c, n) /\ UNCHANGED faults
       \/ nonce[s][c] = 0 /\ TooLow(c, 0) /\ Fault /\ Advance(s, c, 0)
    /\ Goto(s, "setup")
    /\ UNCHANGED <<phase, cur, step, sentAt, polls, gaveUp, lost, node, restarts>>

\* The send is tried again: the place is taken, the call or its answer failed.
DeployRetried(s) ==
    LET c == cur[s]
        n == NonceOf(s, c) IN
    /\ pc[s] = "deploy"
    /\ \/ /\ Slot(c, n) \notin {{}, {Deployment(n)}}
          /\ Advance(s, c, n) /\ UNCHANGED <<pool, faults>>
       \/ Fresh(c, n) /\ Accept(c, Deployment(n)) /\ Fault /\ Cache(s, c)
    /\ UNCHANGED <<place, gaveUp, lost, chain, funded, registry, supplied, restarts>>

DeployMined(s) ==
    /\ pc[s] = "waitDeploy"
    /\ TooLow(cur[s], sentAt[s]) /\ chain[cur[s]][sentAt[s] + 1] = "deploy"
    /\ Goto(s, "setup")
    /\ UNCHANGED <<phase, cur, step, sentAt, polls, nonce, gaveUp, lost, node, faults,
                   restarts>>

\* WaitMined times out, or the deployment was reverted: the nonce is fetched
\* again.
DeployFailed(s) ==
    /\ pc[s] = "waitDeploy"
    /\ \/ Fault
       \/ /\ TooLow(cur[s], sentAt[s]) /\ chain[cur[s]][sentAt[s] + 1] = "reverted"
          /\ UNCHANGED faults
    /\ ResetNonce(s, cur[s])
    /\ Goto(s, "deploy")
    /\ UNCHANGED <<phase, cur, step, sentAt, polls, gaveUp, lost, node, restarts>>

----------------------------------------------------------------------------
\* TransferSignedTx with a deployer's key, whose outcome is ignored: the
\* transaction is accepted (and the answer may be lost), refused for its nonce,
\* or refused for want of money or as known.
Transfer(s, c, tx) ==
    LET n == tx.nonce IN
    \/ /\ Fresh(c, n) /\ c \in funded
       /\ Accept(c, tx)
       /\ \/ Advance(s, c, n) /\ UNCHANGED faults
          \/ Cache(s, c) /\ Fault
    \/ /\ TooLow(c, n) \/ Slot(c, n) \notin {{}, {tx}}
       /\ Advance(s, c, n) /\ UNCHANGED <<pool, faults>>
    \/ /\ Cache(s, c) /\ UNCHANGED pool
       /\ \/ (c \notin funded \/ tx \in pool[c]) /\ UNCHANGED faults
          \/ Fault

\* DoSetupWork of a contract that is not registered yet; others have none, and
\* only the swap router needs liquidity.
SetupWork(s) ==
    LET c     == cur[s]
        begin == /\ Goto(s, IF c \in Gasless THEN "supply" ELSE "register")
                 /\ UNCHANGED <<phase, cur>> IN
    /\ pc[s] = "setup"
    /\ \/ c \in Routers /\ registry[c] # "active" /\ begin /\ UNCHANGED faults
       \/ c \in Routers /\ Fault /\ begin
       \/ /\ (c \notin Routers \/ registry[c] = "active")
          /\ NextContract(s) /\ UNCHANGED faults
    /\ UNCHANGED <<step, sentAt, polls, nonce, gaveUp, lost, node, restarts>>

\* Two plain transfers give the manager what it needs: KAIA of the slave's
\* reservoir and tokens of the token's deployer.
Supply(s) ==
    /\ pc[s] = "supply"
    /\ \/ supplied' = TRUE /\ UNCHANGED faults
       \/ UNCHANGED supplied /\ Fault
    /\ Goto(s, "tokens")
    /\ UNCHANGED <<phase, cur, step, sentAt, polls, nonce, gaveUp, lost, chain, pool, funded,
                   registry, restarts>>

SupplyTokens(s) ==
    /\ pc[s] = "tokens"
    /\ Transfer(s, Token, [nonce |-> NonceOf(s, Token), kind |-> "supply", by |-> NoSlave])
    /\ step' = [step EXCEPT ![s] = 1]
    /\ Goto(s, "fixed")
    /\ UNCHANGED <<phase, cur, sentAt, polls, gaveUp, lost, chain, funded, registry, supplied,
                   restarts>>

\* SetupLiquidity sends transactions at fixed nonces: those of the manager,
\* then AddToken as the second one of the router's deployer.
FixedSender(s) == IF step[s] <= ManagerTxs THEN Manager ELSE cur[s]

\* Mutant of FixedNonce: the nonce of the deployment for AddToken.
FixedNonceZero(s) == IF step[s] <= ManagerTxs THEN step[s] - 1 ELSE 0

FixedNonce(s) == IF step[s] <= ManagerTxs THEN step[s] - 1 ELSE 1
FixedTx(s)    == [nonce |-> FixedNonce(s), kind |-> "setup", by |-> NoSlave]

AfterFixed(s) == IF step[s] <= ManagerTxs
                   THEN step' = [step EXCEPT ![s] = @ + 1] /\ Goto(s, "fixed")
                   ELSE Goto(s, "register") /\ UNCHANGED step

\* Accepted, or accepted with the answer lost, which is sent again.
FixedSent(s) ==
    /\ pc[s] = "fixed"
    /\ FixedSender(s) = Manager => supplied
    /\ Fresh(FixedSender(s), FixedNonce(s))
    /\ Accept(FixedSender(s), FixedTx(s))
    /\ \/ Goto(s, "waitFixed") /\ UNCHANGED faults
       \/ Fault /\ UNCHANGED pc
    /\ UNCHANGED <<phase, cur, step, sentAt, polls, nonce, gaveUp, lost, chain, funded,
                   registry, supplied, restarts>>

\* Mutant of FixedSkipped: a used nonce is no reason to go on.
FixedSkippedNot(s) ==
    /\ pc[s] = "fixed"
    /\ TooLow(FixedSender(s), FixedNonce(s))
    /\ UNCHANGED vars

\* ErrNonceTooLow is allowed: "the setup is considered complete".
FixedSkipped(s) ==
    /\ pc[s] = "fixed"
    /\ TooLow(FixedSender(s), FixedNonce(s))
    /\ AfterFixed(s)
    /\ UNCHANGED <<phase, cur, sentAt, polls, nonce, gaveUp, lost, node, faults, restarts>>

FixedMined(s) ==
    /\ pc[s] = "waitFixed"
    /\ TooLow(FixedSender(s), FixedNonce(s))
    /\ chain[FixedSender(s)][FixedNonce(s) + 1] = "setup"
    /\ AfterFixed(s)
    /\ UNCHANGED <<phase, cur, sentAt, polls, nonce, gaveUp, lost, node, faults, restarts>>

FixedFailed(s) ==
    /\ pc[s] = "waitFixed"
    /\ \/ Fault
       \/ /\ TooLow(FixedSender(s), FixedNonce(s))
          /\ chain[FixedSender(s)][FixedNonce(s) + 1] \in {"reverted", "short"}
          /\ UNCHANGED faults
    /\ IF step[s] > ManagerTxs THEN ResetNonce(s, cur[s]) ELSE UNCHANGED nonce
    /\ Goto(s, "fixed")
    /\ UNCHANGED <<phase, cur, step, sentAt, polls, gaveUp, lost, node, restarts>>

\* RegisterGSR: a guaranteed transaction of the global reservoir, then the
\* leader waits for the target block; it exits when that comes too late.  When
\* the block number cannot be read nothing is registered.
Register(s) ==
    LET c == cur[s] IN
    /\ pc[s] = "register"
    /\ registry' = [registry EXCEPT ![c] = IF @ = "none" THEN "registered" ELSE @]
    /\ Goto(s, "await")
    /\ UNCHANGED <<phase, cur, step, sentAt, polls, nonce, gaveUp, lost, chain, pool, funded,
                   supplied, faults, restarts>>

RegisterAbandoned(s) ==
    /\ pc[s] = "register" /\ Fault
    /\ NextContract(s)
    /\ UNCHANGED <<step, sentAt, polls, nonce, gaveUp, lost, node, restarts>>

\* The target block is chosen before the loop: once it has passed, the registry
\* reverts every attempt, and the leader tries for ever.
RegisterLate(s) ==
    /\ pc[s] = "register" /\ registry[cur[s]] = "none" /\ Fault
    /\ Goto(s, "late")
    /\ UNCHANGED <<phase, cur, step, sentAt, polls, nonce, gaveUp, lost, node, restarts>>

TargetReached(s) ==
    /\ pc[s] = "await" /\ registry[cur[s]] = "active"
    /\ NextContract(s)
    /\ UNCHANGED <<step, sentAt, polls, nonce, gaveUp, lost, node, faults, restarts>>

TargetMissed(s) ==
    /\ pc[s] = "await" /\ Fault
    /\ Goto(s, "exited")
    /\ UNCHANGED <<phase, cur, step, sentAt, polls, nonce, gaveUp, lost, node, restarts>>

----------------------------------------------------------------------------
\* Mutant of Poll: the answer is not looked at.
PollBlind(s) ==
    LET c == cur[s] IN
    /\ pc[s] = "poll"
    /\ Ask(s, c)
    /\ Goto(s, "charge")
    /\ UNCHANGED <<phase, cur, step, sentAt, polls, gaveUp, lost, node, faults, restarts>>

\* WaitForSetupCompletion: an attempt; the last one in vain is the end of it.
Poll(s) ==
    LET c == cur[s] IN
    /\ pc[s] = "poll"
    /\ \/ /\ Deployed(s, c) /\ Ask(s, c)
          /\ Goto(s, "charge")
          /\ polls' = [polls EXCEPT ![s] = 0] /\ UNCHANGED <<gaveUp, faults>>
       \/ /\ \/ ~Deployed(s, c) /\ Ask(s, c) /\ UNCHANGED faults
             \/ Unanswered(s, c)
          /\ IF polls[s] + 1 < MaxPolls
               THEN /\ polls' = [polls EXCEPT ![s] = @ + 1]
                    /\ UNCHANGED <<pc, gaveUp>>
               ELSE /\ polls' = [polls EXCEPT ![s] = 0]
                    /\ Goto(s, "charge") /\ gaveUp' = gaveUp \cup {s}
    /\ UNCHANGED <<phase, cur, step, sentAt, lost, node, restarts>>

\* DoChargingWork: the deployer mints, or transfers, to the slave's reservoir.
Charge(s) ==
    LET c    == cur[s]
        mint == [nonce |-> NonceOf(s, c), kind |-> "mint", by |-> s] IN
    /\ pc[s] = "charge"
    /\ IF c \in Minting
         THEN /\ Transfer(s, c, mint)
              /\ lost' = IF mint \in pool'[c] THEN lost ELSE lost \cup {s}
         ELSE UNCHANGED <<nonce, lost, pool, faults>>
    /\ NextContract(s)
    /\ UNCHANGED <<step, sentAt, polls, gaveUp, chain, funded, registry, supplied, restarts>>

----------------------------------------------------------------------------
\* A slave is stopped, wherever it is, and started again.
Restart(s) ==
    /\ Trouble /\ restarts < MaxRestarts
    /\ restarts' = restarts + 1
    /\ Goto(s, Start(s))
    /\ phase' = [phase EXCEPT ![s] = IF s \in Leaders THEN 1 ELSE 2]
    /\ cur' = [cur EXCEPT ![s] = 1]
    /\ nonce' = [nonce EXCEPT ![s] = [c \in Contracts |-> 0]]
    /\ polls' = [polls EXCEPT ![s] = 0]
    /\ lost' = lost \ {s}
    /\ UNCHANGED <<step, sentAt, gaveUp, node, faults>>

\* The manager adds liquidity it has no tokens for.
Short(a, x) == /\ a = Manager /\ x.nonce = ManagerTxs - 1
               /\ \A i \in 1..Len(chain[Token]) : chain[Token][i] # "supply"

\* A block executes the next transaction of a sender, or reverts it.  Senders
\* come in any order.
Mine(a) ==
    \E x \in Slot(a, Executed(a)) :
        /\ pool' = [pool EXCEPT ![a] = @ \ {x}]
        /\ \/ /\ UNCHANGED faults
              /\ chain' = [chain EXCEPT ![a] = Append(@, IF Short(a, x) THEN "short"
                                                                       ELSE x.kind)]
           \/ /\ x.kind # "mint" /\ Fault
              /\ chain' = [chain EXCEPT ![a] = Append(@, "reverted")]
        /\ UNCHANGED <<place, nonce, gaveUp, lost, funded, registry, supplied, restarts>>

Activate(c) ==
    /\ registry[c] = "registered"
    /\ registry' = [registry EXCEPT ![c] = "active"]
    /\ UNCHANGED <<place, nonce, gaveUp, lost, chain, pool, funded, supplied, faults, restarts>>

Slave(s) == \/ Check(s) \/ Fund(s) \/ DeployAccepted(s) \/ DeploySkipped(s)
            \/ DeployRetried(s) \/ DeployMined(s) \/ DeployFailed(s)
            \/ SetupWork(s) \/ Supply(s) \/ SupplyTokens(s) \/ FixedSent(s)
            \/ FixedSkipped(s) \/ FixedMined(s) \/ FixedFailed(s)
            \/ Register(s) \/ RegisterAbandoned(s) \/ RegisterLate(s) \/ TargetReached(s) \/ TargetMissed(s)
            \/ Poll(s) \/ Charge(s)

Finished(s) == pc[s] \in {"done", "exited"}

\* What is tried for ever: the manager's transaction that is refused for want
\* of money, and the registration that comes too late.
Starved(s) == /\ pc[s] = "fixed" /\ FixedSender(s) = Manager /\ ~supplied
              /\ Fresh(Manager, FixedNonce(s))

Stuck(s) == Starved(s) \/ pc[s] = "late"

Terminated == /\ \A s \in Slaves : Finished(s) \/ Stuck(s)
              /\ UNCHANGED vars

Next == \/ \E s \in Slaves : Slave(s) \/ Restart(s)
        \/ \E a \in Senders : Mine(a)
        \/ \E c \in Contracts : Activate(c)
        \/ Terminated

Spec == Init /\ [][Next]_vars

\* Slaves run, blocks are made and the target block comes.
Fairness == /\ \A s \in Slaves : WF_vars(Slave(s))
            /\ \A a \in Senders : WF_vars(Mine(a))
            /\ \A c \in Contracts : WF_vars(Activate(c))

FairSpec == Spec /\ Fairness

----------------------------------------------------------------------------
Undisturbed == /\ Cardinality(Leaders) = 1
               /\ faults = 0 /\ restarts = 0 /\ gaveUp = {}

\* The contract is where everybody looks for it: at the address of the first
\* transaction of its deployer.
Code(c) == chain[c] # <<>> /\ chain[c][1] = "deploy"

\* "Wait for deploy/setup completion" (accgroup.go:187): nobody charges
\* with a contract that is not there, unless something failed on the way.
CodeThere == Undisturbed => \A s \in Slaves : pc[s] = "charge" => Code(cur[s])

\* Deployments of c in blocks and in the pool.
InBlocks(c) == {i \in 1..Len(chain[c]) : chain[c][i] = "deploy"}
InPool(c)   == {x \in pool[c] : x.kind = "deploy"}

\* "deploys only one smart contract among the slaves" (account.go:1441): a
\* contract is deployed once by each leader, and once more at most for a failure
\* or a restart.
DeploymentsBounded ==
    \A c \in Contracts :
        Cardinality(InBlocks(c)) + Cardinality(InPool(c)) <= Cardinality(Leaders) + faults + restarts

\* The tokens were there when the manager added liquidity.
TokensInTime == \A i \in 1..Len(chain[Manager]) : chain[Manager][i] # "short"

LiquiditySetUp(c) ==
    /\ \A i \in 1..ManagerTxs : i <= Len(chain[Manager]) /\ chain[Manager][i] = "setup"
    /\ Len(chain[c]) >= 2 /\ chain[c][2] = "setup"

\* "Each nonce is fixed, and if that nonce is used, the setup is considered
\* complete and is skipped" (contract.go:782): when the swap router is active in
\* the registry, each fixed nonce was used by its own transaction.
SetupComplete ==
    TokensInTime =>
        \A c \in Routers \cap Gasless : registry[c] = "active" => LiquiditySetUp(c)

\* The same where nothing failed and no slave was started again: the skipped
\* steps of SetupLiquidity were done, and what is active in the registry stands
\* for the deployment of every contract that asks for it (contract.go:763).
SetupUndisturbed ==
    Undisturbed => /\ SetupComplete
                   /\ \A c \in Contracts : Keeper(c) # 0 /\ registry[Keeper(c)] = "active"
                          => Code(c)

\* "Charging work - all slaves execute" (accgroup.go:208): every slave that has
\* come through has had its mints taken by the node, where nothing failed.
AllCharged == Undisturbed => \A s \in Slaves : pc[s] = "done" => s \notin lost

\* Every slave comes through, also with failures and restarts (accgroup.go:164,
\* 187), except a leader whose unretried transfer to the manager failed
\* (contract.go:384) or whose registration came too late (contract.go:892).
AllFinish == \A s \in Slaves : <>[](Finished(s) \/ Stuck(s))
=============================================================================
