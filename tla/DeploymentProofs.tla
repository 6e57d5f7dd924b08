-------------------------- MODULE DeploymentProofs ---------------------------
(***************************************************************************)
(* The deployment for any number of slaves, contracts, polls and manager   *)
(* transactions.  Types hold whatever fails, and so does the bound on how  *)
(* often a contract is deployed, for any number of leaders.  With one      *)
(* leader, and as long as nothing fails, the contracts are deployed one    *)
(* after the other: what the leader has passed is on the chain, what it    *)
(* has not come to has been touched by nobody, and a contract is           *)
(* registered only when all that is deployed and set up with it is.        *)
(***************************************************************************)
EXTENDS Deployment, FiniteSetTheorems, WellFoundedInduction, TLAPS

USE DeploymentAssumption DEF DeploymentAssumption

----------------------------------------------------------------------------
Leading   == {"check", "fund", "deploy", "waitDeploy", "setup", "fixed", "waitFixed",
              "supply", "tokens", "register", "await", "late", "exited"}
Liquidity == {"supply", "tokens", "fixed", "waitFixed"}

\* Which slave is where.
Placed ==
    \A s \in Slaves :
        /\ s \notin Leaders => phase[s] = 2 /\ pc[s] \in {"poll", "charge", "done"}
        /\ s \in Leaders /\ phase[s] = 1 => pc[s] \in Leading
        /\ s \in Leaders /\ phase[s] = 2 => pc[s] \in {"charge", "done"}
        /\ pc[s] \in Liquidity => cur[s] \in Gasless \cap Routers
        /\ pc[s] \in {"register", "await", "late"} => cur[s] \in Routers

\* The leader has passed the deployment of c, or waits for it.
Behind(l, c)  == \/ phase[l] = 2
                 \/ c < cur[l]
                 \/ c = cur[l] /\ pc[l] \notin {"check", "fund", "deploy", "waitDeploy"}
Awaited(l, c) == phase[l] = 1 /\ c = cur[l] /\ pc[l] = "waitDeploy"

\* A contract before, during and after its deployment.
Blank(c)  == chain[c] = <<>> /\ pool[c] = {}
Coming(c) == chain[c] = <<>> /\ pool[c] = {Deployment(0)}
Only(c)   == /\ Code(c)
             /\ \A i \in 2..Len(chain[c]) : chain[c][i] # "deploy"
             /\ \A x \in pool[c] : x.kind # "deploy"

Deployments(l) ==
    \A c \in Contracts :
        /\ Behind(l, c) => Only(c)
        /\ Awaited(l, c) => sentAt[l] = 0 /\ (Coming(c) \/ Only(c))
        /\ ~Behind(l, c) /\ ~Awaited(l, c) => Blank(c)

Cached(l) ==
    \A s \in Slaves, c \in Contracts :
        nonce[s][c] # 0 => Code(c) \/ (s = l /\ Awaited(l, c))

Registrations(l) ==
    \A k \in Contracts :
        /\ registry[k] # "none" => /\ k \in Routers /\ Behind(l, k)
                                   /\ phase[l] = 1 /\ k = cur[l] => pc[l] = "await"
        /\ k \in Routers /\ (phase[l] = 2 \/ k < cur[l]) => registry[k] = "active"

\* The contract is there, and what it asks in the registry is active.
Ready(c) == Code(c) /\ (Keeper(c) # 0 => registry[Keeper(c)] = "active")

Charges == \A s \in Slaves : pc[s] = "charge" => Ready(cur[s])

ManagerKinds ==
    /\ \A i \in 1..Len(chain[Manager]) : chain[Manager][i] \in {"setup", "short"}
    /\ \A x \in pool[Manager] : x.kind = "setup"

SetUp(c) == /\ Len(chain[Manager]) >= ManagerTxs
            /\ Len(chain[c]) >= 2 /\ chain[c][2] = "setup"

\* Until it is registered, the router's deployer sends what sets it up only.
RouterKinds ==
    \A c \in Routers \cap Gasless : registry[c] = "none" =>
        /\ \A i \in 2..Len(chain[c]) : chain[c][i] = "setup"
        /\ Code(c) => \A x \in pool[c] : x.kind = "setup"

Setups(l) ==
    /\ pc[l] \in {"fixed", "waitFixed"} => Len(chain[Manager]) >= step[l] - 1
    /\ \A c \in Routers \cap Gasless :
          registry[c] # "none" \/ (pc[l] = "register" /\ cur[l] = c) => SetUp(c)

InOrder(l) == /\ Deployments(l) /\ Cached(l) /\ Registrations(l) /\ Charges
              /\ ManagerKinds /\ RouterKinds /\ Setups(l)

DInv == TypeOK /\ Placed /\ (Undisturbed => \A l \in Leaders : InOrder(l))

----------------------------------------------------------------------------
\* A set of contracts has a first and a last one.
LEMMA Extremes ==
    ASSUME NEW S \in SUBSET Contracts, S # {}
    PROVE  /\ \E c \in S : \A d \in S : c <= d
           /\ \E c \in S : \A d \in S : d <= c
<1>1. ASSUME NEW T \in SUBSET Nat, T # {} PROVE \E x \in T : \A y \in T : x <= y
  <2> DEFINE R == OpToRel(<, Nat)
  <2>1. IsWellFoundedOn(R, Nat)
    BY NatLessThanWellFounded
  <2>2. \A x, y \in Nat : y < x => <<y, x>> \in R
    BY DEF OpToRel
  <2> HIDE DEF R
  <2>3. PICK x \in T : \A y \in T : ~(<<y, x>> \in R)
    BY <1>1, <2>1, WFMin
  <2>4. ASSUME NEW y \in T PROVE x <= y
    <3>1. x \in Nat /\ y \in Nat
      BY <1>1
    <3>2. ~(y < x)
      BY <2>2, <2>3, <3>1
    <3> QED
      BY <3>1, <3>2
  <2> QED
    BY <2>4
<1>2. \E c \in S : \A d \in S : c <= d
  <2>1. S \in SUBSET Nat
    BY DEF Contracts
  <2> QED
    BY <1>1, <2>1
<1>3. \E c \in S : \A d \in S : d <= c
  <2> DEFINE T == {NumContracts - d : d \in S}
  <2>1. T \in SUBSET Nat /\ T # {}
    <3>1. \A d \in S : NumContracts - d \in Nat
      BY DEF Contracts
    <3> QED
      BY <3>1
  <2>2. PICK x \in T : \A y \in T : x <= y
    BY <1>1, <2>1
  <2>3. PICK c \in S : x = NumContracts - c
    OBVIOUS
  <2>4. ASSUME NEW d \in S PROVE d <= c
    <3>1. NumContracts - d \in T
      OBVIOUS
    <3>2. NumContracts - c <= NumContracts - d
      BY <2>2, <2>3, <3>1
    <3> QED
      BY <3>2 DEF Contracts
  <2> QED
    BY <2>4
<1> QED
  BY <1>2, <1>3

\* A keeper comes after what it stands for and keeps itself; the token is
\* another contract than the swap router.
LEMMA Keepers ==
    /\ \A c \in Contracts : \/ Keeper(c) = 0
                            \/ Keeper(c) \in Routers /\ c <= Keeper(c)
    /\ Routers \subseteq Contracts
    /\ \A k \in Routers : Keeper(k) = k /\ k # 0
    /\ Gasless # {} => Token \in Gasless /\ Token \in Contracts
    /\ \A c \in Routers \cap Gasless : Token < c
<1> DEFINE Last(S) == Registered(S) \in S /\ \A d \in S : d <= Registered(S)
<1>1. ASSUME NEW S \in SUBSET Contracts, S # {} PROVE Last(S)
  <2>1. \E c \in S : \A d \in S : d <= c
    BY <1>1, Extremes
  <2> QED
    BY <2>1 DEF Registered
<1>2. Gasless \in SUBSET Contracts /\ Auctions \in SUBSET Contracts
  OBVIOUS
<1>3. Gasless # {} => Last(Gasless)
  BY <1>1, <1>2
<1>4. Auctions # {} => Last(Auctions)
  BY <1>1, <1>2
<1>5. Gasless # {} => Token \in Gasless /\ \A d \in Gasless : Token <= d
  <2>1. Gasless # {} => \E c \in Gasless : \A d \in Gasless : c <= d
    BY <1>2, Extremes
  <2> QED
    BY <2>1 DEF Token
<1>6. ASSUME NEW c \in Contracts PROVE Keeper(c) = 0 \/ (Keeper(c) \in Routers /\ c <= Keeper(c))
  <2>1. CASE c \in Gasless
    <3>1. Keeper(c) = Registered(Gasless) /\ Keeper(Registered(Gasless)) = Registered(Gasless)
      BY <1>3, <2>1 DEF Keeper
    <3> QED
      BY <1>2, <1>3, <2>1, <3>1 DEF Routers
  <2>2. CASE c \in Auctions
    <3>1. c \notin Gasless /\ Registered(Auctions) \notin Gasless
      BY <1>4, <2>2
    <3>2. Keeper(c) = Registered(Auctions) /\ Keeper(Registered(Auctions)) = Registered(Auctions)
      BY <1>4, <2>2, <3>1 DEF Keeper
    <3> QED
      BY <1>2, <1>4, <2>2, <3>2 DEF Routers
  <2>3. CASE c \notin Gasless /\ c \notin Auctions
    BY <2>3 DEF Keeper
  <2> QED
    BY <2>1, <2>2, <2>3
<1>7. ASSUME NEW c \in Routers \cap Gasless PROVE Token < c
  <2>1. c = Registered(Gasless)
    BY DEF Routers, Keeper
  <2>2. \A d \in Gasless : d <= c
    BY <1>3, <2>1
  <2>3. Token \in Gasless /\ Token <= c /\ c \in Nat /\ Token \in Nat
    <3>1. Token \in Gasless /\ Token <= c
      BY <1>5
    <3>2. \A d \in Gasless : d \in Nat
      BY <1>2 DEF Contracts
    <3> QED
      BY <3>1, <3>2
  <2>4. ASSUME Token = c PROVE FALSE
    <3>1. \A d \in Gasless : d = c
      <4>1. \A d \in Gasless : c <= d /\ d <= c /\ d \in Nat
        BY <1>2, <1>5, <2>2, <2>4 DEF Contracts
      <4> QED
        BY <2>3, <4>1
    <3>2. Gasless = {c}
      BY <3>1
    <3> QED
      BY <3>2, FS_Singleton
  <2> QED
    BY <2>3, <2>4
<1>8. \A k \in Contracts : k # 0
  BY DEF Contracts
<1>9. Routers \subseteq Contracts /\ \A k \in Routers : Keeper(k) = k
  BY DEF Routers
<1> QED
  BY <1>2, <1>5, <1>6, <1>7, <1>8, <1>9
----------------------------------------------------------------------------
\* Types, and which slave is where: whatever fails.
LEMMA SenderTypes == Contracts \subseteq Nat /\ Manager \in Senders /\ Contracts \subseteq Senders
  BY DEF Contracts, Manager, Senders

LEMMA TxTypes ==
    /\ \A n \in Nat : Deployment(n) \in Tx
    /\ \A n \in Nat, kind \in Kinds, by \in Slaves \cup {NoSlave} :
          [nonce |-> n, kind |-> kind, by |-> by] \in Tx
  BY DEF Deployment, Tx, Kinds

LEMMA NodeTypes ==
    ASSUME TypeOK
    PROVE  /\ \A a \in Senders : Executed(a) \in Nat
           /\ \A s \in Slaves, c \in Contracts : nonce[s][c] \in Nat /\ NonceOf(s, c) \in Nat
  BY SenderTypes DEF TypeOK, Executed, NonceOf

LEMMA NonceTypes ==
    ASSUME TypeOK, NEW s \in Slaves, NEW c \in Contracts, NEW n \in Nat,
           nonce' = [nonce EXCEPT ![s][c] = n]
    PROVE  nonce' \in [Slaves -> [Contracts -> Nat]]
<1>1. nonce[s] \in [Contracts -> Nat]
  BY DEF TypeOK
<1>2. [nonce[s] EXCEPT ![c] = n] \in [Contracts -> Nat]
  BY <1>1
<1>3. nonce' = [nonce EXCEPT ![s] = [nonce[s] EXCEPT ![c] = n]]
  OBVIOUS
<1> QED
  BY <1>2, <1>3 DEF TypeOK

LEMMA NonceAt ==
    ASSUME TypeOK, NEW s \in Slaves, NEW c \in Contracts, NEW n,
           nonce' = [nonce EXCEPT ![s][c] = n],
           NEW r \in Slaves, NEW d \in Contracts
    PROVE  nonce'[r][d] = IF r = s /\ d = c THEN n ELSE nonce[r][d]
<1>1. nonce \in [Slaves -> [Contracts -> Nat]]
  BY DEF TypeOK
<1>2. nonce'[r] = IF r = s THEN [nonce[s] EXCEPT ![c] = n] ELSE nonce[r]
  BY <1>1
<1> QED
  BY <1>1, <1>2

LEMMA PoolTypes ==
    ASSUME TypeOK, NEW a \in Senders, NEW P \in SUBSET Tx, pool' = [pool EXCEPT ![a] = P]
    PROVE  pool' \in [Senders -> SUBSET Tx]
  BY DEF TypeOK

LEMMA ChainTypes ==
    ASSUME TypeOK, NEW a \in Senders, NEW kind \in Kinds,
           chain' = [chain EXCEPT ![a] = Append(@, kind)]
    PROVE  chain' \in [Senders -> Seq(Kinds)]
  BY DEF TypeOK

\* What the loops over the contracts change.
LEMMA NextOne ==
    ASSUME TypeOK, NEW s \in Slaves, NextContract(s)
    PROVE  /\ cur' \in [Slaves -> Contracts] /\ phase' \in [Slaves -> {1, 2}]
           /\ pc' \in [Slaves -> Places]
           /\ \A r \in Slaves \ {s} : cur'[r] = cur[r] /\ phase'[r] = phase[r] /\ pc'[r] = pc[r]
           /\ \/ cur[s] = NumContracts /\ phase[s] = 2 /\ pc'[s] = "done" /\ phase'[s] = 2
              \/ /\ cur[s] = NumContracts /\ phase[s] = 1 /\ phase'[s] = 2 /\ cur'[s] = 1
                 /\ pc'[s] = IF s \in Leaders THEN "charge" ELSE "poll"
              \/ /\ cur[s] # NumContracts /\ phase[s] = 1 /\ phase'[s] = 1 /\ cur'[s] = cur[s] + 1
                 /\ pc'[s] = "check"
              \/ /\ cur[s] # NumContracts /\ phase[s] = 2 /\ phase'[s] = 2 /\ cur'[s] = cur[s] + 1
                 /\ pc'[s] = IF s \in Leaders THEN "charge" ELSE "poll"
<1> USE DEF TypeOK
<1>1. cur[s] \in Contracts /\ phase[s] \in {1, 2}
  OBVIOUS
<1>2. 1 \in Contracts /\ (cur[s] # NumContracts => cur[s] + 1 \in Contracts)
  BY <1>1 DEF Contracts
<1>3. cur' \in [Slaves -> Contracts] /\ phase' \in [Slaves -> {1, 2}]
  BY <1>1, <1>2 DEF NextContract
<1>4. pc' \in [Slaves -> Places]
  BY DEF NextContract, Goto, Places
<1>5. \A r \in Slaves \ {s} : cur'[r] = cur[r] /\ phase'[r] = phase[r] /\ pc'[r] = pc[r]
  BY DEF NextContract, Goto
<1> QED
  BY <1>1, <1>3, <1>4, <1>5 DEF NextContract, Goto

\* TransferSignedTx changes the nonce and the pool of its sender.
LEMMA TransferTypes ==
    ASSUME TypeOK, NEW s \in Slaves, NEW c \in Contracts, NEW tx \in Tx, Transfer(s, c, tx)
    PROVE  /\ nonce' \in [Slaves -> [Contracts -> Nat]]
           /\ pool' \in [Senders -> SUBSET Tx]
           /\ faults' \in Nat
<1>1. tx.nonce \in Nat /\ tx.nonce + 1 \in Nat /\ NonceOf(s, c) \in Nat
  BY NodeTypes DEF Tx
<1>2. nonce' \in [Slaves -> [Contracts -> Nat]]
  BY <1>1, NonceTypes DEF Transfer, Advance, Cache
<1>3. pool' \in [Senders -> SUBSET Tx]
  <2>1. pool \in [Senders -> SUBSET Tx] /\ c \in Senders
    BY SenderTypes DEF TypeOK
  <2> QED
    BY <2>1 DEF Transfer, Accept
<1>4. faults' \in Nat
  BY DEF Transfer, Fault, TypeOK
<1> QED
  BY <1>2, <1>3, <1>4

LEMMA InitType == Init => TypeOK /\ Placed
<1> SUFFICES ASSUME Init PROVE TypeOK /\ Placed
  OBVIOUS
<1>1. 1 \in Contracts /\ 1 \in 1..(ManagerTxs + 1) /\ 0 \in 0..MaxPolls
  BY DEF Contracts
<1>2. /\ pc \in [Slaves -> Places] /\ phase \in [Slaves -> {1, 2}]
      /\ cur \in [Slaves -> Contracts] /\ step \in [Slaves -> 1..(ManagerTxs + 1)]
      /\ sentAt \in [Slaves -> Nat] /\ polls \in [Slaves -> 0..MaxPolls]
  BY <1>1 DEF Init, Start, Places
<1>3. nonce \in [Slaves -> [Contracts -> Nat]]
  <2>1. [c \in Contracts |-> 0] \in [Contracts -> Nat]
    OBVIOUS
  <2> QED
    BY <2>1 DEF Init
<1>4. chain \in [Senders -> Seq(Kinds)] /\ pool \in [Senders -> SUBSET Tx]
  BY DEF Init
<1>5. TypeOK
  BY <1>2, <1>3, <1>4 DEF Init, TypeOK
<1>6. Placed
  BY DEF Init, Placed, Start, Leading, Liquidity
<1> QED
  BY <1>5, <1>6

LEMMA TypeStep == TypeOK /\ Placed /\ [Next]_vars => TypeOK'
<1> SUFFICES ASSUME TypeOK, Placed, [Next]_vars PROVE TypeOK'
  OBVIOUS
<1>s. Contracts \subseteq Nat /\ Manager \in Senders /\ Contracts \subseteq Senders
  BY SenderTypes
<1>f. Fault => faults' \in Nat
  BY DEF TypeOK, Fault
<1>1. ASSUME NEW s \in Slaves, Check(s) PROVE TypeOK'
  <2>1. cur[s] \in Contracts /\ NonceOf(s, cur[s]) \in Nat
    BY NodeTypes DEF TypeOK
  <2>2. nonce' \in [Slaves -> [Contracts -> Nat]]
    <3>1. nonce' = nonce \/ nonce' = [nonce EXCEPT ![s][cur[s]] = NonceOf(s, cur[s])]
      BY <1>1 DEF Check, Ask, Cache, Unanswered
    <3> QED
      BY <2>1, <3>1, NonceTypes DEF TypeOK
  <2>3. pc' \in [Slaves -> Places] /\ faults' \in Nat
    BY <1>1, <1>f DEF Check, Goto, Places, Unanswered, TypeOK
  <2> QED
    BY <1>1, <2>2, <2>3 DEF Check, TypeOK, node
<1>2. ASSUME NEW s \in Slaves, Fund(s) PROVE TypeOK'
  BY <1>2 DEF Fund, TypeOK, Goto, Places
<1>3. ASSUME NEW s \in Slaves, DeployAccepted(s) PROVE TypeOK'
  <2> DEFINE n == NonceOf(s, cur[s])
  <2>1. cur[s] \in Contracts /\ n \in Nat /\ Deployment(n) \in Tx
    BY NodeTypes, TxTypes DEF TypeOK
  <2>2. nonce' \in [Slaves -> [Contracts -> Nat]]
    <3>1. n + 1 \in Nat /\ nonce' = [nonce EXCEPT ![s][cur[s]] = n + 1]
      BY <1>3, <2>1 DEF DeployAccepted, Advance
    <3> QED
      BY <2>1, <3>1, NonceTypes
  <2>3. pool' \in [Senders -> SUBSET Tx]
    BY <1>3, <1>s, <2>1 DEF DeployAccepted, Accept, TypeOK
  <2>4. sentAt' \in [Slaves -> Nat] /\ pc' \in [Slaves -> Places]
    BY <1>3, <2>1 DEF DeployAccepted, TypeOK, Goto, Places
  <2> QED
    BY <1>3, <2>2, <2>3, <2>4 DEF DeployAccepted, TypeOK
<1>4. ASSUME NEW s \in Slaves, DeploySkipped(s) PROVE TypeOK'
  <2> DEFINE n == NonceOf(s, cur[s])
  <2>1. cur[s] \in Contracts /\ n \in Nat
    BY NodeTypes DEF TypeOK
  <2>2. nonce' \in [Slaves -> [Contracts -> Nat]]
    <3>1. \E m \in {n, n + 1, 0 + 1} : nonce' = [nonce EXCEPT ![s][cur[s]] = m]
      BY <1>4 DEF DeploySkipped, Advance, Cache
    <3> HIDE DEF n
    <3>2. {n, n + 1, 0 + 1} \subseteq Nat
      BY <2>1
    <3> QED
      BY <2>1, <3>1, <3>2, NonceTypes
  <2>3. pc' \in [Slaves -> Places] /\ faults' \in Nat
    BY <1>4, <1>f DEF DeploySkipped, TypeOK, Goto, Places
  <2> QED
    BY <1>4, <2>2, <2>3 DEF DeploySkipped, TypeOK, node
<1>5. ASSUME NEW s \in Slaves, DeployRetried(s) PROVE TypeOK'
  <2> DEFINE n == NonceOf(s, cur[s])
  <2>1. cur[s] \in Contracts /\ n \in Nat /\ Deployment(n) \in Tx
    BY NodeTypes, TxTypes DEF TypeOK
  <2>2. nonce' \in [Slaves -> [Contracts -> Nat]]
    <3>1. \E m \in {n, n + 1} : nonce' = [nonce EXCEPT ![s][cur[s]] = m]
      BY <1>5 DEF DeployRetried, Advance, Cache
    <3> HIDE DEF n
    <3>2. {n, n + 1} \subseteq Nat
      BY <2>1
    <3> QED
      BY <2>1, <3>1, <3>2, NonceTypes
  <2>3. pool' \in [Senders -> SUBSET Tx] /\ faults' \in Nat
    <3>1. /\ \/ pool' = pool
             \/ pool' = [pool EXCEPT ![cur[s]] = @ \cup {Deployment(n)}]
          /\ faults' = faults \/ Fault
      BY <1>5 DEF DeployRetried, Accept
    <3> HIDE DEF n
    <3> QED
      BY <1>f, <1>s, <2>1, <3>1 DEF TypeOK
  <2> QED
    BY <1>5, <2>2, <2>3 DEF DeployRetried, TypeOK, place
<1>6. ASSUME NEW s \in Slaves, DeployMined(s) PROVE TypeOK'
  BY <1>6 DEF DeployMined, TypeOK, Goto, Places, node
<1>7. ASSUME NEW s \in Slaves, DeployFailed(s) PROVE TypeOK'
  <2>1. nonce' \in [Slaves -> [Contracts -> Nat]]
    BY <1>7, NonceTypes DEF DeployFailed, ResetNonce, TypeOK
  <2>2. pc' \in [Slaves -> Places] /\ faults' \in Nat
    BY <1>7, <1>f DEF DeployFailed, TypeOK, Goto, Places
  <2> QED
    BY <1>7, <2>1, <2>2 DEF DeployFailed, TypeOK, node
<1>8. ASSUME NEW s \in Slaves, SetupWork(s) PROVE TypeOK'
  <2>1. faults' \in Nat
    BY <1>8, <1>f DEF SetupWork, TypeOK
  <2>2. CASE NextContract(s)
    BY <1>8, <2>1, <2>2, NextOne DEF SetupWork, TypeOK, node
  <2>3. CASE ~NextContract(s)
    <3>1. pc' \in [Slaves -> Places] /\ UNCHANGED <<phase, cur>>
      BY <1>8, <2>3 DEF SetupWork, TypeOK, Goto, Places
    <3> QED
      BY <1>8, <2>1, <3>1 DEF SetupWork, TypeOK, node
  <2> QED
    BY <2>2, <2>3
<1>9. ASSUME NEW s \in Slaves, Supply(s) PROVE TypeOK'
  BY <1>9, <1>f DEF Supply, TypeOK, Goto, Places
<1>10. ASSUME NEW s \in Slaves, SupplyTokens(s) PROVE TypeOK'
  <2> DEFINE tx == [nonce |-> NonceOf(s, Token), kind |-> "supply", by |-> NoSlave]
  <2>1. Token \in Contracts
    BY <1>10, Keepers DEF SupplyTokens, Placed, Liquidity
  <2>2. tx \in Tx
    BY <2>1, NodeTypes, TxTypes DEF Kinds
  <2>3. /\ nonce' \in [Slaves -> [Contracts -> Nat]] /\ pool' \in [Senders -> SUBSET Tx]
        /\ faults' \in Nat
    <3> HIDE DEF tx
    <3>1. Transfer(s, Token, tx)
      BY <1>10 DEF SupplyTokens, tx
    <3> QED
      BY <2>1, <2>2, <3>1, TransferTypes
  <2>4. step' \in [Slaves -> 1..(ManagerTxs + 1)] /\ pc' \in [Slaves -> Places]
    BY <1>10 DEF SupplyTokens, TypeOK, Goto, Places
  <2> QED
    BY <1>10, <2>3, <2>4 DEF SupplyTokens, TypeOK
<1>11. ASSUME NEW s \in Slaves, FixedSent(s) PROVE TypeOK'
  <2>1. FixedSender(s) \in Senders /\ FixedNonce(s) \in Nat
    <3>1. step[s] \in 1..(ManagerTxs + 1) /\ cur[s] \in Contracts
      BY DEF TypeOK
    <3>2. step[s] - 1 \in Nat
      BY <3>1
    <3> QED
      BY <1>s, <3>1, <3>2 DEF FixedSender, FixedNonce
  <2>2. FixedTx(s) \in Tx
    BY <2>1, TxTypes DEF FixedTx, Kinds
  <2>3. pool' \in [Senders -> SUBSET Tx]
    BY <1>11, <2>1, <2>2 DEF FixedSent, Accept, TypeOK
  <2>4. pc' \in [Slaves -> Places] /\ faults' \in Nat
    BY <1>11, <1>f DEF FixedSent, TypeOK, Goto, Places
  <2> QED
    BY <1>11, <2>3, <2>4 DEF FixedSent, TypeOK
<1>12. ASSUME NEW s \in Slaves, FixedSkipped(s) \/ FixedMined(s) PROVE TypeOK'
  <2>1. step' \in [Slaves -> 1..(ManagerTxs + 1)] /\ pc' \in [Slaves -> Places]
    <3>1. step[s] \in 1..(ManagerTxs + 1)
      BY DEF TypeOK
    <3>2. step[s] <= ManagerTxs => step[s] + 1 \in 1..(ManagerTxs + 1)
      BY <3>1
    <3>3. /\ pc' = [pc EXCEPT ![s] = "fixed"] \/ pc' = [pc EXCEPT ![s] = "register"]
          /\ \/ step' = step
             \/ step[s] <= ManagerTxs /\ step' = [step EXCEPT ![s] = step[s] + 1]
      BY <1>12 DEF FixedSkipped, FixedMined, AfterFixed, Goto
    <3>4. pc' \in [Slaves -> Places]
      BY <3>3 DEF TypeOK, Places
    <3>5. step \in [Slaves -> 1..(ManagerTxs + 1)]
      BY DEF TypeOK
    <3> HIDE DEF TypeOK
    <3>6. step' \in [Slaves -> 1..(ManagerTxs + 1)]
      <4> DEFINE steps == 1..(ManagerTxs + 1)
      <4>1. step \in [Slaves -> steps] /\ (step[s] <= ManagerTxs => step[s] + 1 \in steps)
        BY <3>2, <3>5
      <4> HIDE DEF steps
      <4>2. step' \in [Slaves -> steps]
        BY <3>3, <4>1
      <4> QED
        BY <4>2 DEF steps
    <3> QED
      BY <3>4, <3>6
  <2> QED
    BY <1>12, <2>1 DEF FixedSkipped, FixedMined, TypeOK, node
<1>13. ASSUME NEW s \in Slaves, FixedFailed(s) PROVE TypeOK'
  <2>1. nonce' \in [Slaves -> [Contracts -> Nat]]
    BY <1>13, NonceTypes DEF FixedFailed, ResetNonce, TypeOK
  <2>2. pc' \in [Slaves -> Places] /\ faults' \in Nat
    BY <1>13, <1>f DEF FixedFailed, TypeOK, Goto, Places
  <2> QED
    BY <1>13, <2>1, <2>2 DEF FixedFailed, TypeOK, node
<1>14. ASSUME NEW s \in Slaves, Register(s) \/ RegisterLate(s) \/ TargetMissed(s) PROVE TypeOK'
  BY <1>14, <1>f DEF Register, RegisterLate, TargetMissed, TypeOK, Goto, Places, node
<1>15. ASSUME NEW s \in Slaves, RegisterAbandoned(s) \/ TargetReached(s) PROVE TypeOK'
  <2>1. NextContract(s) /\ faults' \in Nat
    BY <1>15, <1>f DEF RegisterAbandoned, TargetReached, TypeOK
  <2> QED
    BY <1>15, <2>1, NextOne DEF RegisterAbandoned, TargetReached, TypeOK, node
<1>16. ASSUME NEW s \in Slaves, Poll(s) PROVE TypeOK'
  <2>1. cur[s] \in Contracts /\ NonceOf(s, cur[s]) \in Nat
    BY NodeTypes DEF TypeOK
  <2>2. nonce' \in [Slaves -> [Contracts -> Nat]]
    <3>1. nonce' = nonce \/ nonce' = [nonce EXCEPT ![s][cur[s]] = NonceOf(s, cur[s])]
      BY <1>16 DEF Poll, Ask, Cache, Unanswered
    <3> QED
      BY <2>1, <3>1, NonceTypes DEF TypeOK
  <2>3. pc' \in [Slaves -> Places] /\ faults' \in Nat
    BY <1>16, <1>f DEF Poll, Goto, Places, Unanswered, TypeOK
  <2>4. polls' \in [Slaves -> 0..MaxPolls] /\ gaveUp' \subseteq Slaves
    <3>1. polls[s] \in 0..MaxPolls /\ 0 \in 0..MaxPolls
      BY DEF TypeOK
    <3>2. polls[s] + 1 < MaxPolls => polls[s] + 1 \in 0..MaxPolls
      BY <3>1
    <3>3. \/ polls' = polls
          \/ polls' = [polls EXCEPT ![s] = 0]
          \/ polls' = [polls EXCEPT ![s] = polls[s] + 1] /\ polls[s] + 1 < MaxPolls
      BY <1>16 DEF Poll
    <3>4. gaveUp' = gaveUp \/ gaveUp' = gaveUp \cup {s}
      BY <1>16 DEF Poll
    <3> QED
      BY <3>1, <3>2, <3>3, <3>4 DEF TypeOK
  <2> QED
    BY <1>16, <2>2, <2>3, <2>4 DEF Poll, TypeOK, node
<1>17. ASSUME NEW s \in Slaves, Charge(s) PROVE TypeOK'
  <2> DEFINE c    == cur[s]
             mint == [nonce |-> NonceOf(s, c), kind |-> "mint", by |-> s]
  <2>1. c \in Contracts
    BY DEF TypeOK
  <2>2. mint \in Tx
    BY <2>1, NodeTypes, TxTypes DEF Kinds
  <2>3. /\ nonce' \in [Slaves -> [Contracts -> Nat]] /\ pool' \in [Senders -> SUBSET Tx]
        /\ faults' \in Nat /\ lost' \subseteq Slaves
    <3>1. IF c \in Minting
            THEN Transfer(s, c, mint) /\ (lost' = lost \/ lost' = lost \cup {s})
            ELSE UNCHANGED <<nonce, lost, pool, faults>>
      BY <1>17 DEF Charge
    <3> HIDE DEF c, mint
    <3> QED
      BY <2>1, <2>2, <3>1, TransferTypes DEF TypeOK
  <2>4. NextContract(s)
    BY <1>17 DEF Charge
  <2> QED
    BY <1>17, <2>3, <2>4, NextOne DEF Charge, TypeOK
<1>18. ASSUME NEW s \in Slaves, Restart(s) PROVE TypeOK'
  <2>1. nonce' \in [Slaves -> [Contracts -> Nat]]
    <3>1. [c \in Contracts |-> 0] \in [Contracts -> Nat]
      OBVIOUS
    <3> QED
      BY <1>18, <3>1 DEF Restart, TypeOK
  <2>2. /\ pc' \in [Slaves -> Places] /\ phase' \in [Slaves -> {1, 2}]
        /\ cur' \in [Slaves -> Contracts] /\ polls' \in [Slaves -> 0..MaxPolls]
    BY <1>18 DEF Restart, TypeOK, Goto, Start, Places, Contracts
  <2> QED
    BY <1>18, <2>1, <2>2 DEF Restart, TypeOK, node
<1>19. ASSUME NEW a \in Senders, Mine(a) PROVE TypeOK'
  <2>1. PICK x \in Slot(a, Executed(a)) :
          /\ pool' = [pool EXCEPT ![a] = @ \ {x}]
          /\ faults' = faults \/ Fault
          /\ \E kind \in {x.kind, "short", "reverted"} :
                chain' = [chain EXCEPT ![a] = Append(@, kind)]
    BY <1>19 DEF Mine
  <2>2. x \in Tx /\ x.kind \in Kinds /\ "short" \in Kinds /\ "reverted" \in Kinds
    BY <2>1 DEF Slot, TypeOK, Tx, Kinds
  <2>3. chain' \in [Senders -> Seq(Kinds)]
    BY <2>1, <2>2, ChainTypes
  <2>4. pool' \in [Senders -> SUBSET Tx] /\ faults' \in Nat
    BY <2>1, <1>f DEF TypeOK
  <2> QED
    BY <1>19, <2>3, <2>4 DEF Mine, TypeOK, place
<1>20. ASSUME NEW c \in Contracts, Activate(c) PROVE TypeOK'
  BY <1>20 DEF Activate, TypeOK, place
<1>21. CASE UNCHANGED vars
  BY <1>21 DEF vars, place, node, TypeOK
<1> QED
  BY <1>1, <1>2, <1>3, <1>4, <1>5, <1>6, <1>7, <1>8, <1>9, <1>10, <1>11, <1>12, <1>13,
     <1>14, <1>15, <1>16, <1>17, <1>18, <1>19, <1>20, <1>21
     DEF Next, Slave, Terminated

LEMMA PlacedStep == TypeOK /\ Placed /\ [Next]_vars => Placed'
<1> SUFFICES ASSUME TypeOK, Placed, [Next]_vars PROVE Placed'
  OBVIOUS
<1> DEFINE Fits(s, p, k, c) ==
             /\ s \notin Leaders => k = 2 /\ p \in {"poll", "charge", "done"}
             /\ s \in Leaders /\ k = 1 => p \in Leading
             /\ s \in Leaders /\ k = 2 => p \in {"charge", "done"}
             /\ p \in Liquidity => c \in Gasless \cap Routers
             /\ p \in {"register", "await", "late"} => c \in Routers
<1>p. \A s \in Slaves : Fits(s, pc[s], phase[s], cur[s])
  BY DEF Placed
<1>t. \A s \in Slaves : phase[s] \in {1, 2}
  BY DEF TypeOK
\* One slave moves.
<1>m. ASSUME NEW s \in Slaves, Fits(s, pc'[s], phase'[s], cur'[s]),
             \A r \in Slaves \ {s} : cur'[r] = cur[r] /\ phase'[r] = phase[r] /\ pc'[r] = pc[r]
      PROVE  Placed'
  BY <1>m, <1>p DEF Placed
\* It goes on with the contract it works on.
<1>g. ASSUME NEW s \in Slaves, NEW where, Goto(s, where), UNCHANGED <<phase, cur>>,
             Fits(s, where, phase[s], cur[s])
      PROVE  Placed'
  <2>1. pc'[s] = where /\ \A r \in Slaves \ {s} : pc'[r] = pc[r]
    BY <1>g DEF Goto, TypeOK
  <2> QED
    BY <1>g, <1>m, <2>1
\* It goes on with the next one.
<1>n. ASSUME NEW s \in Slaves, NextContract(s) PROVE Placed'
  <2>1. s \notin Leaders => phase[s] = 2
    BY <1>p
  <2> QED
    BY <1>n, <1>m, <2>1, NextOne DEF Leading, Liquidity
<1>1. ASSUME NEW s \in Slaves,
             \/ Check(s) \/ Fund(s) \/ DeployAccepted(s) \/ DeploySkipped(s)
             \/ DeployMined(s) \/ DeployFailed(s)
      PROVE  Placed'
  <2>1. /\ UNCHANGED <<phase, cur>> /\ pc[s] \in {"check", "fund", "deploy", "waitDeploy"}
        /\ \E where \in {"setup", "fund", "deploy", "waitDeploy"} : Goto(s, where)
    BY <1>1 DEF Check, Fund, DeployAccepted, DeploySkipped, DeployMined, DeployFailed
  <2> QED
    BY <2>1, <1>g, <1>p, <1>t DEF Leading, Liquidity
<1>2. ASSUME NEW s \in Slaves, SetupWork(s), ~NextContract(s) PROVE Placed'
  <2>1. /\ UNCHANGED <<phase, cur>> /\ pc[s] = "setup" /\ cur[s] \in Routers
        /\ Goto(s, IF cur[s] \in Gasless THEN "supply" ELSE "register")
    BY <1>2 DEF SetupWork
  <2> QED
    BY <2>1, <1>g, <1>p, <1>t DEF Leading, Liquidity
<1>3. ASSUME NEW s \in Slaves,
             \/ Supply(s) \/ SupplyTokens(s) \/ FixedSkipped(s) \/ FixedMined(s)
             \/ FixedFailed(s)
      PROVE  Placed'
  <2>1. /\ UNCHANGED <<phase, cur>> /\ pc[s] \in Liquidity
        /\ \E where \in Liquidity \cup {"register"} : Goto(s, where)
    BY <1>3 DEF Supply, SupplyTokens, FixedSkipped, FixedMined, FixedFailed, AfterFixed,
           Liquidity
  <2> QED
    BY <2>1, <1>g, <1>p, <1>t DEF Leading, Liquidity
<1>4. ASSUME NEW s \in Slaves, FixedSent(s) PROVE Placed'
  <2>1. UNCHANGED <<phase, cur>> /\ pc[s] = "fixed" /\ (Goto(s, "waitFixed") \/ pc' = pc)
    BY <1>4 DEF FixedSent
  <2> QED
    BY <2>1, <1>g, <1>p, <1>t DEF Leading, Liquidity, Placed
<1>5. ASSUME NEW s \in Slaves, Register(s) \/ RegisterLate(s) \/ TargetMissed(s) PROVE Placed'
  <2>1. /\ UNCHANGED <<phase, cur>> /\ pc[s] \in {"register", "await"}
        /\ \E where \in {"await", "late", "exited"} : Goto(s, where)
    BY <1>5 DEF Register, RegisterLate, TargetMissed
  <2> QED
    BY <2>1, <1>g, <1>p, <1>t DEF Leading, Liquidity
<1>6. ASSUME NEW s \in Slaves, Poll(s) PROVE Placed'
  <2>1. UNCHANGED <<phase, cur>> /\ pc[s] = "poll" /\ (Goto(s, "charge") \/ pc' = pc)
    BY <1>6 DEF Poll
  <2>2. s \notin Leaders
    BY <2>1, <1>p, <1>t DEF Leading
  <2> QED
    BY <2>1, <2>2, <1>g, <1>p DEF Leading, Liquidity, Placed
<1>7. ASSUME NEW s \in Slaves, NextContract(s) \/ DeployRetried(s) PROVE Placed'
  <2>1. DeployRetried(s) => UNCHANGED <<pc, phase, cur>>
    BY DEF DeployRetried, place
  <2> QED
    BY <1>7, <1>n, <2>1 DEF Placed
<1>8. ASSUME NEW s \in Slaves, Restart(s) PROVE Placed'
  <2>1. /\ pc'[s] = Start(s) /\ phase'[s] = IF s \in Leaders THEN 1 ELSE 2
        /\ \A r \in Slaves \ {s} : cur'[r] = cur[r] /\ phase'[r] = phase[r] /\ pc'[r] = pc[r]
    BY <1>8 DEF Restart, Goto, TypeOK
  <2> QED
    BY <2>1, <1>m DEF Start, Leading, Liquidity
<1>9. CASE UNCHANGED <<pc, phase, cur>>
  BY <1>9 DEF Placed
<1>10. ASSUME NEW s \in Slaves, Slave(s) PROVE Placed'
  <2>1. RegisterAbandoned(s) \/ TargetReached(s) \/ Charge(s) => NextContract(s)
    BY DEF RegisterAbandoned, TargetReached, Charge
  <2> QED
    BY <1>1, <1>2, <1>3, <1>4, <1>5, <1>6, <1>7, <1>10, <2>1 DEF Slave
<1>11. ASSUME NEW a \in Senders, Mine(a) PROVE UNCHANGED <<pc, phase, cur>>
  BY <1>11 DEF Mine, place
<1>12. ASSUME NEW c \in Contracts, Activate(c) PROVE UNCHANGED <<pc, phase, cur>>
  BY <1>12 DEF Activate, place
<1>13. UNCHANGED vars => UNCHANGED <<pc, phase, cur>>
  BY DEF vars, place
<1> QED
  BY <1>8, <1>9, <1>10, <1>11, <1>12, <1>13 DEF Next, Terminated

\* Every variable keeps its type, whatever fails and is started again: no loop of
\* DeployTestContracts runs past its last contract, SetupLiquidity not past its
\* last transaction (accgroup.go:161-221).
THEOREM TypeCorrect == Spec => []TypeOK
<1>1. TypeOK /\ Placed /\ [Next]_vars => (TypeOK /\ Placed)'
  BY TypeStep, PlacedStep
<1> QED
  BY <1>1, InitType, PTL DEF Spec
----------------------------------------------------------------------------
\* One leader, and nothing fails.
Quiet  == faults = 0 /\ restarts = 0 /\ gaveUp = {}
Led(l) == /\ Leaders = {l} /\ InOrder(l)
          /\ TypeOK /\ TypeOK' /\ Placed /\ Placed' /\ Quiet /\ Quiet'

\* What went wrong once stays counted.
LEMMA QuietBefore == TypeOK /\ [Next]_vars /\ Quiet' => Quiet
<1> SUFFICES ASSUME TypeOK, [Next]_vars PROVE faults <= faults' /\ restarts <= restarts'
                                              /\ gaveUp \subseteq gaveUp'
  BY DEF Quiet, TypeOK
<1> USE DEF TypeOK
<1>1. ASSUME NEW s \in Slaves, Slave(s)
      PROVE  faults <= faults' /\ restarts' = restarts /\ gaveUp \subseteq gaveUp'
  <2>1. faults' = faults \/ faults' = faults + 1
    BY <1>1 DEF Slave, Check, Fund, DeployAccepted, DeploySkipped, DeployRetried,
           DeployMined, DeployFailed, SetupWork, Supply, SupplyTokens, Transfer, FixedSent,
           FixedSkipped, FixedMined, FixedFailed, Register, RegisterAbandoned,
           RegisterLate, TargetReached, TargetMissed, Poll, Charge, Fault, Unanswered
  <2>2. restarts' = restarts /\ (gaveUp' = gaveUp \/ gaveUp' = gaveUp \cup {s})
    BY <1>1 DEF Slave, Check, Fund, DeployAccepted, DeploySkipped, DeployRetried,
           DeployMined, DeployFailed, SetupWork, Supply, SupplyTokens, FixedSent,
           FixedSkipped, FixedMined, FixedFailed, Register, RegisterAbandoned,
           RegisterLate, TargetReached, TargetMissed, Poll, Charge
  <2> QED
    BY <2>1, <2>2
<1>2. ASSUME NEW s \in Slaves, Restart(s) PROVE faults <= faults' /\ restarts <= restarts'
                                              /\ gaveUp \subseteq gaveUp'
  BY <1>2 DEF Restart
<1>3. ASSUME NEW a \in Senders, Mine(a) PROVE faults <= faults' /\ restarts <= restarts'
                                              /\ gaveUp \subseteq gaveUp'
  BY <1>3 DEF Mine, Fault
<1>4. ASSUME NEW c \in Contracts, Activate(c) PROVE UNCHANGED <<faults, restarts, gaveUp>>
  BY <1>4 DEF Activate
<1> QED
  BY <1>1, <1>2, <1>3, <1>4 DEF Next, Terminated, vars

LEMMA NoFault == ASSUME NEW l, Led(l) PROVE ~Fault
  BY DEF Led, Quiet, Fault

\* What the leader's position says of the contracts.
LEMMA Position ==
    ASSUME NEW l, Led(l)
    PROVE  /\ l \in Slaves /\ cur[l] \in Contracts /\ cur[l] \in Nat
           /\ \A c \in Contracts : Behind(l, c) => Code(c)
           /\ pc[l] \in Leading => phase[l] = 1
           /\ pc[l] \in {"charge", "done"} => phase[l] = 2
           /\ \A k \in Contracts : registry[k] # "none" => \A c \in Contracts : c <= k => Code(c)
<1> USE DEF Led
<1>1. l \in Slaves /\ cur[l] \in Contracts /\ cur[l] \in Nat /\ phase[l] \in {1, 2}
  <2>1. l \in Slaves /\ cur \in [Slaves -> Contracts] /\ phase \in [Slaves -> {1, 2}]
    BY DEF TypeOK
  <2> QED
    BY <2>1, SenderTypes
<1>2. \A c \in Contracts : Behind(l, c) => Code(c)
  BY DEF InOrder, Deployments, Only
<1>3. pc[l] \in Leading => phase[l] = 1
  BY <1>1 DEF Placed, Leading
<1>4. pc[l] \in {"charge", "done"} => phase[l] = 2
  BY <1>1 DEF Placed, Leading
<1>5. ASSUME NEW k \in Contracts, registry[k] # "none", NEW c \in Contracts, c <= k
      PROVE  Code(c)
  <2>1. Behind(l, k)
    BY <1>5 DEF InOrder, Registrations
  <2>2. Behind(l, c)
    BY <1>1, <1>5, <2>1, SenderTypes DEF Behind
  <2> QED
    BY <1>2, <2>2
<1> QED
  BY <1>1, <1>2, <1>3, <1>4, <1>5

\* The deployment of a contract that is there is found, and no other.
LEMMA Found ==
    ASSUME NEW l, Led(l), NEW s \in Slaves, NEW c \in Contracts, Deployed(s, c),
           ~(s = l /\ Awaited(l, c))
    PROVE  Ready(c)
<1> USE DEF Ready
<1>1. CASE Keeper(c) # 0
  <2>1. registry[Keeper(c)] = "active" /\ Keeper(c) \in Contracts /\ c <= Keeper(c)
    BY <1>1, Keepers DEF Deployed
  <2> QED
    BY <2>1, Position
<1>2. CASE Keeper(c) = 0
  <2>1. nonce[s][c] # 0 \/ Executed(c) # 0
    BY <1>2 DEF Deployed, NonceOf
  <2>2. nonce[s][c] # 0 => Code(c)
    BY DEF Led, InOrder, Cached
  <2>3. Executed(c) # 0 => Code(c)
    <3>1. chain[c] # <<>> => Only(c)
      BY DEF Led, InOrder, Deployments, Blank, Coming
    <3>2. Executed(c) # 0 => chain[c] # <<>>
      BY DEF Executed
    <3> QED
      BY <3>1, <3>2 DEF Only
  <2> QED
    BY <1>2, <2>1, <2>2, <2>3
<1> QED
  BY <1>1, <1>2

\* Asking for a nonce caches one only where there is a transaction.
LEMMA Asked ==
    ASSUME NEW l, Led(l), NEW s \in Slaves, NEW c \in Contracts, Ask(s, c)
    PROVE  \A r \in Slaves, d \in Contracts :
              nonce'[r][d] # 0 => nonce[r][d] # 0 \/ Code(d)
<1> SUFFICES ASSUME NEW r \in Slaves, NEW d \in Contracts, nonce'[r][d] # 0
             PROVE  nonce[r][d] # 0 \/ Code(d)
  OBVIOUS
<1>1. nonce'[r][d] = nonce[r][d] \/ (r = s /\ d = c /\ nonce'[r][d] = NonceOf(s, c))
  BY NonceAt DEF Ask, Cache, Led
<1>2. Executed(c) # 0 => Code(c)
  <2>1. chain[c] # <<>> => Only(c)
    BY DEF Led, InOrder, Deployments, Blank, Coming
  <2>2. Executed(c) # 0 => chain[c] # <<>>
    BY DEF Executed
  <2> QED
    BY <2>1, <2>2 DEF Only
<1> QED
  BY <1>1, <1>2 DEF NonceOf

\* What a step may do to the contracts on the chain.
NodeKeeps ==
    /\ \A c \in Contracts : /\ Blank(c) => Blank(c)'
                            /\ Coming(c) => (Coming(c) \/ Only(c))'
                            /\ Only(c) => Only(c)'
    /\ Len(chain'[Manager]) >= Len(chain[Manager])
    /\ \A c \in Routers : SetUp(c) => SetUp(c)'
    /\ ManagerKinds' /\ RouterKinds'

LEMMA SameChain ==
    ASSUME NEW l, Led(l), UNCHANGED <<chain, pool>>,
           \A c \in Contracts : registry'[c] = "none" => registry[c] = "none"
    PROVE  NodeKeeps
<1>1. \A c \in Contracts : Blank(c)' = Blank(c) /\ Coming(c)' = Coming(c) /\ Only(c)' = Only(c)
  BY DEF Blank, Coming, Only, Code
<1>2. ManagerKinds' /\ RouterKinds'
  BY Keepers DEF Led, InOrder, ManagerKinds, RouterKinds, Code
<1>3. Len(chain[Manager]) \in Nat
  BY SenderTypes, NodeTypes DEF Led, Executed
<1> QED
  BY <1>1, <1>2, <1>3 DEF NodeKeeps, SetUp

LEMMA SameNode ==
    ASSUME NEW l, Led(l), UNCHANGED <<chain, pool, registry>> PROVE NodeKeeps
  BY SameChain

\* A contract with code has nothing else at its deployer's nonce.
LEMMA CodeOnly ==
    ASSUME NEW l, Led(l), NEW c \in Contracts
    PROVE  /\ Blank(c) \/ Coming(c) \/ Only(c)
           /\ Code(c) => Only(c)
           /\ NodeKeeps /\ Code(c) => Code(c)'
<1>1. Blank(c) \/ Coming(c) \/ Only(c)
  BY DEF Led, InOrder, Deployments
<1>2. Code(c) => Only(c)
  BY <1>1 DEF Blank, Coming, Code
<1> QED
  BY <1>1, <1>2 DEF NodeKeeps, Only

\* The leader, or a follower, moves on.
LEMMA Moves ==
    ASSUME NEW l, Led(l), NodeKeeps,
           \A c \in Contracts : /\ Behind(l, c)' <=> Behind(l, c)
                                /\ Awaited(l, c)' <=> Awaited(l, c),
           sentAt'[l] = sentAt[l],
           \A r \in Slaves, d \in Contracts : nonce'[r][d] # 0 => nonce[r][d] # 0 \/ Code(d),
           Registrations(l)', Charges', Setups(l)'
    PROVE  InOrder(l)'
<1>1. Deployments(l)'
  <2> SUFFICES ASSUME NEW c \in Contracts
               PROVE  /\ Behind(l, c)' => Only(c)'
                      /\ Awaited(l, c)' => sentAt'[l] = 0 /\ (Coming(c)' \/ Only(c)')
                      /\ ~Behind(l, c)' /\ ~Awaited(l, c)' => Blank(c)'
    BY DEF Deployments
  <2> QED
    BY DEF Led, InOrder, Deployments, NodeKeeps
<1>2. Cached(l)'
  <2> SUFFICES ASSUME NEW r \in Slaves, NEW d \in Contracts, nonce'[r][d] # 0
               PROVE  Code(d)' \/ (r = l /\ Awaited(l, d)')
    BY DEF Cached
  <2>1. Code(d) \/ (r = l /\ Awaited(l, d))
    BY DEF Led, InOrder, Cached
  <2> QED
    BY <2>1, CodeOnly
<1> QED
  BY <1>1, <1>2 DEF InOrder, NodeKeeps

\* Where the leader charges, all is deployed and registered.
LEMMA ChargesAfter ==
    ASSUME NEW l, Led(l), NodeKeeps,
           \A c \in Contracts : Behind(l, c)' <=> Behind(l, c),
           Registrations(l)',
           \A s \in Slaves \ {l}, c \in Contracts : pc'[s] = "charge" /\ cur'[s] = c => Ready(c)'
    PROVE  Charges'
<1>1. cur' \in [Slaves -> Contracts] /\ l \in Slaves
  BY Position DEF Led, TypeOK
<1>2. ASSUME NEW c \in Contracts, pc'[l] = "charge", cur'[l] = c PROVE Ready(c)'
  <2>1. phase'[l] = 2
    <3>1. phase'[l] \in {1, 2}
      BY <1>1 DEF Led, TypeOK
    <3>2. l \in Leaders /\ phase'[l] = 1 => pc'[l] \in Leading
      BY <1>1 DEF Led, Placed
    <3> QED
      BY <1>2, <3>1, <3>2 DEF Led, Leading
  <2>2. Code(c)'
    <3>1. Behind(l, c)
      BY <2>1 DEF Behind
    <3> QED
      BY <3>1, Position, CodeOnly
  <2>3. Keeper(c) # 0 => registry'[Keeper(c)] = "active"
    BY <2>1, Keepers DEF Registrations
  <2> QED
    BY <2>2, <2>3 DEF Ready
<1>3. ASSUME NEW s \in Slaves, NEW c \in Contracts, pc'[s] = "charge", cur'[s] = c
      PROVE  Ready(c)'
  BY <1>2, <1>3
<1> QED
  BY <1>1, <1>3 DEF Charges, Ready, Code

\* The others go on charging, or do not.
LEMMA OthersReady ==
    ASSUME NEW l, Led(l), NodeKeeps,
           \A k \in Contracts : registry[k] = "active" => registry'[k] = "active",
           NEW s \in Slaves, pc'[s] = pc[s], cur'[s] = cur[s], NEW c \in Contracts
    PROVE  pc'[s] = "charge" /\ cur'[s] = c => Ready(c)'
<1> SUFFICES ASSUME pc[s] = "charge", cur[s] = c PROVE Ready(c)'
  OBVIOUS
<1>1. Ready(c)
  BY DEF Led, InOrder, Charges
<1>2. Code(c)'
  BY <1>1, CodeOnly DEF Ready
<1> QED
  BY <1>1, <1>2, Keepers DEF Ready

\* The leader goes on with the contract it works on.
LEMMA Works ==
    ASSUME NEW l, Led(l), UNCHANGED <<phase, cur, registry>>, NodeKeeps,
           NEW where, Goto(l, where),
           \/ {pc[l], where} \subseteq {"check", "fund", "deploy"}
           \/ {pc[l], where} \subseteq Leading \ {"check", "fund", "deploy", "waitDeploy", "await"},
           sentAt'[l] = sentAt[l],
           \A r \in Slaves, d \in Contracts : nonce'[r][d] # 0 => nonce[r][d] # 0 \/ Code(d),
           where \in {"fixed", "waitFixed"} => Len(chain'[Manager]) >= step'[l] - 1,
           where = "register" /\ cur[l] \in Gasless => SetUp(cur[l])'
    PROVE  InOrder(l)'
<1>1. /\ pc'[l] = where /\ phase[l] = 1
      /\ \A s \in Slaves \ {l} : pc'[s] = pc[s]
  BY Position DEF Goto, Led, TypeOK, Leading
<1>2. \A c \in Contracts : (Behind(l, c)' <=> Behind(l, c)) /\ (Awaited(l, c)' <=> Awaited(l, c))
  BY <1>1 DEF Behind, Awaited
<1>3. Registrations(l)'
  BY <1>1, <1>2 DEF Led, InOrder, Registrations
<1>4. Charges'
  BY <1>1, <1>2, <1>3, OthersReady, ChargesAfter
<1>5. Setups(l)'
  BY <1>1 DEF Led, InOrder, Setups, NodeKeeps
<1> QED
  BY <1>2, <1>3, <1>4, <1>5, Moves

\* It goes on with the next one, or with the charging.
LEMMA Passes ==
    ASSUME NEW l, Led(l), NextContract(l), UNCHANGED <<chain, pool, registry, sentAt, nonce>>,
           pc[l] \in {"setup", "await"},
           cur[l] \in Routers => registry[cur[l]] = "active"
    PROVE  InOrder(l)'
<1>1. /\ l \in Slaves /\ cur[l] \in Contracts /\ phase[l] = 1 /\ l \in Leaders
      /\ \A c \in Contracts : c \in Nat /\ c <= NumContracts
  BY Position DEF Led, Leading, Contracts
<1>2. /\ \A s \in Slaves \ {l} : pc'[s] = pc[s] /\ cur'[s] = cur[s]
      /\ \/ cur[l] = NumContracts /\ phase'[l] = 2 /\ pc'[l] = "charge"
         \/ phase'[l] = 1 /\ cur'[l] = cur[l] + 1 /\ pc'[l] = "check"
  BY <1>1, NextOne DEF Led
<1>3. \A c \in Contracts : /\ Behind(l, c) <=> c <= cur[l]
                           /\ Behind(l, c)' <=> c <= cur[l]
                           /\ ~Awaited(l, c) /\ ~Awaited(l, c)'
  BY <1>1, <1>2 DEF Behind, Awaited
<1>4. Registrations(l)'
  <2> SUFFICES ASSUME NEW k \in Contracts
               PROVE  /\ registry[k] # "none" => /\ k \in Routers /\ Behind(l, k)'
                                                 /\ phase'[l] = 1 /\ k = cur'[l] => pc'[l] = "await"
                      /\ k \in Routers /\ (phase'[l] = 2 \/ k < cur'[l]) => registry[k] = "active"
    BY DEF Registrations
  <2>1. registry[k] # "none" => k \in Routers /\ k <= cur[l]
    BY <1>3 DEF Led, InOrder, Registrations
  <2>2. k \in Routers /\ k <= cur[l] => registry[k] = "active"
    BY <1>1 DEF Led, InOrder, Registrations
  <2> QED
    BY <1>1, <1>2, <1>3, <2>1, <2>2
<1>5. NodeKeeps
  BY SameNode
<1>6. Charges'
  BY <1>2, <1>3, <1>4, <1>5, OthersReady, ChargesAfter
<1>7. Setups(l)'
  BY <1>2 DEF Led, InOrder, Setups, SetUp
<1> QED
  BY <1>3, <1>4, <1>5, <1>6, <1>7, Moves
\* What a deployer, or the manager, sends besides the deployment.
LEMMA PoolKeeps ==
    ASSUME NEW l, Led(l), UNCHANGED <<chain, registry>>, NEW a \in Senders, NEW x,
           pool' = pool \/ pool' = [pool EXCEPT ![a] = @ \cup {x}],
           a \in Contracts => Code(a) /\ x.kind # "deploy",
           a \in Routers \cap Gasless /\ registry[a] = "none" => x.kind = "setup",
           a = Manager => x.kind = "setup"
    PROVE  NodeKeeps
<1>1. /\ \A b \in Senders \ {a} : pool'[b] = pool[b]
      /\ pool'[a] = pool[a] \/ pool'[a] = pool[a] \cup {x}
  BY DEF Led, TypeOK
<1>2. \A c \in Contracts : Code(c)' = Code(c) /\ (Code(c) => Only(c)) /\ c \in Senders
  BY CodeOnly, SenderTypes DEF Code
<1>3. ASSUME NEW c \in Contracts
      PROVE  /\ Blank(c) => Blank(c)'
             /\ Coming(c) => Coming(c)'
             /\ Only(c) => Only(c)'
  <2>1. CASE c # a
    BY <1>1, <1>2, <2>1 DEF Blank, Coming, Only
  <2>2. CASE c = a
    <3>1. Code(c) /\ x.kind # "deploy"
      BY <2>2
    <3> QED
      BY <1>1, <1>2, <2>2, <3>1 DEF Blank, Coming, Only, Code
  <2> QED
    BY <2>1, <2>2
<1>4. ManagerKinds'
  <2>1. \A y \in pool'[Manager] : y.kind = "setup"
    BY <1>1, SenderTypes DEF Led, InOrder, ManagerKinds
  <2> QED
    BY <2>1 DEF Led, InOrder, ManagerKinds
<1>5. RouterKinds'
  <2> SUFFICES ASSUME NEW c \in Routers \cap Gasless, registry[c] = "none"
               PROVE  /\ \A i \in 2..Len(chain[c]) : chain[c][i] = "setup"
                      /\ Code(c)' => \A y \in pool'[c] : y.kind = "setup"
    BY DEF RouterKinds
  <2>1. /\ \A i \in 2..Len(chain[c]) : chain[c][i] = "setup"
        /\ Code(c) => \A y \in pool[c] : y.kind = "setup"
    BY DEF Led, InOrder, RouterKinds
  <2>2. c \in Contracts
    BY Keepers
  <2> QED
    BY <1>1, <1>2, <2>1, <2>2
<1>6. Len(chain[Manager]) \in Nat
  BY SenderTypes, NodeTypes DEF Led, Executed
<1> QED
  BY <1>3, <1>4, <1>5, <1>6 DEF NodeKeeps, SetUp

LEMMA Transfers ==
    ASSUME NEW l, Led(l), NEW s \in Slaves, NEW c \in Contracts, Code(c), NEW tx,
           Transfer(s, c, tx)
    PROVE  /\ pool' = pool \/ pool' = [pool EXCEPT ![c] = @ \cup {tx}]
           /\ \A r \in Slaves, d \in Contracts : nonce'[r][d] # 0 => nonce[r][d] # 0 \/ Code(d)
<1>1. \E n : nonce' = [nonce EXCEPT ![s][c] = n]
  BY DEF Transfer, Advance, Cache
<1>2. \A r \in Slaves, d \in Contracts : nonce'[r][d] = nonce[r][d] \/ d = c
  BY <1>1, NonceAt DEF Led
<1> QED
  BY <1>2 DEF Transfer, Accept

\* Where the leader works on the deployment of c.
LEMMA AtDeployment ==
    ASSUME NEW l, Led(l), pc[l] \in {"check", "fund", "deploy"}
    PROVE  /\ l \in Slaves /\ cur[l] \in Contracts /\ phase[l] = 1
           /\ Blank(cur[l]) /\ Executed(cur[l]) = 0 /\ ~Code(cur[l])
           /\ nonce[l][cur[l]] = 0 /\ NonceOf(l, cur[l]) = 0
           /\ registry[cur[l]] = "none" /\ ~Behind(l, cur[l])
<1>1. l \in Slaves /\ cur[l] \in Contracts /\ cur[l] \in Nat /\ phase[l] = 1
  BY Position DEF Leading
<1>2. ~Behind(l, cur[l]) /\ ~Awaited(l, cur[l])
  BY <1>1 DEF Behind, Awaited
<1>3. Blank(cur[l])
  BY <1>1, <1>2 DEF Led, InOrder, Deployments
<1>4. Executed(cur[l]) = 0 /\ ~Code(cur[l])
  BY <1>3 DEF Blank, Executed, Code
<1>5. nonce[l][cur[l]] = 0
  BY <1>1, <1>2, <1>4 DEF Led, InOrder, Cached
<1>6. registry[cur[l]] = "none"
  BY <1>1, <1>2 DEF Led, InOrder, Registrations
<1> QED
  BY <1>1, <1>2, <1>3, <1>4, <1>5, <1>6 DEF NonceOf

LEMMA LeaderDeploys ==
    ASSUME NEW l, Led(l), DeployAccepted(l) PROVE InOrder(l)'
<1> DEFINE c == cur[l]
<1>1. /\ l \in Slaves /\ c \in Contracts /\ phase[l] = 1 /\ Blank(c) /\ ~Code(c)
      /\ NonceOf(l, c) = 0 /\ registry[c] = "none" /\ ~Behind(l, c)
  BY AtDeployment DEF DeployAccepted
<1>2. /\ pool' = [pool EXCEPT ![c] = @ \cup {Deployment(0)}]
      /\ nonce' = [nonce EXCEPT ![l][c] = 1] /\ sentAt'[l] = 0 /\ pc'[l] = "waitDeploy"
      /\ UNCHANGED <<chain, registry, phase, cur>> /\ pc[l] = "deploy"
      /\ \A s \in Slaves \ {l} : pc'[s] = pc[s]
  BY <1>1 DEF DeployAccepted, Accept, Advance, Goto, Led, TypeOK
<1>3. /\ pool'[c] = {Deployment(0)} /\ \A a \in Senders \ {c} : pool'[a] = pool[a]
      /\ Manager # c /\ Manager \in Senders /\ Contracts \subseteq Senders
  <2>1. Manager # c /\ Manager \in Senders /\ Contracts \subseteq Senders
    BY <1>1, SenderTypes DEF Manager, Contracts
  <2>2. pool \in [Senders -> SUBSET Tx] /\ pool[c] = {} /\ c \in Senders
    BY <1>1, <2>1 DEF Led, TypeOK, Blank
  <2> HIDE DEF c
  <2> QED
    BY <1>2, <2>1, <2>2
<1>4. \A d \in Contracts : /\ Behind(l, d)' <=> Behind(l, d)
                           /\ Awaited(l, d)' <=> d = c
                           /\ ~Awaited(l, d)
                           /\ Code(d)' <=> Code(d)
  BY <1>1, <1>2 DEF Behind, Awaited, Code
<1>5. Deployments(l)'
  <2>1. ASSUME NEW d \in Contracts, d # c
        PROVE  (Blank(d)' <=> Blank(d)) /\ (Only(d)' <=> Only(d))
    BY <1>2, <1>3, <2>1 DEF Blank, Only, Code
  <2>2. chain'[c] = <<>> /\ pool'[c] = {Deployment(0)}
    BY <1>1, <1>2, <1>3 DEF Blank
  <2>3. ASSUME NEW d \in Contracts
        PROVE  /\ Behind(l, d)' => Only(d)'
               /\ Awaited(l, d)' => sentAt'[l] = 0 /\ (Coming(d)' \/ Only(d)')
               /\ ~Behind(l, d)' /\ ~Awaited(l, d)' => Blank(d)'
    <3>1. CASE d = c
      <4>1. Coming(d)'
        BY <2>2, <3>1 DEF Coming, Deployment
      <4> QED
        BY <1>1, <1>2, <1>4, <3>1, <4>1
    <3>2. CASE d # c
      BY <1>4, <2>1, <3>2 DEF Led, InOrder, Deployments
    <3> QED
      BY <3>1, <3>2
  <2> QED
    BY <2>3 DEF Deployments
<1>6. Cached(l)'
  <2> SUFFICES ASSUME NEW r \in Slaves, NEW d \in Contracts, nonce'[r][d] # 0
               PROVE  Code(d)' \/ (r = l /\ Awaited(l, d)')
    BY DEF Cached
  <2>1. nonce'[r][d] = nonce[r][d] \/ (r = l /\ d = c)
    BY <1>1, <1>2, NonceAt DEF Led
  <2> QED
    BY <1>4, <2>1 DEF Led, InOrder, Cached
<1>7. Registrations(l)'
  BY <1>1, <1>2, <1>4 DEF Led, InOrder, Registrations
<1>8. Charges'
  BY <1>2 DEF Led, InOrder, Charges, Ready, Code
<1>9. ManagerKinds'
  BY <1>2, <1>3 DEF Led, InOrder, ManagerKinds
<1>10. RouterKinds'
  <2> SUFFICES ASSUME NEW d \in Routers \cap Gasless, registry[d] = "none"
               PROVE  /\ \A i \in 2..Len(chain[d]) : chain[d][i] = "setup"
                      /\ Code(d)' => \A x \in pool'[d] : x.kind = "setup"
    BY <1>2 DEF RouterKinds
  <2>1. d \in Contracts
    BY Keepers
  <2> QED
    BY <1>1, <1>3, <1>4, <2>1 DEF Led, InOrder, RouterKinds
<1>11. Setups(l)'
  BY <1>2 DEF Led, InOrder, Setups, SetUp
<1> QED
  BY <1>5, <1>6, <1>7, <1>8, <1>9, <1>10, <1>11 DEF InOrder

LEMMA LeaderDeployed ==
    ASSUME NEW l, Led(l), DeployMined(l) PROVE InOrder(l)'
<1>1. /\ l \in Slaves /\ cur[l] \in Contracts /\ cur[l] \in Nat /\ phase[l] = 1
      /\ pc[l] = "waitDeploy"
  BY Position DEF DeployMined, Leading
<1>2. /\ UNCHANGED <<chain, pool, registry, nonce, phase, cur, sentAt>> /\ pc'[l] = "setup"
      /\ \A s \in Slaves \ {l} : pc'[s] = pc[s]
  BY <1>1 DEF DeployMined, Goto, node, Led, TypeOK
<1>3. \A d \in Contracts : /\ Behind(l, d)' <=> Behind(l, d) \/ d = cur[l]
                           /\ Awaited(l, d) <=> d = cur[l]
                           /\ ~Awaited(l, d)'
                           /\ d = cur[l] => ~Behind(l, d)
                           /\ Only(d)' <=> Only(d)
                           /\ Blank(d)' <=> Blank(d)
                           /\ Code(d)' <=> Code(d)
  BY <1>1, <1>2 DEF Behind, Awaited, Only, Blank, Code
<1>4. Only(cur[l])
  <2>1. sentAt[l] = 0 /\ (Coming(cur[l]) \/ Only(cur[l]))
    BY <1>1, <1>3 DEF Led, InOrder, Deployments
  <2>2. 0 < Executed(cur[l])
    BY <2>1 DEF DeployMined, TooLow
  <2> QED
    BY <2>1, <2>2 DEF Coming, Executed
<1>5. Deployments(l)'
  BY <1>1, <1>3, <1>4 DEF Led, InOrder, Deployments
<1>6. Cached(l)'
  BY <1>1, <1>2, <1>3, <1>4 DEF Led, InOrder, Cached, Only
<1>7. Registrations(l)'
  BY <1>1, <1>2, <1>3 DEF Led, InOrder, Registrations
<1>8. Charges' /\ ManagerKinds' /\ RouterKinds' /\ Setups(l)'
  BY <1>2 DEF Led, InOrder, Charges, Ready, ManagerKinds, RouterKinds, Setups, SetUp, Code
<1> QED
  BY <1>5, <1>6, <1>7, <1>8 DEF InOrder

\* Up to the deployment nothing is skipped; after it the node sees transfers only.
LEMMA LeaderSetsUp ==
    ASSUME NEW l, Led(l),
           \/ Check(l) \/ Fund(l) \/ DeploySkipped(l) \/ DeployRetried(l) \/ DeployFailed(l)
           \/ SetupWork(l) \/ Supply(l) \/ SupplyTokens(l)
    PROVE  InOrder(l)'
<1>f. ~Fault
  BY NoFault
<1>n. l \in Slaves /\ cur[l] \in Contracts
  BY Position
<1>l. Len(chain[Manager]) \in Nat
  BY SenderTypes, NodeTypes DEF Led, Executed
<1>1. CASE Check(l)
  <2>1. ~Code(cur[l]) /\ ~Awaited(l, cur[l])
    BY <1>1, AtDeployment DEF Check, Awaited
  <2>2. ~Deployed(l, cur[l])
    BY <1>n, <2>1, Found DEF Ready
  <2>3. /\ Goto(l, "fund") /\ Ask(l, cur[l]) /\ pc[l] = "check"
        /\ UNCHANGED <<phase, cur, chain, pool, registry, sentAt>>
    BY <1>1, <1>f, <2>2 DEF Check, Unanswered, node
  <2>4. \A r \in Slaves, d \in Contracts : nonce'[r][d] # 0 => nonce[r][d] # 0 \/ Code(d)
    BY <1>n, <2>3, Asked
  <2> QED
    BY <2>3, <2>4, SameNode, Works
<1>2. CASE Fund(l)
  <2>1. /\ Goto(l, "deploy") /\ pc[l] = "fund"
        /\ UNCHANGED <<phase, cur, chain, pool, registry, sentAt, nonce>>
    BY <1>2 DEF Fund
  <2> QED
    BY <2>1, SameNode, Works
<1>3. CASE DeploySkipped(l) \/ DeployRetried(l)
  <2>1. Blank(cur[l]) /\ Executed(cur[l]) = 0 /\ NonceOf(l, cur[l]) = 0
    BY <1>3, AtDeployment DEF DeploySkipped, DeployRetried
  <2>2. Slot(cur[l], 0) = {} /\ ~TooLow(cur[l], 0) /\ pool[cur[l]] = {}
    BY <2>1 DEF Blank, Slot, TooLow
  <2> QED
    BY <1>3, <1>f, <2>1, <2>2 DEF DeploySkipped, DeployRetried
<1>4. CASE DeployFailed(l)
  <2>1. Awaited(l, cur[l])
    BY <1>4, Position DEF DeployFailed, Awaited, Leading
  <2>2. sentAt[l] = 0 /\ (Coming(cur[l]) \/ Only(cur[l]))
    BY <1>n, <2>1 DEF Led, InOrder, Deployments
  <2>3. 0 < Executed(cur[l]) /\ chain[cur[l]][0 + 1] = "reverted"
    BY <1>4, <1>f, <2>2 DEF DeployFailed, TooLow
  <2> QED
    BY <2>2, <2>3 DEF Coming, Only, Code, Executed
<1>5. CASE SetupWork(l)
  <2>1. /\ pc[l] = "setup"
        /\ UNCHANGED <<chain, pool, registry, sentAt, nonce>>
    BY <1>5 DEF SetupWork, node
  <2>2. CASE NextContract(l) /\ (cur[l] \in Routers => registry[cur[l]] = "active")
    BY <2>1, <2>2, Passes
  <2>3. CASE ~(NextContract(l) /\ (cur[l] \in Routers => registry[cur[l]] = "active"))
    <3> DEFINE where == IF cur[l] \in Gasless THEN "supply" ELSE "register"
    <3>1. Goto(l, where) /\ UNCHANGED <<phase, cur>>
      BY <1>5, <1>f, <2>3 DEF SetupWork
    <3>2. where \in {"supply", "register"} /\ ~(where = "register" /\ cur[l] \in Gasless)
      OBVIOUS
    <3> HIDE DEF where
    <3>3. {pc[l], where} \subseteq Leading \ {"check", "fund", "deploy", "waitDeploy", "await"}
      BY <2>1, <3>2 DEF Leading
    <3> QED
      BY <2>1, <3>1, <3>2, <3>3, SameNode, Works
  <2> QED
    BY <2>2, <2>3
<1>6. CASE Supply(l)
  <2>1. /\ Goto(l, "tokens") /\ pc[l] = "supply"
        /\ UNCHANGED <<phase, cur, chain, pool, registry, sentAt, nonce>>
    BY <1>6 DEF Supply
  <2>2. {pc[l], "tokens"} \subseteq Leading \ {"check", "fund", "deploy", "waitDeploy", "await"}
    BY <2>1 DEF Leading
  <2> QED
    BY <2>1, <2>2, SameNode, Works
<1>7. CASE SupplyTokens(l)
  <2> DEFINE tx == [nonce |-> NonceOf(l, Token), kind |-> "supply", by |-> NoSlave]
  <2>1. /\ pc[l] = "tokens" /\ Transfer(l, Token, tx) /\ Goto(l, "fixed") /\ step'[l] = 1
        /\ UNCHANGED <<phase, cur, chain, registry, sentAt>>
    BY <1>7, <1>n DEF SupplyTokens, Led, TypeOK
  <2>2. tx.kind = "supply"
    OBVIOUS
  <2> HIDE DEF tx
  <2>3. cur[l] \in Gasless /\ cur[l] \in Routers
    BY <1>n, <2>1 DEF Led, Placed, Liquidity
  <2>4. Token \in Contracts /\ Token < cur[l] /\ Token \notin Routers \cap Gasless
    <3>1. Token \in Contracts /\ \A c \in Routers \cap Gasless : Token < c
      BY <2>3, Keepers
    <3>2. ~(Token < Token)
      BY <3>1, SenderTypes
    <3> QED
      BY <2>3, <3>1, <3>2
  <2>5. Code(Token) /\ Token # Manager /\ Token \in Senders
    <3>1. Behind(l, Token)
      BY <2>4 DEF Behind
    <3> QED
      BY <2>4, <3>1, Position, SenderTypes DEF Manager, Contracts
  <2>6. /\ pool' = pool \/ pool' = [pool EXCEPT ![Token] = @ \cup {tx}]
        /\ \A r \in Slaves, d \in Contracts : nonce'[r][d] # 0 => nonce[r][d] # 0 \/ Code(d)
    BY <1>n, <2>1, <2>4, <2>5, Transfers
  <2>7. NodeKeeps
    BY <2>1, <2>2, <2>4, <2>5, <2>6, PoolKeeps
  <2>8. {pc[l], "fixed"} \subseteq Leading \ {"check", "fund", "deploy", "waitDeploy", "await"}
    BY <2>1 DEF Leading
  <2>9. Len(chain'[Manager]) >= step'[l] - 1
    BY <1>l, <2>1
  <2> QED
    BY <2>1, <2>6, <2>7, <2>8, <2>9, Works
<1> QED
  BY <1>1, <1>2, <1>3, <1>4, <1>5, <1>6, <1>7

\* SetupLiquidity: what is skipped, or mined, was done.
LEMMA LeaderFixes ==
    ASSUME NEW l, Led(l),
           FixedSent(l) \/ FixedSkipped(l) \/ FixedMined(l) \/ FixedFailed(l)
    PROVE  InOrder(l)'
<1> DEFINE c == cur[l]
           n == step[l]
<1>1. /\ l \in Slaves /\ c \in Contracts /\ pc[l] \in {"fixed", "waitFixed"}
      /\ n \in 1..(ManagerTxs + 1) /\ Manager \in Senders /\ Manager \notin Contracts
      /\ UNCHANGED <<phase, cur, chain, registry, sentAt>>
  <2>1. pc[l] \in {"fixed", "waitFixed"} /\ UNCHANGED <<phase, cur, chain, registry, sentAt>>
    BY DEF FixedSent, FixedSkipped, FixedMined, FixedFailed, node
  <2>2. l \in Slaves /\ c \in Contracts
    BY Position
  <2>3. n \in 1..(ManagerTxs + 1)
    BY <2>2 DEF Led, TypeOK
  <2> QED
    BY <2>1, <2>2, <2>3, SenderTypes DEF Manager, Contracts
<1>2. c \in Routers /\ c \in Gasless /\ phase[l] = 1
  BY <1>1, Position DEF Led, Placed, Liquidity, Leading
<1>3. Code(c) /\ registry[c] = "none"
  <2>1. Behind(l, c)
    BY <1>1 DEF Behind
  <2>2. registry[c] = "none"
    BY <1>1, <1>2 DEF Led, InOrder, Registrations
  <2> QED
    BY <1>1, <2>1, <2>2, Position
<1>4. Len(chain[Manager]) >= n - 1 /\ Len(chain[Manager]) \in Nat /\ Len(chain[c]) \in Nat
  BY <1>1, NodeTypes, SenderTypes DEF Led, InOrder, Setups, Executed
<1>5. {"fixed", "waitFixed", "register"}
         \subseteq Leading \ {"check", "fund", "deploy", "waitDeploy", "await"}
  BY DEF Leading
<1>6. ASSUME FixedSent(l) PROVE InOrder(l)'
  <2>1. /\ pool' = [pool EXCEPT ![FixedSender(l)] = @ \cup {FixedTx(l)}]
        /\ FixedTx(l).kind = "setup" /\ FixedSender(l) \in {Manager, c}
        /\ Goto(l, "waitFixed") /\ UNCHANGED <<nonce, step>>
    BY <1>6, NoFault DEF FixedSent, Accept, FixedTx, FixedSender
  <2> HIDE DEF c, n
  <2>2. NodeKeeps
    BY <1>1, <1>3, <2>1, SenderTypes, PoolKeeps
  <2>3. Len(chain'[Manager]) >= step'[l] - 1
    BY <1>1, <1>4, <2>1 DEF n
  <2> QED
    BY <1>1, <1>5, <2>1, <2>2, <2>3, Works
<1>7. ASSUME FixedSkipped(l) \/ FixedMined(l) PROVE InOrder(l)'
  <2>1. /\ UNCHANGED <<pool, nonce>> /\ AfterFixed(l)
        /\ FixedNonce(l) < Len(chain[FixedSender(l)])
    BY <1>7 DEF FixedSkipped, FixedMined, node, TooLow, Executed
  <2>2. NodeKeeps
    BY <1>1, <2>1, SameNode
  <2>3. CASE n <= ManagerTxs
    <3>1. Goto(l, "fixed") /\ step'[l] = n + 1 /\ n - 1 < Len(chain[Manager])
      BY <1>1, <2>1, <2>3 DEF AfterFixed, FixedNonce, FixedSender, Led, TypeOK
    <3>2. Len(chain'[Manager]) >= step'[l] - 1
      BY <1>1, <1>4, <3>1
    <3> QED
      BY <1>1, <1>5, <2>1, <2>2, <3>1, <3>2, Works
  <2>4. CASE n = ManagerTxs + 1
    <3>1. ~(n <= ManagerTxs)
      BY <2>4
    <3>2. Goto(l, "register") /\ 1 < Len(chain[c])
      BY <2>1, <3>1 DEF AfterFixed, FixedNonce, FixedSender
    <3>3. Len(chain[Manager]) >= ManagerTxs /\ Len(chain[c]) >= 2
      BY <1>4, <2>4, <3>2
    <3>4. chain[c][2] = "setup"
      BY <1>2, <1>3, <1>4, <3>3 DEF Led, InOrder, RouterKinds
    <3>5. SetUp(c)'
      BY <1>1, <3>3, <3>4 DEF SetUp
    <3>6. SetUp(cur[l])'
      BY <3>5, <1>1 DEF SetUp
    <3> QED
      BY <1>1, <1>5, <2>1, <2>2, <3>2, <3>6, Works
  <2> QED
    BY <1>1, <2>3, <2>4
<1>8. ASSUME FixedFailed(l) PROVE InOrder(l)'
  <2>1. /\ UNCHANGED <<pool, step>> /\ Goto(l, "fixed")
        /\ nonce' = nonce \/ nonce' = [nonce EXCEPT ![l][c] = 0]
    BY <1>8 DEF FixedFailed, node, ResetNonce
  <2>2. NodeKeeps
    BY <1>1, <2>1, SameNode
  <2>3. \A r \in Slaves, d \in Contracts : nonce'[r][d] # 0 => nonce[r][d] # 0 \/ Code(d)
    <3>1. \A r \in Slaves, d \in Contracts : nonce'[r][d] = nonce[r][d] \/ nonce'[r][d] = 0
      BY <1>1, <2>1, NonceAt DEF Led
    <3> QED
      BY <3>1
  <2>4. Len(chain'[Manager]) >= step'[l] - 1
    BY <1>1, <1>4, <2>1
  <2> QED
    BY <1>1, <1>5, <2>1, <2>2, <2>3, <2>4, Works
<1> QED
  BY <1>6, <1>7, <1>8

\* RegisterGSR: the block is waited for before anything else is done.
LEMMA LeaderRegisters ==
    ASSUME NEW l, Led(l),
           \/ Register(l) \/ RegisterAbandoned(l) \/ RegisterLate(l)
           \/ TargetReached(l) \/ TargetMissed(l)
    PROVE  InOrder(l)'
<1>1. Register(l) \/ TargetReached(l)
  BY NoFault DEF RegisterAbandoned, RegisterLate, TargetMissed
<1>2. CASE TargetReached(l)
  <2>1. /\ NextContract(l) /\ UNCHANGED <<chain, pool, registry, sentAt, nonce>>
        /\ pc[l] = "await" /\ registry[cur[l]] = "active"
    BY <1>2 DEF TargetReached, node
  <2> QED
    BY <2>1, Passes
<1>3. CASE Register(l)
  <2> DEFINE c == cur[l]
  <2>1. /\ l \in Slaves /\ c \in Contracts /\ c \in Routers /\ pc[l] = "register" /\ phase[l] = 1
    BY <1>3, Position DEF Register, Leading, Led, Placed
  <2>2. registry[c] = "none"
    BY <2>1 DEF Led, InOrder, Registrations
  <2>3. /\ pc'[l] = "await" /\ \A s \in Slaves \ {l} : pc'[s] = pc[s]
        /\ registry'[c] # "none" /\ \A k \in Contracts \ {c} : registry'[k] = registry[k]
        /\ UNCHANGED <<phase, cur, sentAt, nonce, chain, pool>>
    BY <1>3, <2>1, <2>2 DEF Register, Goto, Led, TypeOK
  <2> HIDE DEF c
  <2>4. NodeKeeps
    BY <2>2, <2>3, SameChain
  <2>5. \A d \in Contracts : /\ Behind(l, d)' <=> Behind(l, d)
                             /\ Awaited(l, d)' <=> Awaited(l, d)
    BY <2>1, <2>3 DEF Behind, Awaited
  <2>6. Registrations(l)'
    <3>1. Behind(l, c)
      BY <2>1 DEF Behind, c
    <3>2. \A k \in Contracts : phase'[l] = 2 \/ k < cur'[l] => k # c
      <4>1. phase'[l] = 1 /\ cur'[l] = c
        BY <2>1, <2>3 DEF c
      <4>2. c \in Nat
        BY <2>1, SenderTypes
      <4> QED
        BY <4>1, <4>2
    <3> QED
      BY <2>1, <2>3, <2>5, <3>1, <3>2 DEF Led, InOrder, Registrations
  <2>7. Charges'
    <3>1. \A k \in Contracts : registry[k] = "active" => registry'[k] = "active"
      BY <2>2, <2>3
    <3>2. ASSUME NEW s \in Slaves \ {l}, NEW d \in Contracts
          PROVE  pc'[s] = "charge" /\ cur'[s] = d => Ready(d)'
      BY <2>3, <2>4, <3>1, OthersReady
    <3> QED
      BY <2>4, <2>5, <2>6, <3>2, ChargesAfter
  <2>8. Setups(l)'
    <3>1. ASSUME NEW d \in Routers \cap Gasless, registry'[d] # "none" PROVE SetUp(d)
      <4>1. registry[d] # "none" \/ (pc[l] = "register" /\ cur[l] = d)
        BY <2>1, <2>3, <3>1, Keepers DEF c
      <4> QED
        BY <4>1 DEF Led, InOrder, Setups
    <3>2. \A d \in Routers \cap Gasless : SetUp(d)' = SetUp(d)
      BY <2>3 DEF SetUp
    <3> QED
      BY <2>3, <3>1, <3>2 DEF Setups
  <2> QED
    BY <2>3, <2>4, <2>5, <2>6, <2>7, <2>8, Moves
<1> QED
  BY <1>1, <1>2, <1>3

\* The leader stays where it is.
LEMMA Stays ==
    ASSUME NEW l, Led(l), NodeKeeps,
           pc'[l] = pc[l], phase'[l] = phase[l], cur'[l] = cur[l], step'[l] = step[l],
           sentAt'[l] = sentAt[l],
           \A k \in Contracts : /\ registry'[k] = "none" <=> registry[k] = "none"
                                /\ registry[k] = "active" => registry'[k] = "active",
           \A r \in Slaves, d \in Contracts : nonce'[r][d] # 0 => nonce[r][d] # 0 \/ Code(d),
           \A s \in Slaves \ {l}, c \in Contracts : pc'[s] = "charge" /\ cur'[s] = c => Ready(c)'
    PROVE  InOrder(l)'
<1>1. \A c \in Contracts : (Behind(l, c)' <=> Behind(l, c)) /\ (Awaited(l, c)' <=> Awaited(l, c))
  BY DEF Behind, Awaited
<1>2. Registrations(l)'
  BY <1>1 DEF Led, InOrder, Registrations
<1>3. Charges'
  BY <1>1, <1>2, ChargesAfter
<1>4. Setups(l)'
  <2>1. Len(chain[Manager]) \in Nat /\ Len(chain'[Manager]) \in Nat /\ step[l] \in Nat
    <3>1. l \in Slaves /\ Manager \in Senders
      BY Position, SenderTypes
    <3>2. chain[Manager] \in Seq(Kinds) /\ chain'[Manager] \in Seq(Kinds)
      BY <3>1 DEF Led, TypeOK
    <3>3. step[l] \in Nat
      BY <3>1 DEF Led, TypeOK
    <3> QED
      BY <3>2, <3>3
  <2>2. pc'[l] \in {"fixed", "waitFixed"} => Len(chain'[Manager]) >= step'[l] - 1
    BY <2>1 DEF Led, InOrder, Setups, NodeKeeps
  <2>3. \A c \in Routers \cap Gasless :
           registry'[c] # "none" \/ (pc'[l] = "register" /\ cur'[l] = c) => SetUp(c)'
    BY Keepers DEF Led, InOrder, Setups, NodeKeeps
  <2> QED
    BY <2>2, <2>3 DEF Setups
<1> QED
  BY <1>1, <1>2, <1>3, <1>4, Moves

\* Who charges has a deployer that mints, and nothing else.
LEMMA ChargeStep ==
    ASSUME NEW l, Led(l), NEW s \in Slaves, Charge(s) PROVE InOrder(l)'
<1> DEFINE c    == cur[s]
           mint == [nonce |-> NonceOf(s, c), kind |-> "mint", by |-> s]
<1>1. /\ c \in Contracts /\ l \in Slaves /\ pc[s] = "charge" /\ NextContract(s) /\ Ready(c)
      /\ UNCHANGED <<step, sentAt, chain, registry>>
  BY Position DEF Charge, Led, TypeOK, InOrder, Charges
<1>2. NodeKeeps /\ \A r \in Slaves, d \in Contracts : nonce'[r][d] # 0 => nonce[r][d] # 0 \/ Code(d)
  <2>1. CASE c \in Minting
    <3>1. Transfer(s, c, mint) /\ mint.kind = "mint"
      BY <2>1 DEF Charge
    <3> HIDE DEF c, mint
    <3>2. Code(c) /\ (c \in Routers => registry[c] = "active")
      BY <1>1, Keepers DEF Ready
    <3>3. c \in Senders /\ c # Manager
      BY <1>1, SenderTypes DEF Manager, Contracts
    <3>4. /\ pool' = pool \/ pool' = [pool EXCEPT ![c] = @ \cup {mint}]
          /\ \A r \in Slaves, d \in Contracts : nonce'[r][d] # 0 => nonce[r][d] # 0 \/ Code(d)
      BY <1>1, <3>1, <3>2, Transfers
    <3>5. NodeKeeps
      BY <1>1, <3>1, <3>2, <3>3, <3>4, PoolKeeps
    <3> QED
      BY <3>4, <3>5
  <2>2. CASE c \notin Minting
    <3>1. UNCHANGED <<nonce, pool>>
      BY <2>2 DEF Charge
    <3> QED
      BY <1>1, <3>1, SameNode
  <2> QED
    BY <2>1, <2>2
<1>3. \A r \in Slaves \ {s} : cur'[r] = cur[r] /\ phase'[r] = phase[r] /\ pc'[r] = pc[r]
  BY <1>1, NextOne DEF Led
<1>4. phase[s] = 2 /\ phase'[s] = 2 /\ pc'[s] \in {"done", IF s \in Leaders THEN "charge" ELSE "poll"}
  <2>1. phase[s] = 2
    <3>1. Placed /\ phase[s] \in {1, 2}
      BY DEF Led, TypeOK
    <3> HIDE DEF c, mint
    <3> QED
      BY <1>1, <3>1 DEF Placed, Leading
  <2> QED
    BY <1>1, <2>1, NextOne DEF Led
<1>5. \A r \in Slaves \ {l}, d \in Contracts : pc'[r] = "charge" /\ cur'[r] = d => Ready(d)'
  <2>1. s # l => pc'[s] # "charge"
    BY <1>4 DEF Led
  <2> QED
    BY <1>1, <1>2, <1>3, <2>1, OthersReady
<1>6. CASE s # l
  BY <1>1, <1>2, <1>3, <1>5, <1>6, Stays
<1>7. CASE s = l
  <2>1. phase[l] = 2 /\ phase'[l] = 2 /\ pc'[l] \in {"done", "charge"}
    BY <1>4, <1>7 DEF Led
  <2>2. \A d \in Contracts : /\ Behind(l, d)' <=> Behind(l, d)
                             /\ Awaited(l, d)' <=> Awaited(l, d)
    BY <2>1 DEF Behind, Awaited
  <2>3. Registrations(l)'
    BY <1>1, <2>1, <2>2 DEF Led, InOrder, Registrations
  <2>4. Charges'
    BY <1>2, <1>5, <2>2, <2>3, ChargesAfter
  <2>5. Setups(l)'
    BY <1>1, <1>2, <2>1, Keepers DEF Led, InOrder, Setups, NodeKeeps
  <2> QED
    BY <1>1, <1>2, <2>2, <2>3, <2>4, <2>5, Moves
<1> QED
  BY <1>6, <1>7

\* A follower that asks comes through when the answer is yes.
LEMMA PollStep ==
    ASSUME NEW l, Led(l), NEW s \in Slaves, Poll(s) PROVE InOrder(l)'
<1> DEFINE c == cur[s]
<1>1. /\ pc[s] = "poll" /\ UNCHANGED <<phase, cur, step, sentAt, chain, pool, registry>>
      /\ c \in Contracts /\ l \in Slaves /\ s # l
  <2>1. pc[s] = "poll" /\ UNCHANGED <<phase, cur, step, sentAt, chain, pool, registry>>
    BY DEF Poll, node
  <2>2. c \in Contracts /\ l \in Slaves
    BY Position DEF Led, TypeOK
  <2>3. s \notin Leaders
    <3>1. Placed /\ phase[s] \in {1, 2}
      BY DEF Led, TypeOK
    <3> QED
      BY <2>1, <3>1 DEF Placed, Leading
  <2> QED
    BY <2>1, <2>2, <2>3 DEF Led
<1>2. /\ Ask(s, c) /\ \A r \in Slaves \ {s} : pc'[r] = pc[r]
      /\ pc'[s] = "charge" => Deployed(s, c)
  <2>1. ~Fault /\ gaveUp' = {} /\ pc \in [Slaves -> Places]
    BY NoFault DEF Led, Quiet, TypeOK
  <2> QED
    BY <1>1, <2>1 DEF Poll, Unanswered, Goto
<1>3. NodeKeeps
  BY <1>1, SameNode
<1>4. \A r \in Slaves, d \in Contracts : nonce'[r][d] # 0 => nonce[r][d] # 0 \/ Code(d)
  BY <1>1, <1>2, Asked
<1>5. pc'[s] = "charge" => Ready(c)
  BY <1>1, <1>2, Found
<1>6. ASSUME NEW r \in Slaves \ {l}, NEW d \in Contracts, pc'[r] = "charge", cur'[r] = d
      PROVE  Ready(d)'
  <2>1. Ready(d)' <=> Ready(d)
    BY <1>1 DEF Ready, Code
  <2>2. CASE r = s
    BY <1>1, <1>5, <1>6, <2>1, <2>2
  <2>3. CASE r # s
    BY <1>1, <1>2, <1>3, <1>6, <2>3, OthersReady
  <2> QED
    BY <2>2, <2>3
<1> QED
  BY <1>1, <1>2, <1>3, <1>4, <1>6, Stays

\* A block executes a deployment, and then what its deployer sends besides.
LEMMA MineStep ==
    ASSUME NEW l, Led(l), NEW a \in Senders, Mine(a) PROVE InOrder(l)'
<1>1. PICK x \in Slot(a, Executed(a)) :
         /\ pool' = [pool EXCEPT ![a] = @ \ {x}]
         /\ chain' = [chain EXCEPT ![a] = Append(@, IF Short(a, x) THEN "short" ELSE x.kind)]
         /\ UNCHANGED <<place, nonce, registry>>
  BY NoFault DEF Mine
<1> DEFINE kind == IF Short(a, x) THEN "short" ELSE x.kind
<1>2. /\ x \in pool[a] /\ (a \in Contracts => kind = x.kind) /\ kind \in {"short", x.kind}
      /\ \A c \in Contracts : c \in Senders /\ c # Manager
      /\ Manager \in Senders
  BY <1>1, SenderTypes DEF Slot, Short, Manager, Contracts
<1>3. /\ chain'[a] = Append(chain[a], kind) /\ pool'[a] = pool[a] \ {x}
      /\ \A b \in Senders \ {a} : chain'[b] = chain[b] /\ pool'[b] = pool[b]
      /\ chain[a] \in Seq(Kinds)
  BY <1>1 DEF Led, TypeOK
<1> HIDE DEF kind
<1>4. /\ Len(chain'[a]) = Len(chain[a]) + 1 /\ Len(chain[a]) \in Nat
      /\ chain'[a][Len(chain[a]) + 1] = kind
      /\ \A i \in 1..Len(chain[a]) : chain'[a][i] = chain[a][i]
      /\ chain'[a] # <<>> /\ (chain[a] = <<>> <=> Len(chain[a]) = 0)
  BY <1>3
<1>5. ASSUME NEW c \in Contracts
      PROVE  /\ Blank(c) => Blank(c)'
             /\ Coming(c) => (Coming(c) \/ Only(c))'
             /\ Only(c) => Only(c)'
  <2>1. CASE c # a
    BY <1>2, <1>3, <2>1 DEF Blank, Coming, Only, Code
  <2>2. CASE c = a
    <3>1. ~Blank(c)
      BY <1>2, <2>2 DEF Blank
    <3>2. ASSUME Coming(c) PROVE Only(c)'
      <4>1. kind = "deploy" /\ pool'[c] = {}
        BY <1>2, <1>3, <2>2, <3>2 DEF Coming, Deployment
      <4>2. Len(chain'[c]) = 1 /\ chain'[c][1] = "deploy"
        BY <1>3, <1>4, <2>2, <3>2, <4>1 DEF Coming
      <4> QED
        BY <1>4, <2>2, <4>1, <4>2 DEF Only, Code
    <3>3. ASSUME Only(c) PROVE Only(c)'
      <4>1. kind # "deploy" /\ Len(chain[c]) >= 1
        BY <1>2, <1>4, <2>2, <3>3 DEF Only, Code
      <4>2. Code(c)'
        BY <1>4, <2>2, <3>3, <4>1 DEF Only, Code
      <4>3. \A i \in 2..Len(chain'[c]) : chain'[c][i] # "deploy"
        BY <1>4, <2>2, <3>3, <4>1 DEF Only
      <4>4. \A y \in pool'[c] : y.kind # "deploy"
        BY <1>3, <2>2, <3>3 DEF Only
      <4> QED
        BY <4>2, <4>3, <4>4 DEF Only
    <3> QED
      BY <3>1, <3>2, <3>3
  <2> QED
    BY <2>1, <2>2
<1>6. Len(chain'[Manager]) >= Len(chain[Manager])
  BY <1>2, <1>3, <1>4, SenderTypes, NodeTypes DEF Led, Executed
<1>7. ASSUME NEW c \in Routers, SetUp(c) PROVE SetUp(c)'
  <2>1. c \in Senders /\ chain[Manager] \in Seq(Kinds) /\ chain'[Manager] \in Seq(Kinds)
    BY <1>2, Keepers DEF Led, TypeOK
  <2>2. Len(chain'[Manager]) >= ManagerTxs
    <3>1. Len(chain[Manager]) \in Nat /\ Len(chain'[Manager]) \in Nat
      BY <2>1
    <3> QED
      BY <1>6, <1>7, <3>1 DEF SetUp
  <2>3. Len(chain'[c]) >= 2 /\ chain'[c][2] = "setup"
    <3>1. CASE c = a
      BY <1>4, <1>7, <3>1 DEF SetUp
    <3>2. CASE c # a
      BY <1>3, <1>7, <2>1, <3>2 DEF SetUp
    <3> QED
      BY <3>1, <3>2
  <2> QED
    BY <2>2, <2>3 DEF SetUp
<1>8. ManagerKinds'
  <2>1. CASE a = Manager
    <3>1. kind \in {"setup", "short"} /\ \A y \in pool'[Manager] : y.kind = "setup"
      BY <1>2, <1>3, <2>1 DEF Led, InOrder, ManagerKinds
    <3>2. \A i \in 1..Len(chain'[Manager]) : chain'[Manager][i] \in {"setup", "short"}
      BY <1>4, <2>1, <3>1 DEF Led, InOrder, ManagerKinds
    <3> QED
      BY <3>1, <3>2 DEF ManagerKinds
  <2>2. CASE a # Manager
    BY <1>2, <1>3, <2>2 DEF Led, InOrder, ManagerKinds
  <2> QED
    BY <2>1, <2>2
<1>9. RouterKinds'
  <2> SUFFICES ASSUME NEW c \in Routers \cap Gasless, registry[c] = "none"
               PROVE  /\ \A i \in 2..Len(chain'[c]) : chain'[c][i] = "setup"
                      /\ Code(c)' => \A y \in pool'[c] : y.kind = "setup"
    BY <1>1 DEF RouterKinds
  <2>1. /\ \A i \in 2..Len(chain[c]) : chain[c][i] = "setup"
        /\ Code(c) => \A y \in pool[c] : y.kind = "setup"
    BY DEF Led, InOrder, RouterKinds
  <2>2. c \in Contracts
    BY Keepers
  <2>3. CASE c # a
    BY <1>2, <1>3, <2>1, <2>2, <2>3 DEF Code
  <2>4. CASE c = a /\ chain[a] = <<>>
    <3>1. Coming(c)
      BY <1>2, <2>2, <2>4, CodeOnly DEF Blank, Only, Code
    <3>2. pool'[c] = {} /\ Len(chain'[c]) = 1
      BY <1>2, <1>3, <1>4, <2>4, <3>1 DEF Coming
    <3> QED
      BY <3>2
  <2>5. CASE c = a /\ chain[a] # <<>>
    <3>1. Code(c)
      BY <2>2, <2>5, CodeOnly DEF Blank, Coming, Only
    <3>2. kind = "setup" /\ \A y \in pool'[c] : y.kind = "setup"
      BY <1>2, <1>3, <2>1, <2>2, <2>5, <3>1
    <3>3. \A i \in 2..Len(chain'[c]) : chain'[c][i] = "setup"
      BY <1>4, <2>1, <2>5, <3>2
    <3> QED
      BY <3>2, <3>3
  <2> QED
    BY <2>3, <2>4, <2>5
<1>10. NodeKeeps
  BY <1>5, <1>6, <1>7, <1>8, <1>9 DEF NodeKeeps
<1>11. UNCHANGED <<pc, phase, cur, step, sentAt>>
  BY <1>1 DEF place
<1>12. \A s \in Slaves, c \in Contracts : pc'[s] = "charge" /\ cur'[s] = c => Ready(c)'
  BY <1>1, <1>10, <1>11, OthersReady
<1> QED
  BY <1>1, <1>10, <1>11, <1>12, Stays

LEMMA ActivateStep ==
    ASSUME NEW l, Led(l), NEW c \in Contracts, Activate(c) PROVE InOrder(l)'
<1>1. /\ UNCHANGED <<pc, phase, cur, step, sentAt, nonce, chain, pool>>
      /\ registry[c] = "registered" /\ registry' = [registry EXCEPT ![c] = "active"]
      /\ registry \in [Contracts -> {"none", "registered", "active"}]
  BY DEF Activate, place, Led, TypeOK
<1>2. \A k \in Contracts : /\ registry'[k] = "none" <=> registry[k] = "none"
                           /\ registry[k] = "active" => registry'[k] = "active"
  BY <1>1
<1>3. NodeKeeps
  BY <1>1, <1>2, SameChain
<1>4. \A s \in Slaves, d \in Contracts : pc'[s] = "charge" /\ cur'[s] = d => Ready(d)'
  BY <1>1, <1>2, <1>3, OthersReady
<1> QED
  BY <1>1, <1>2, <1>3, <1>4, Stays
----------------------------------------------------------------------------
\* Another slave waits, or charges.
LEMMA Follower ==
    ASSUME NEW l, Led(l), NEW s \in Slaves, s # l, Slave(s)
    PROVE  Poll(s) \/ Charge(s)
<1>1. pc[s] \in {"poll", "charge", "done"}
  BY DEF Led, Placed
<1> QED
  BY <1>1 DEF Slave, Check, Fund, DeployAccepted, DeploySkipped, DeployRetried, DeployMined,
         DeployFailed, SetupWork, Supply, SupplyTokens, FixedSent, FixedSkipped, FixedMined,
         FixedFailed, Register, RegisterAbandoned, RegisterLate, TargetReached, TargetMissed

LEMMA OrderStep == ASSUME NEW l, Led(l), [Next]_vars PROVE InOrder(l)'
<1>1. ASSUME NEW s \in Slaves, Slave(s) PROVE InOrder(l)'
  <2>1. CASE s # l
    BY <1>1, <2>1, Follower, ChargeStep, PollStep
  <2>2. CASE s = l
    BY <1>1, <2>2, LeaderDeploys, LeaderDeployed, LeaderSetsUp, LeaderFixes,
       LeaderRegisters, ChargeStep, PollStep DEF Slave
  <2> QED
    BY <2>1, <2>2
<1>2. ASSUME NEW s \in Slaves, Restart(s) PROVE FALSE
  BY <1>2 DEF Restart, Led, Quiet
<1>3. CASE UNCHANGED vars
  <2>1. UNCHANGED <<pc, phase, cur, step, sentAt, nonce, chain, pool, registry>>
    BY <1>3 DEF vars, place, node
  <2>2. NodeKeeps
    BY <2>1, SameNode
  <2>3. \A s \in Slaves, c \in Contracts : pc'[s] = "charge" /\ cur'[s] = c => Ready(c)'
    BY <2>1, <2>2, OthersReady
  <2> QED
    BY <2>1, <2>2, <2>3, Stays
<1> QED
  BY <1>1, <1>2, <1>3, MineStep, ActivateStep DEF Next, Terminated

\* The only leader.
LEMMA OneLeader ==
    ASSUME Cardinality(Leaders) = 1 PROVE \E l \in Slaves : Leaders = {l}
<1>1. IsFiniteSet(Leaders)
  BY FS_Subset
<1> QED
  BY <1>1, FS_Singleton

LEMMA DInvInit == Init => DInv
<1> SUFFICES ASSUME Init PROVE DInv
  OBVIOUS
<1>1. TypeOK /\ Placed
  BY InitType
<1>2. ASSUME NEW l \in Leaders PROVE InOrder(l)
  <2>1. pc[l] = "check" /\ phase[l] = 1 /\ cur[l] = 1 /\ l \in Slaves
    BY DEF Init, Start
  <2>2. \A a \in Senders : chain[a] = <<>> /\ pool[a] = {}
    BY DEF Init
  <2>3. \A c \in Contracts : ~Behind(l, c) /\ ~Awaited(l, c) /\ Blank(c) /\ registry[c] = "none"
    BY <2>1, <2>2, SenderTypes DEF Behind, Awaited, Blank, Contracts, Init
  <2>4. Deployments(l)
    BY <2>3 DEF Deployments
  <2>5. Cached(l)
    BY DEF Init, Cached
  <2>6. Registrations(l)
    <3>1. \A k \in Contracts : ~(phase[l] = 2 \/ k < cur[l])
      BY <2>1 DEF Contracts
    <3> QED
      BY <2>3, <3>1 DEF Registrations
  <2>7. Charges
    BY DEF Init, Start, Charges
  <2>8. ManagerKinds
    BY <2>2, SenderTypes DEF ManagerKinds
  <2>9. RouterKinds
    BY <2>2, SenderTypes, Keepers DEF RouterKinds
  <2>10. Setups(l)
    BY <2>1, <2>3, Keepers DEF Setups
  <2> QED
    BY <2>4, <2>5, <2>6, <2>7, <2>8, <2>9, <2>10 DEF InOrder
<1> QED
  BY <1>1, <1>2 DEF DInv

LEMMA DInvStep == DInv /\ [Next]_vars => DInv'
<1> SUFFICES ASSUME DInv, [Next]_vars PROVE DInv'
  OBVIOUS
<1>1. TypeOK' /\ Placed'
  BY TypeStep, PlacedStep DEF DInv
<1>2. ASSUME Undisturbed' PROVE \A l \in Leaders : InOrder(l)'
  <2>1. Quiet' /\ Cardinality(Leaders) = 1
    BY <1>2 DEF Undisturbed, Quiet
  <2>2. Quiet
    BY <2>1, QuietBefore DEF DInv
  <2>3. PICK l \in Slaves : Leaders = {l}
    BY <2>1, OneLeader
  <2>4. InOrder(l)
    BY <2>1, <2>2, <2>3 DEF DInv, Undisturbed, Quiet
  <2>5. Led(l)
    BY <1>1, <2>1, <2>2, <2>3, <2>4 DEF Led, DInv
  <2>6. InOrder(l)'
    BY <2>5, OrderStep
  <2> QED
    BY <2>3, <2>6
<1> QED
  BY <1>1, <1>2 DEF DInv

THEOREM DeploymentInvariance == Spec => []DInv
  BY DInvInit, DInvStep, PTL DEF Spec

LEMMA DInvCodeThere == DInv => CodeThere
  BY OneLeader DEF DInv, CodeThere, Undisturbed, InOrder, Charges, Ready

\* Nobody charges with a contract that is not there, when one slave leads and
\* nothing failed on the way (accgroup.go:187), however many slaves and
\* contracts there are.
THEOREM CodeThereAlways == Spec => []CodeThere
  BY DeploymentInvariance, DInvCodeThere, PTL

LEMMA DInvSetup == DInv => SetupUndisturbed
<1> SUFFICES ASSUME DInv, Undisturbed PROVE
             /\ SetupComplete
             /\ \A c \in Contracts : Keeper(c) # 0 /\ registry[Keeper(c)] = "active" => Code(c)
  BY DEF SetupUndisturbed
<1>1. PICK l \in Slaves : Leaders = {l} /\ InOrder(l)
  BY OneLeader DEF DInv, Undisturbed
<1>2. ASSUME TokensInTime, NEW c \in Routers \cap Gasless, registry[c] = "active"
      PROVE  LiquiditySetUp(c)
  <2>1. SetUp(c)
    BY <1>1, <1>2 DEF InOrder, Setups
  <2>2. Len(chain[Manager]) \in Nat
    BY SenderTypes, NodeTypes DEF DInv, Executed
  <2>3. \A i \in 1..Len(chain[Manager]) : chain[Manager][i] = "setup"
    BY <1>1, <1>2 DEF InOrder, ManagerKinds, TokensInTime
  <2>4. \A i \in 1..ManagerTxs : i <= Len(chain[Manager]) /\ chain[Manager][i] = "setup"
    BY <2>1, <2>2, <2>3 DEF SetUp
  <2> QED
    BY <2>1, <2>4 DEF LiquiditySetUp, SetUp
<1>3. ASSUME NEW c \in Contracts, Keeper(c) # 0, registry[Keeper(c)] = "active" PROVE Code(c)
  <2>1. Keeper(c) \in Contracts /\ c <= Keeper(c)
    BY <1>3, Keepers
  <2>2. Behind(l, Keeper(c))
    BY <1>1, <1>3, <2>1 DEF InOrder, Registrations
  <2>3. Behind(l, c)
    <3>1. cur[l] \in Nat /\ c \in Nat /\ Keeper(c) \in Nat
      BY <2>1, SenderTypes DEF DInv, TypeOK
    <3> QED
      BY <2>1, <2>2, <3>1 DEF Behind
  <2> QED
    BY <1>1, <2>3 DEF InOrder, Deployments, Only
<1> QED
  BY <1>2, <1>3 DEF SetupComplete

\* What is active in the registry is deployed and set up, each fixed nonce used
\* by its own transaction, when one slave leads and nothing failed
\* (contract.go:763, 782), however many contracts and manager transactions there are.
THEOREM SetupUndisturbedAlways == Spec => []SetupUndisturbed
  BY DeploymentInvariance, DInvSetup, PTL

----------------------------------------------------------------------------
(* How often a contract is deployed, whatever fails and is started again:  *)
(* its deployments, and the leaders that may still deploy it, are no more  *)
(* than the leaders, the failures and the restarts.                        *)

Early == {"check", "fund", "deploy"}

\* The deployment that s waits for was reverted.
Refuted(s) == TooLow(cur[s], sentAt[s]) /\ chain[cur[s]][sentAt[s] + 1] = "reverted"

MayDeploy(s, c) ==
    /\ phase[s] = 1
    /\ \/ cur[s] < c
       \/ cur[s] = c /\ pc[s] \in Early
       \/ cur[s] = c /\ pc[s] = "waitDeploy" /\ Refuted(s)

May(c) == {s \in Leaders : MayDeploy(s, c)}

\* What is waited for has been sent, and each waits for a deployment of its own.
Sent == \A s \in Slaves : pc[s] = "waitDeploy" =>
           TooLow(cur[s], sentAt[s]) \/ Slot(cur[s], sentAt[s]) # {}

Alone == \A s, t \in Slaves :
            pc[s] = "waitDeploy" /\ pc[t] = "waitDeploy" /\ cur[s] = cur[t] /\ sentAt[s] = sentAt[t]
                => s = t

Within ==
    \A c \in Contracts :
        /\ IsFiniteSet(pool[c])
        /\ Cardinality(InBlocks(c)) + Cardinality(InPool(c)) + Cardinality(May(c))
              <= Cardinality(Leaders) + faults + restarts

Unspoilt == \A a \in Senders : \A x \in pool[a] : x.kind # "reverted"

BoundInv == TypeOK /\ Placed /\ Sent /\ Alone /\ Unspoilt /\ Within

LEMMA Subset ==
    ASSUME NEW S, IsFiniteSet(S), NEW T, T \subseteq S
    PROVE  /\ IsFiniteSet(T) /\ Cardinality(T) \in Nat /\ Cardinality(S) \in Nat
           /\ Cardinality(T) <= Cardinality(S)
  BY FS_Subset, FS_CardinalityType

LEMMA OneMore ==
    ASSUME NEW S, IsFiniteSet(S), NEW x, NEW T, T \subseteq S \cup {x}
    PROVE  /\ IsFiniteSet(T) /\ Cardinality(T) \in Nat /\ Cardinality(S) \in Nat
           /\ Cardinality(T) <= Cardinality(S) + 1
<1>1. /\ IsFiniteSet(S \cup {x}) /\ Cardinality(S) \in Nat
      /\ Cardinality(S \cup {x}) = IF x \in S THEN Cardinality(S) ELSE Cardinality(S) + 1
  BY FS_AddElement, FS_CardinalityType
<1>2. /\ IsFiniteSet(T) /\ Cardinality(T) \in Nat /\ Cardinality(S \cup {x}) \in Nat
      /\ Cardinality(T) <= Cardinality(S \cup {x})
  BY <1>1, Subset
<1> QED
  BY <1>1, <1>2

LEMMA OneLess ==
    ASSUME NEW S, IsFiniteSet(S), NEW x \in S, NEW T, T \subseteq S \ {x}
    PROVE  /\ IsFiniteSet(T) /\ Cardinality(T) \in Nat /\ Cardinality(S) \in Nat
           /\ Cardinality(T) + 1 <= Cardinality(S)
<1>1. /\ IsFiniteSet(S \ {x}) /\ Cardinality(S) \in Nat
      /\ Cardinality(S \ {x}) = Cardinality(S) - 1
  BY FS_RemoveElement, FS_CardinalityType
<1>2. /\ IsFiniteSet(T) /\ Cardinality(T) \in Nat /\ Cardinality(S \ {x}) \in Nat
      /\ Cardinality(T) <= Cardinality(S \ {x})
  BY <1>1, Subset
<1> QED
  BY <1>1, <1>2

\* Deployments B and P of a contract and leaders M that may deploy it become C,
\* Q and N: a deployment is paid for by one that might have been made, or by
\* what failed.
Paid(B, P, M, l, C, Q, N, m) ==
    \/ C \subseteq B /\ Q \subseteq P /\ N \subseteq M /\ l <= m
    \/ C \subseteq B /\ l <= m /\ \E x, s : s \in M /\ Q \subseteq P \cup {x} /\ N \subseteq M \ {s}
    \/ C \subseteq B /\ l + 1 <= m /\ \E x : Q \subseteq P \cup {x} /\ N \subseteq M
    \/ C \subseteq B /\ l + 1 <= m /\ \E s : Q \subseteq P /\ N \subseteq M \cup {s}
    \/ l <= m /\ N \subseteq M /\ \E n, x : x \in P /\ C \subseteq B \cup {n} /\ Q \subseteq P \ {x}

LEMMA Count ==
    ASSUME NEW B, NEW P, NEW M, IsFiniteSet(B), IsFiniteSet(P), IsFiniteSet(M),
           NEW l \in Nat, NEW m \in Nat, Cardinality(B) + Cardinality(P) + Cardinality(M) <= l,
           NEW C, NEW Q, NEW N, Paid(B, P, M, l, C, Q, N, m)
    PROVE  Cardinality(C) + Cardinality(Q) + Cardinality(N) <= m
<1> DEFINE b == Cardinality(B)  p == Cardinality(P)  k == Cardinality(M)
<1>1. b \in Nat /\ p \in Nat /\ k \in Nat
  BY FS_CardinalityType
<1>2. \A c, q, n \in Nat :
         \/ c <= b /\ q <= p /\ n <= k /\ l <= m
         \/ c <= b /\ q <= p + 1 /\ n + 1 <= k /\ l <= m
         \/ c <= b /\ q <= p + 1 /\ n <= k /\ l + 1 <= m
         \/ c <= b /\ q <= p /\ n <= k + 1 /\ l + 1 <= m
         \/ c <= b + 1 /\ q + 1 <= p /\ n <= k /\ l <= m
         => c + q + n <= m
  <2>1. b + p + k <= l
    OBVIOUS
  <2> HIDE DEF b, p, k
  <2> QED
    BY <1>1, <2>1
<1>3. CASE C \subseteq B /\ Q \subseteq P /\ N \subseteq M /\ l <= m
  <2>1. /\ Cardinality(C) \in Nat /\ Cardinality(Q) \in Nat /\ Cardinality(N) \in Nat
        /\ Cardinality(C) <= b /\ Cardinality(Q) <= p /\ Cardinality(N) <= k
    BY <1>3, Subset
  <2> HIDE DEF b, p, k
  <2> QED
    BY <1>2, <1>3, <2>1
<1>4. ASSUME C \subseteq B, l <= m, NEW x, NEW s \in M, Q \subseteq P \cup {x}, N \subseteq M \ {s}
      PROVE  Cardinality(C) + Cardinality(Q) + Cardinality(N) <= m
  <2>1. Cardinality(C) \in Nat /\ Cardinality(C) <= b
    BY <1>4, Subset
  <2>2. Cardinality(Q) \in Nat /\ Cardinality(Q) <= p + 1
    BY <1>4, OneMore
  <2>3. Cardinality(N) \in Nat /\ Cardinality(N) + 1 <= k
    BY <1>4, OneLess
  <2> HIDE DEF b, p, k
  <2> QED
    BY <1>2, <1>4, <2>1, <2>2, <2>3
<1>5. ASSUME C \subseteq B, l + 1 <= m, NEW x, Q \subseteq P \cup {x}, N \subseteq M
      PROVE  Cardinality(C) + Cardinality(Q) + Cardinality(N) <= m
  <2>1. /\ Cardinality(C) \in Nat /\ Cardinality(C) <= b
        /\ Cardinality(N) \in Nat /\ Cardinality(N) <= k
    BY <1>5, Subset
  <2>2. Cardinality(Q) \in Nat /\ Cardinality(Q) <= p + 1
    BY <1>5, OneMore
  <2> HIDE DEF b, p, k
  <2> QED
    BY <1>2, <1>5, <2>1, <2>2
<1>6. ASSUME C \subseteq B, l + 1 <= m, NEW s, Q \subseteq P, N \subseteq M \cup {s}
      PROVE  Cardinality(C) + Cardinality(Q) + Cardinality(N) <= m
  <2>1. /\ Cardinality(C) \in Nat /\ Cardinality(C) <= b
        /\ Cardinality(Q) \in Nat /\ Cardinality(Q) <= p
    BY <1>6, Subset
  <2>2. Cardinality(N) \in Nat /\ Cardinality(N) <= k + 1
    BY <1>6, OneMore
  <2> HIDE DEF b, p, k
  <2> QED
    BY <1>2, <1>6, <2>1, <2>2
<1>7. ASSUME l <= m, N \subseteq M, NEW n, NEW x \in P, C \subseteq B \cup {n}, Q \subseteq P \ {x}
      PROVE  Cardinality(C) + Cardinality(Q) + Cardinality(N) <= m
  <2>1. Cardinality(C) \in Nat /\ Cardinality(C) <= b + 1
    BY <1>7, OneMore
  <2>2. Cardinality(Q) \in Nat /\ Cardinality(Q) + 1 <= p
    BY <1>7, OneLess
  <2>3. Cardinality(N) \in Nat /\ Cardinality(N) <= k
    BY <1>7, Subset
  <2> HIDE DEF b, p, k
  <2> QED
    BY <1>2, <1>7, <2>1, <2>2, <2>3
<1> QED
  BY <1>3, <1>4, <1>5, <1>6, <1>7 DEF Paid

\* The bound of one contract after a step.
LEMMA CountStep ==
    ASSUME TypeOK, TypeOK', Within, NEW c \in Contracts,
           Paid(InBlocks(c), InPool(c), May(c), faults + restarts,
                InBlocks(c)', InPool(c)', May(c)', faults' + restarts')
    PROVE  Cardinality(InBlocks(c)') + Cardinality(InPool(c)') + Cardinality(May(c)')
              <= Cardinality(Leaders) + faults' + restarts'
<1>1. /\ IsFiniteSet(InBlocks(c)) /\ IsFiniteSet(InPool(c)) /\ IsFiniteSet(May(c))
      /\ IsFiniteSet(Leaders)
  <2>1. Len(chain[c]) \in Nat
    BY SenderTypes DEF TypeOK
  <2>2. IsFiniteSet(1..Len(chain[c]))
    BY <2>1, FS_Interval
  <2>3. IsFiniteSet(InBlocks(c))
    BY <2>2, FS_Subset DEF InBlocks
  <2>4. IsFiniteSet(InPool(c))
    BY FS_Subset DEF Within, InPool
  <2>5. IsFiniteSet(Leaders)
    BY FS_Subset
  <2>6. IsFiniteSet(May(c))
    BY <2>5, FS_Subset DEF May
  <2> QED
    BY <2>3, <2>4, <2>5, <2>6
<1>2. /\ Cardinality(Leaders) \in Nat /\ faults \in Nat /\ restarts \in Nat
      /\ faults' \in Nat /\ restarts' \in Nat
  BY <1>1, FS_CardinalityType DEF TypeOK
<1>3. ASSUME NEW B, NEW P, NEW M, NEW C, NEW Q, NEW N,
             NEW v \in Nat, NEW f \in Nat, NEW r \in Nat, NEW g \in Nat, NEW h \in Nat,
             Paid(B, P, M, f + r, C, Q, N, g + h)
      PROVE  Paid(B, P, M, v + f + r, C, Q, N, v + g + h)
  <2>1. /\ f + r <= g + h => v + f + r <= v + g + h
        /\ f + r + 1 <= g + h => v + f + r + 1 <= v + g + h
    OBVIOUS
  <2> QED
    BY <1>3, <2>1, Zenon DEF Paid
<1>4. Paid(InBlocks(c), InPool(c), May(c), Cardinality(Leaders) + faults + restarts,
           InBlocks(c)', InPool(c)', May(c)', Cardinality(Leaders) + faults' + restarts')
  BY <1>2, <1>3
<1>5. Cardinality(InBlocks(c)) + Cardinality(InPool(c)) + Cardinality(May(c))
         <= Cardinality(Leaders) + faults + restarts
  BY DEF Within
<1>6. /\ Cardinality(Leaders) + faults + restarts \in Nat
      /\ Cardinality(Leaders) + faults' + restarts' \in Nat
  <2>1. \A x, y, z \in Nat : x + y + z \in Nat
    OBVIOUS
  <2> QED
    BY <1>2, <2>1
<1> QED
  BY <1>1, <1>4, <1>5, <1>6, Count

\* What a slave's step leaves alone.
LEMMA OwnStep ==
    ASSUME TypeOK, NEW s \in Slaves, Slave(s) \/ Restart(s)
    PROVE  /\ chain' = chain
           /\ \A r \in Slaves \ {s} : /\ pc'[r] = pc[r] /\ phase'[r] = phase[r]
                                      /\ cur'[r] = cur[r] /\ sentAt'[r] = sentAt[r]
<1> DEFINE Own == /\ chain' = chain
                  /\ \A r \in Slaves \ {s} : /\ pc'[r] = pc[r] /\ phase'[r] = phase[r]
                                             /\ cur'[r] = cur[r] /\ sentAt'[r] = sentAt[r]
<1> USE DEF node, Goto
<1>1. NextContract(s) => /\ \A r \in Slaves \ {s} : pc'[r] = pc[r] /\ phase'[r] = phase[r]
                                                    /\ cur'[r] = cur[r]
  BY NextOne
<1>2. Check(s) \/ Fund(s) \/ DeployAccepted(s) \/ DeploySkipped(s) => Own
  BY DEF Check, Fund, DeployAccepted, DeploySkipped, TypeOK
<1>3. DeployRetried(s) \/ DeployMined(s) \/ DeployFailed(s) => Own
  BY DEF DeployRetried, DeployMined, DeployFailed, TypeOK, place
<1>4. SetupWork(s) \/ RegisterAbandoned(s) \/ TargetReached(s) \/ Charge(s) => Own
  BY <1>1 DEF SetupWork, RegisterAbandoned, TargetReached, Charge, TypeOK
<1>5. Supply(s) \/ SupplyTokens(s) \/ FixedSent(s) => Own
  BY DEF Supply, SupplyTokens, FixedSent, TypeOK
<1>6. FixedSkipped(s) \/ FixedMined(s) \/ FixedFailed(s) => Own
  BY DEF FixedSkipped, FixedMined, FixedFailed, AfterFixed, TypeOK
<1>7. Register(s) \/ RegisterLate(s) \/ TargetMissed(s) => Own
  BY DEF Register, RegisterLate, TargetMissed, TypeOK
<1>8. Poll(s) => Own
  BY DEF Poll, TypeOK
<1>9. Restart(s) => Own
  BY DEF Restart, TypeOK
<1> QED
  BY <1>2, <1>3, <1>4, <1>5, <1>6, <1>7, <1>8, <1>9 DEF Slave

\* The others may deploy what they might before.
LEMMA OthersMay ==
    ASSUME TypeOK, NEW s \in Slaves, Slave(s) \/ Restart(s), NEW c \in Contracts
    PROVE  /\ \A r \in Slaves \ {s} : MayDeploy(r, c)' <=> MayDeploy(r, c)
           /\ May(c)' \subseteq May(c) \cup {s}
           /\ (MayDeploy(s, c)' => MayDeploy(s, c)) => May(c)' \subseteq May(c)
           /\ ~MayDeploy(s, c)' => May(c)' \subseteq May(c) \ {s}
           /\ InBlocks(c)' \subseteq InBlocks(c)
<1>1. /\ chain' = chain
      /\ \A r \in Slaves \ {s} : /\ pc'[r] = pc[r] /\ phase'[r] = phase[r]
                                 /\ cur'[r] = cur[r] /\ sentAt'[r] = sentAt[r]
  BY OwnStep
<1>2. \A r \in Slaves \ {s} : MayDeploy(r, c)' <=> MayDeploy(r, c)
  BY <1>1 DEF MayDeploy, Refuted, TooLow, Executed
<1>3. InBlocks(c)' = InBlocks(c)
  BY <1>1 DEF InBlocks
<1> QED
  BY <1>2, <1>3 DEF May

\* Transactions that deploy nothing are added to a pool, one at a time.
Adds(P) == \A a \in Senders : /\ P[a] \subseteq pool'[a]
                              /\ \E x : /\ pool'[a] \subseteq P[a] \cup {x}
                                        /\ x.kind \notin {"deploy", "reverted"}

LEMMA AddsNone == ASSUME TypeOK, pool' = pool PROVE Adds(pool)
<1>1. [kind |-> "mint"].kind \notin {"deploy", "reverted"}
  OBVIOUS
<1> QED
  BY <1>1 DEF Adds

LEMMA AddsOne ==
    ASSUME TypeOK, NEW a \in Senders, NEW x, x.kind \notin {"deploy", "reverted"}, Accept(a, x)
    PROVE  Adds(pool)
  BY DEF Adds, Accept, TypeOK

LEMMA AddsTransfer ==
    ASSUME TypeOK, NEW s \in Slaves, NEW c \in Contracts, NEW tx,
           tx.kind \notin {"deploy", "reverted"}, Transfer(s, c, tx)
    PROVE  Adds(pool) /\ (faults' = faults \/ faults' = faults + 1)
<1>1. Accept(c, tx) \/ pool' = pool
  BY DEF Transfer
<1>2. faults' = faults \/ faults' = faults + 1
  BY DEF Transfer, Fault
<1> QED
  BY <1>1, <1>2, AddsNone, AddsOne, SenderTypes

\* The steps that neither deploy nor come back to a deployment.
Calm(s) == /\ UNCHANGED <<chain, sentAt, restarts>>
           /\ faults' = faults \/ faults' = faults + 1
           /\ Adds(pool)
           /\ pc'[s] # "waitDeploy"
           /\ \/ /\ phase'[s] = phase[s] /\ cur'[s] = cur[s]
                 /\ pc'[s] \in Early => pc[s] \in Early
              \/ NextContract(s)

LEMMA CalmStep ==
    ASSUME TypeOK, Placed, NEW s \in Slaves, Slave(s),
           ~DeployAccepted(s), ~DeployRetried(s), ~DeployFailed(s)
    PROVE  Calm(s)
<1> USE DEF node, Goto, Early, Calm
<1>f. Fault => faults' = faults + 1
  BY DEF Fault
<1>n. NextContract(s) => pc'[s] # "waitDeploy"
  BY NextOne
<1>c. cur[s] \in Contracts
  BY DEF TypeOK
<1>1. Check(s) => Calm(s)
  BY <1>f, AddsNone DEF Check, Unanswered, TypeOK
<1>2. Fund(s) \/ DeployMined(s) => Calm(s)
  BY AddsNone DEF Fund, DeployMined, TypeOK
<1>3. DeploySkipped(s) => Calm(s)
  BY <1>f, AddsNone DEF DeploySkipped, TypeOK
<1>4. SetupWork(s) => Calm(s)
  BY <1>f, <1>n, AddsNone DEF SetupWork, TypeOK
<1>5. RegisterAbandoned(s) \/ TargetReached(s) => Calm(s)
  BY <1>f, <1>n, AddsNone DEF RegisterAbandoned, TargetReached, TypeOK
<1>6. Supply(s) => Calm(s)
  BY <1>f, AddsNone DEF Supply, TypeOK
<1>7. ASSUME SupplyTokens(s) PROVE Calm(s)
  <2>1. Token \in Contracts
    <3>1. cur[s] \in Gasless
      BY <1>7 DEF SupplyTokens, Placed, Liquidity
    <3> QED
      BY <3>1, Keepers
  <2>2. Adds(pool) /\ (faults' = faults \/ faults' = faults + 1)
    BY <1>7, <2>1, AddsTransfer DEF SupplyTokens
  <2> QED
    BY <1>7, <2>2 DEF SupplyTokens, TypeOK
<1>8. ASSUME FixedSent(s) PROVE Calm(s)
  <2>1. FixedSender(s) \in Senders
    BY <1>c, SenderTypes DEF FixedSender
  <2>2. FixedTx(s).kind \notin {"deploy", "reverted"}
    BY DEF FixedTx
  <2>3. Adds(pool)
    BY <1>8, <2>1, <2>2, AddsOne DEF FixedSent
  <2> QED
    BY <1>8, <1>f, <2>3 DEF FixedSent, TypeOK
<1>9. FixedSkipped(s) \/ FixedMined(s) => Calm(s)
  BY AddsNone DEF FixedSkipped, FixedMined, AfterFixed, TypeOK
<1>10. FixedFailed(s) => Calm(s)
  BY <1>f, AddsNone DEF FixedFailed, TypeOK
<1>11. Register(s) => Calm(s)
  BY AddsNone DEF Register, TypeOK
<1>12. RegisterLate(s) \/ TargetMissed(s) => Calm(s)
  BY <1>f, AddsNone DEF RegisterLate, TargetMissed, TypeOK
<1>13. Poll(s) => Calm(s)
  BY <1>f, AddsNone DEF Poll, Unanswered, TypeOK
<1>14. ASSUME Charge(s) PROVE Calm(s)
  <2>1. Adds(pool) /\ (faults' = faults \/ faults' = faults + 1)
    <3> DEFINE mint == [nonce |-> NonceOf(s, cur[s]), kind |-> "mint", by |-> s]
    <3>1. mint.kind \notin {"deploy", "reverted"}
      OBVIOUS
    <3>2. Transfer(s, cur[s], mint) \/ UNCHANGED <<pool, faults>>
      BY <1>14 DEF Charge
    <3> HIDE DEF mint
    <3> QED
      BY <1>c, <3>1, <3>2, AddsNone, AddsTransfer
  <2> QED
    BY <1>14, <1>n, <2>1 DEF Charge
<1> QED
  BY <1>1, <1>2, <1>3, <1>4, <1>5, <1>6, <1>7, <1>8, <1>9, <1>10, <1>11, <1>12, <1>13, <1>14
     DEF Slave

\* Adding to the pools what deploys nothing keeps what is said of them.
LEMMA AddsKeep ==
    ASSUME BoundInv, Adds(pool)
    PROVE  /\ Unspoilt'
           /\ \A c \in Contracts : InPool(c)' \subseteq InPool(c) /\ IsFiniteSet(pool'[c])
<1>1. \A a \in Senders : \A x \in pool'[a] :
         x.kind # "reverted" /\ (x.kind = "deploy" => x \in pool[a])
  BY DEF BoundInv, Adds, Unspoilt
<1>2. ASSUME NEW c \in Contracts PROVE InPool(c)' \subseteq InPool(c) /\ IsFiniteSet(pool'[c])
  <2>1. c \in Senders
    BY SenderTypes
  <2>2. PICK x : pool'[c] \subseteq pool[c] \cup {x}
    BY <2>1 DEF Adds
  <2>3. IsFiniteSet(pool'[c])
    BY <2>2, OneMore DEF BoundInv, Within
  <2> QED
    BY <1>1, <2>1, <2>3 DEF InPool
<1> QED
  BY <1>1, <1>2 DEF Unspoilt

\* The waiting slaves keep what they wait for when the pools grow and no slave
\* begins to wait.
LEMMA WaitersKeep ==
    ASSUME BoundInv, NEW s \in Slaves, Slave(s) \/ Restart(s),
           pc'[s] # "waitDeploy", \A a \in Senders : pool[a] \subseteq pool'[a]
    PROVE  Sent' /\ Alone'
<1>1. /\ chain' = chain
      /\ \A r \in Slaves \ {s} : /\ pc'[r] = pc[r] /\ phase'[r] = phase[r]
                                 /\ cur'[r] = cur[r] /\ sentAt'[r] = sentAt[r]
  BY OwnStep DEF BoundInv
<1>2. Sent'
  <2> SUFFICES ASSUME NEW r \in Slaves, pc'[r] = "waitDeploy"
               PROVE  TooLow(cur[r], sentAt[r])' \/ Slot(cur[r], sentAt[r])' # {}
    BY DEF Sent
  <2>1. r # s /\ pc[r] = "waitDeploy" /\ cur'[r] = cur[r] /\ sentAt'[r] = sentAt[r]
    BY <1>1
  <2>2. TooLow(cur[r], sentAt[r]) \/ Slot(cur[r], sentAt[r]) # {}
    BY <2>1 DEF BoundInv, Sent
  <2>3. cur[r] \in Senders
    BY SenderTypes DEF BoundInv, TypeOK
  <2> QED
    BY <1>1, <2>1, <2>2, <2>3 DEF TooLow, Executed, Slot
<1>3. Alone'
  BY <1>1 DEF Alone, BoundInv
<1> QED
  BY <1>2, <1>3

\* Within is kept when each contract's change is paid for.
LEMMA WithinStep ==
    ASSUME BoundInv, TypeOK',
           \A c \in Contracts :
              /\ IsFiniteSet(pool'[c])
              /\ Paid(InBlocks(c), InPool(c), May(c), faults + restarts,
                      InBlocks(c)', InPool(c)', May(c)', faults' + restarts')
    PROVE  Within'
<1>1. ASSUME NEW c \in Contracts
      PROVE  Cardinality(InBlocks(c)') + Cardinality(InPool(c)') + Cardinality(May(c)')
                <= Cardinality(Leaders) + faults' + restarts'
  BY CountStep DEF BoundInv
<1> QED
  BY <1>1 DEF Within

LEMMA Sums ==
    \A f, r \in Nat : /\ f + r <= f + r /\ f + r <= (f + 1) + r
                      /\ f + r + 1 <= (f + 1) + r /\ f + r + 1 <= f + (r + 1)
  OBVIOUS

LEMMA CalmKeeps ==
    ASSUME BoundInv, TypeOK', NEW s \in Slaves, Slave(s), Calm(s)
    PROVE  Sent' /\ Alone' /\ Unspoilt' /\ Within'
<1>1. Sent' /\ Alone'
  BY WaitersKeep DEF Calm, Adds
<1>2. Unspoilt' /\ \A c \in Contracts : InPool(c)' \subseteq InPool(c) /\ IsFiniteSet(pool'[c])
  BY AddsKeep DEF Calm
<1>3. ASSUME NEW c \in Contracts, MayDeploy(s, c)' PROVE MayDeploy(s, c)
  <2>0. TypeOK /\ cur[s] \in Contracts /\ cur[s] \in Nat /\ c \in Nat
    BY SenderTypes DEF BoundInv, TypeOK
  <2>1. pc'[s] # "waitDeploy"
    BY DEF Calm
  <2>2. phase'[s] = 1 /\ (cur'[s] < c \/ (cur'[s] = c /\ pc'[s] \in Early))
    BY <1>3, <2>1 DEF MayDeploy
  <2>3. CASE phase'[s] = phase[s] /\ cur'[s] = cur[s] /\ (pc'[s] \in Early => pc[s] \in Early)
    BY <2>2, <2>3 DEF MayDeploy
  <2>4. CASE NextContract(s)
    <3>1. phase[s] = 1 /\ cur'[s] = cur[s] + 1
      BY <2>0, <2>2, <2>4, NextOne
    <3> QED
      BY <2>0, <2>2, <3>1 DEF MayDeploy
  <2> QED
    BY <2>3, <2>4 DEF Calm
<1>4. faults + restarts <= faults' + restarts'
  BY Sums DEF BoundInv, TypeOK, Calm
<1>5. ASSUME NEW c \in Contracts
      PROVE  Paid(InBlocks(c), InPool(c), May(c), faults + restarts,
                  InBlocks(c)', InPool(c)', May(c)', faults' + restarts')
  <2>1. May(c)' \subseteq May(c) /\ InBlocks(c)' \subseteq InBlocks(c)
    BY <1>3, OthersMay DEF BoundInv
  <2> QED
    BY <1>2, <1>4, <2>1 DEF Paid
<1> QED
  BY <1>1, <1>2, <1>5, WithinStep

\* The deployment takes a place in the pool and, for its leader, the place of
\* what it may deploy.
LEMMA AcceptedKeeps ==
    ASSUME BoundInv, TypeOK', NEW s \in Slaves, DeployAccepted(s)
    PROVE  Sent' /\ Alone' /\ Unspoilt' /\ Within'
<1>0. Slave(s) /\ TypeOK /\ Placed
  BY DEF Slave, BoundInv
<1>1. PICK c \in Contracts : c = cur[s]
  BY <1>0 DEF TypeOK
<1>2. PICK n \in Nat : n = NonceOf(s, c)
  BY <1>0, <1>1, NodeTypes
<1>3. /\ pc[s] = "deploy" /\ pc'[s] = "waitDeploy" /\ sentAt'[s] = n
      /\ Fresh(c, n) /\ Accept(c, Deployment(n))
      /\ UNCHANGED <<phase, cur, chain, faults, restarts>>
      /\ cur'[s] = c
  BY <1>0, <1>1, <1>2 DEF DeployAccepted, TypeOK, Goto
<1>4. /\ \A r \in Slaves \ {s} : /\ pc'[r] = pc[r] /\ phase'[r] = phase[r]
                                 /\ cur'[r] = cur[r] /\ sentAt'[r] = sentAt[r]
  BY <1>0, OwnStep
<1>5. s \in Leaders /\ phase[s] = 1
  BY <1>0, <1>3 DEF Placed, TypeOK
<1>6. c \in Senders /\ Executed(c) \in Nat
  BY <1>0, SenderTypes, NodeTypes
<1>7. /\ pool'[c] = pool[c] \cup {Deployment(n)}
      /\ \A a \in Senders \ {c} : pool'[a] = pool[a]
  BY <1>0, <1>3, <1>6 DEF Accept, TypeOK
<1>8. Deployment(n).kind = "deploy" /\ Deployment(n).nonce = n
  BY DEF Deployment
<1>9. n >= Executed(c) /\ Slot(c, n) = {}
  BY <1>3 DEF Fresh
<1>10. Sent'
  <2> SUFFICES ASSUME NEW r \in Slaves, pc'[r] = "waitDeploy"
               PROVE  TooLow(cur[r], sentAt[r])' \/ Slot(cur[r], sentAt[r])' # {}
    BY DEF Sent
  <2>1. CASE r = s
    <3>1. Deployment(n) \in Slot(cur[r], sentAt[r])'
      BY <1>3, <1>7, <1>8, <2>1 DEF Slot
    <3> QED
      BY <3>1
  <2>2. CASE r # s
    <3>1. TooLow(cur[r], sentAt[r]) \/ Slot(cur[r], sentAt[r]) # {}
      BY <1>4, <2>2 DEF BoundInv, Sent
    <3>2. cur[r] \in Senders
      BY <1>0, SenderTypes DEF TypeOK
    <3> QED
      BY <1>3, <1>4, <1>7, <2>2, <3>1, <3>2 DEF TooLow, Executed, Slot
  <2> QED
    BY <2>1, <2>2
<1>11. ASSUME NEW r \in Slaves \ {s}, pc[r] = "waitDeploy", cur[r] = c, sentAt[r] = n PROVE FALSE
  <2>1. TooLow(c, n)
    BY <1>9, <1>11 DEF BoundInv, Sent
  <2> QED
    BY <1>6, <1>9, <2>1 DEF TooLow
<1>12. Alone'
  <2> SUFFICES ASSUME NEW r \in Slaves, NEW u \in Slaves, pc'[r] = "waitDeploy", pc'[u] = "waitDeploy",
                      cur'[r] = cur'[u], sentAt'[r] = sentAt'[u]
               PROVE  r = u
    BY DEF Alone
  <2>1. CASE r = s /\ u # s
    BY <1>3, <1>4, <1>11, <2>1
  <2>2. CASE r # s /\ u = s
    BY <1>3, <1>4, <1>11, <2>2
  <2>3. CASE r # s /\ u # s
    BY <1>4, <2>3 DEF BoundInv, Alone
  <2> QED
    BY <2>1, <2>2, <2>3
<1>13. Unspoilt'
  BY <1>7, <1>8 DEF BoundInv, Unspoilt
<1>14. ASSUME NEW d \in Contracts
       PROVE  /\ IsFiniteSet(pool'[d])
              /\ Paid(InBlocks(d), InPool(d), May(d), faults + restarts,
                      InBlocks(d)', InPool(d)', May(d)', faults' + restarts')
  <2>0. d \in Senders /\ d \in Nat /\ c \in Nat /\ IsFiniteSet(pool[d])
    BY SenderTypes DEF BoundInv, Within
  <2>1. faults + restarts <= faults' + restarts'
    BY <1>0, <1>3, Sums DEF TypeOK
  <2>2. CASE d = c
    <3>1. IsFiniteSet(pool'[d])
      BY <1>7, <2>0, <2>2, OneMore
    <3>2. InPool(d)' \subseteq InPool(d) \cup {Deployment(n)}
      BY <1>7, <2>2 DEF InPool
    <3>3. MayDeploy(s, d) /\ s \in May(d)
      BY <1>1, <1>3, <1>5, <2>2 DEF MayDeploy, May, Early
    <3>4. ~MayDeploy(s, d)'
      BY <1>3, <1>6, <1>9, <2>0, <2>2 DEF MayDeploy, Refuted, TooLow, Executed, Early
    <3>5. May(d)' \subseteq May(d) \ {s} /\ InBlocks(d)' \subseteq InBlocks(d)
      BY <1>0, <3>4, OthersMay
    <3> QED
      BY <2>1, <3>1, <3>2, <3>3, <3>5 DEF Paid
  <2>3. CASE d # c
    <3>1. pool'[d] = pool[d] /\ InPool(d)' \subseteq InPool(d)
      BY <1>7, <2>0, <2>3 DEF InPool
    <3>2. MayDeploy(s, d)' => MayDeploy(s, d)
      BY <1>1, <1>3, <2>3 DEF MayDeploy
    <3>3. May(d)' \subseteq May(d) /\ InBlocks(d)' \subseteq InBlocks(d)
      BY <1>0, <3>2, OthersMay
    <3> QED
      BY <2>0, <2>1, <3>1, <3>3 DEF Paid
  <2> QED
    BY <2>2, <2>3
<1> QED
  BY <1>10, <1>12, <1>13, <1>14, WithinStep

\* A lost answer pays for the deployment that the node may have taken.
LEMMA RetriedKeeps ==
    ASSUME BoundInv, TypeOK', NEW s \in Slaves, DeployRetried(s)
    PROVE  Sent' /\ Alone' /\ Unspoilt' /\ Within'
<1>0. Slave(s) /\ TypeOK /\ Placed
  BY DEF Slave, BoundInv
<1>1. PICK c \in Contracts : c = cur[s]
  BY <1>0 DEF TypeOK
<1>2. PICK n : n = NonceOf(s, c)
  OBVIOUS
<1>3. /\ pc[s] = "deploy"
      /\ UNCHANGED <<pc, phase, cur, sentAt, chain, restarts>>
      /\ \/ UNCHANGED <<pool, faults>>
         \/ Accept(c, Deployment(n)) /\ faults' = faults + 1
  BY <1>1, <1>2 DEF DeployRetried, place, Fault
<1>4. c \in Senders
  BY SenderTypes
<1>5. /\ pool[c] \subseteq pool'[c] /\ pool'[c] \subseteq pool[c] \cup {Deployment(n)}
      /\ \A a \in Senders \ {c} : pool'[a] = pool[a]
      /\ pool' = pool \/ faults' = faults + 1
  BY <1>0, <1>3, <1>4 DEF Accept, TypeOK
<1>6. Sent' /\ Alone'
  <2>1. \A a \in Senders : pool[a] \subseteq pool'[a]
    BY <1>4, <1>5
  <2> QED
    BY <1>0, <1>3, <2>1, WaitersKeep
<1>7. Deployment(n).kind # "reverted"
  BY DEF Deployment
<1>8. Unspoilt'
  BY <1>4, <1>5, <1>7 DEF BoundInv, Unspoilt
<1>9. ASSUME NEW d \in Contracts
      PROVE  /\ IsFiniteSet(pool'[d])
             /\ Paid(InBlocks(d), InPool(d), May(d), faults + restarts,
                     InBlocks(d)', InPool(d)', May(d)', faults' + restarts')
  <2>0. d \in Senders /\ IsFiniteSet(pool[d])
    BY SenderTypes DEF BoundInv, Within
  <2>1. MayDeploy(s, d)' => MayDeploy(s, d)
    BY <1>3 DEF MayDeploy, Early
  <2>2. May(d)' \subseteq May(d) /\ InBlocks(d)' \subseteq InBlocks(d)
    BY <1>0, <2>1, OthersMay
  <2>3. CASE pool'[d] = pool[d]
    <3>1. InPool(d)' \subseteq InPool(d)
      BY <2>3 DEF InPool
    <3>2. faults + restarts <= faults' + restarts'
      BY <1>0, <1>3, Sums DEF TypeOK
    <3> QED
      BY <2>0, <2>2, <2>3, <3>1, <3>2 DEF Paid
  <2>4. CASE pool'[d] # pool[d]
    <3>1. d = c /\ faults' = faults + 1
      BY <1>5, <2>0, <2>4
    <3>2. IsFiniteSet(pool'[d])
      BY <1>5, <2>0, <3>1, OneMore
    <3>3. InPool(d)' \subseteq InPool(d) \cup {Deployment(n)}
      BY <1>5, <3>1 DEF InPool
    <3>4. faults + restarts + 1 <= faults' + restarts'
      BY <1>0, <1>3, <3>1, Sums DEF TypeOK
    <3> QED
      BY <2>2, <3>2, <3>3, <3>4 DEF Paid
  <2> QED
    BY <2>3, <2>4
<1> QED
  BY <1>6, <1>8, <1>9, WithinStep

\* A time-out pays for the deployment that is made again; after a revert the
\* leader could make it already.
LEMMA FailedKeeps ==
    ASSUME BoundInv, TypeOK', NEW s \in Slaves, DeployFailed(s)
    PROVE  Sent' /\ Alone' /\ Unspoilt' /\ Within'
<1>0. Slave(s) /\ TypeOK /\ Placed
  BY DEF Slave, BoundInv
<1>1. /\ pc[s] = "waitDeploy" /\ pc'[s] = "deploy"
      /\ UNCHANGED <<phase, cur, sentAt, chain, pool, restarts>>
      /\ faults' = faults + 1 \/ (faults' = faults /\ Refuted(s))
  BY <1>0 DEF DeployFailed, TypeOK, Goto, node, Fault, Refuted
<1>2. Sent' /\ Alone' /\ Unspoilt'
  BY <1>0, <1>1, AddsNone, AddsKeep, WaitersKeep
<1>3. ASSUME NEW d \in Contracts
      PROVE  /\ IsFiniteSet(pool'[d])
             /\ Paid(InBlocks(d), InPool(d), May(d), faults + restarts,
                     InBlocks(d)', InPool(d)', May(d)', faults' + restarts')
  <2>1. InPool(d)' \subseteq InPool(d) /\ IsFiniteSet(pool'[d])
    BY <1>1 DEF InPool, BoundInv, Within
  <2>2. May(d)' \subseteq May(d) \cup {s} /\ InBlocks(d)' \subseteq InBlocks(d)
    BY <1>0, OthersMay
  <2>3. CASE faults' = faults + 1
    <3>1. faults + restarts + 1 <= faults' + restarts'
      BY <1>0, <1>1, <2>3, Sums DEF TypeOK
    <3> QED
      BY <2>1, <2>2, <3>1 DEF Paid
  <2>4. CASE faults' = faults /\ Refuted(s)
    <3>1. MayDeploy(s, d)' => MayDeploy(s, d)
      BY <1>1, <2>4 DEF MayDeploy
    <3>2. May(d)' \subseteq May(d)
      BY <1>0, <3>1, OthersMay
    <3>3. faults + restarts <= faults' + restarts'
      BY <1>0, <1>1, <2>4, Sums DEF TypeOK
    <3> QED
      BY <2>1, <2>2, <3>2, <3>3 DEF Paid
  <2> QED
    BY <1>1, <2>3, <2>4
<1> QED
  BY <1>2, <1>3, WithinStep

\* A leader that is started again may deploy every contract once more.
LEMMA RestartKeeps ==
    ASSUME BoundInv, TypeOK', NEW s \in Slaves, Restart(s)
    PROVE  Sent' /\ Alone' /\ Unspoilt' /\ Within'
<1>0. TypeOK
  BY DEF BoundInv
<1>1. /\ pc'[s] # "waitDeploy"
      /\ UNCHANGED <<chain, pool, faults>> /\ restarts' = restarts + 1
  BY <1>0 DEF Restart, Start, Goto, node, TypeOK
<1>2. Sent' /\ Alone' /\ Unspoilt'
  BY <1>0, <1>1, AddsNone, AddsKeep, WaitersKeep
<1>3. ASSUME NEW d \in Contracts
      PROVE  /\ IsFiniteSet(pool'[d])
             /\ Paid(InBlocks(d), InPool(d), May(d), faults + restarts,
                     InBlocks(d)', InPool(d)', May(d)', faults' + restarts')
  <2>1. InPool(d)' \subseteq InPool(d) /\ IsFiniteSet(pool'[d])
    BY <1>1 DEF InPool, BoundInv, Within
  <2>2. May(d)' \subseteq May(d) \cup {s} /\ InBlocks(d)' \subseteq InBlocks(d)
    BY <1>0, OthersMay
  <2>3. faults + restarts + 1 <= faults' + restarts'
    BY <1>0, <1>1, Sums DEF TypeOK
  <2> QED
    BY <2>1, <2>2, <2>3 DEF Paid
<1> QED
  BY <1>2, <1>3, WithinStep

\* A block moves a deployment from the pool to the chain, or reverts it for the
\* one leader that waits for it.
LEMMA MineKeeps ==
    ASSUME BoundInv, TypeOK', NEW a \in Senders, Mine(a)
    PROVE  Sent' /\ Alone' /\ Unspoilt' /\ Within'
<1>0. TypeOK
  BY DEF BoundInv
<1>1. PICK x, kind :
         /\ x \in Slot(a, Executed(a))
         /\ pool' = [pool EXCEPT ![a] = @ \ {x}]
         /\ chain' = [chain EXCEPT ![a] = Append(@, kind)]
         /\ \/ kind \in {"short", x.kind} /\ faults' = faults
            \/ kind = "reverted" /\ faults' = faults + 1
         /\ UNCHANGED <<pc, phase, cur, sentAt, restarts>>
  BY DEF Mine, Fault, place
<1>2. PICK e \in Nat : e = Executed(a)
  BY <1>0, NodeTypes
<1>3. /\ pool'[a] = pool[a] \ {x}
      /\ \A b \in Senders \ {a} : pool'[b] = pool[b] /\ chain'[b] = chain[b]
      /\ x \in pool[a] /\ x.nonce = e
  BY <1>0, <1>1, <1>2 DEF TypeOK, Slot
<1>4. /\ Len(chain[a]) = e /\ Len(chain'[a]) = e + 1
      /\ \A i \in 1..e : chain'[a][i] = chain[a][i]
      /\ chain'[a][e + 1] = kind
  <2>1. chain[a] \in Seq(Kinds) /\ chain'[a] = Append(chain[a], kind)
    BY <1>0, <1>1 DEF TypeOK
  <2> QED
    BY <1>2, <2>1 DEF Executed
<1>5. Alone'
  BY <1>1 DEF BoundInv, Alone
<1>6. Unspoilt'
  BY <1>3 DEF BoundInv, Unspoilt
<1>7. Sent'
  <2> SUFFICES ASSUME NEW r \in Slaves, pc[r] = "waitDeploy"
               PROVE  TooLow(cur[r], sentAt[r])' \/ Slot(cur[r], sentAt[r])' # {}
    BY <1>1 DEF Sent
  <2>1. TooLow(cur[r], sentAt[r]) \/ Slot(cur[r], sentAt[r]) # {}
    BY DEF BoundInv, Sent
  <2>2. cur[r] \in Senders /\ sentAt[r] \in Nat /\ cur'[r] = cur[r] /\ sentAt'[r] = sentAt[r]
    BY <1>0, <1>1, SenderTypes DEF TypeOK
  <2>3. CASE cur[r] # a
    BY <1>3, <2>1, <2>2, <2>3 DEF TooLow, Executed, Slot
  <2>4. CASE cur[r] = a /\ TooLow(cur[r], sentAt[r])
    BY <1>4, <2>2, <2>4 DEF TooLow, Executed
  <2>5. CASE cur[r] = a /\ sentAt[r] = e
    BY <1>4, <2>2, <2>5 DEF TooLow, Executed
  <2>6. CASE cur[r] = a /\ sentAt[r] # e /\ Slot(cur[r], sentAt[r]) # {}
    BY <1>3, <2>2, <2>6 DEF Slot
  <2> QED
    BY <2>1, <2>3, <2>4, <2>5, <2>6
<1>8. ASSUME NEW r \in Slaves, NEW c \in Contracts, MayDeploy(r, c)'
      PROVE  \/ MayDeploy(r, c)
             \/ kind = "reverted" /\ c = a /\ cur[r] = c /\ pc[r] = "waitDeploy" /\ sentAt[r] = e
  <2>1. cur[r] \in Senders /\ sentAt[r] \in Nat /\ cur'[r] = cur[r] /\ sentAt'[r] = sentAt[r]
        /\ pc'[r] = pc[r] /\ phase'[r] = phase[r]
    BY <1>0, <1>1, SenderTypes DEF TypeOK
  <2>2. CASE Refuted(r)' /\ cur[r] = c /\ pc[r] = "waitDeploy" /\ phase[r] = 1
    <3>1. CASE c # a
      <4>1. Refuted(r)
        BY <1>3, <2>1, <2>2, <3>1 DEF Refuted, TooLow, Executed
      <4> QED
        BY <2>2, <4>1 DEF MayDeploy
    <3>2. CASE c = a /\ sentAt[r] = e
      <4>1. kind = "reverted"
        BY <1>4, <2>1, <2>2, <3>2 DEF Refuted
      <4> QED
        BY <2>2, <3>2, <4>1
    <3>3. CASE c = a /\ sentAt[r] # e
      <4>1. sentAt[r] < e + 1 /\ chain'[a][sentAt[r] + 1] = "reverted"
        BY <1>4, <2>1, <2>2, <3>3 DEF Refuted, TooLow, Executed
      <4>2. sentAt[r] < e /\ sentAt[r] + 1 \in 1..e
        BY <2>1, <3>3, <4>1
      <4>3. Refuted(r)
        BY <1>4, <2>1, <2>2, <3>3, <4>1, <4>2 DEF Refuted, TooLow, Executed
      <4> QED
        BY <2>2, <4>3 DEF MayDeploy
    <3> QED
      BY <3>1, <3>2, <3>3
  <2> QED
    BY <1>8, <2>1, <2>2 DEF MayDeploy
<1>9. faults + restarts <= faults' + restarts'
  BY <1>0, <1>1, Sums DEF TypeOK
<1>10. ASSUME NEW c \in Contracts
       PROVE  /\ IsFiniteSet(pool'[c])
              /\ Paid(InBlocks(c), InPool(c), May(c), faults + restarts,
                      InBlocks(c)', InPool(c)', May(c)', faults' + restarts')
  <2>0. c \in Senders /\ IsFiniteSet(pool[c])
    BY SenderTypes DEF BoundInv, Within
  <2>1. CASE c # a
    <3>1. pool'[c] = pool[c] /\ chain'[c] = chain[c]
      BY <1>3, <2>0, <2>1
    <3>2. InPool(c)' \subseteq InPool(c) /\ InBlocks(c)' \subseteq InBlocks(c)
      BY <3>1 DEF InPool, InBlocks
    <3>3. May(c)' \subseteq May(c)
      BY <1>8, <2>1 DEF May
    <3> QED
      BY <1>9, <2>0, <3>1, <3>2, <3>3 DEF Paid
  <2>2. CASE c = a
    <3>1. pool'[c] \subseteq pool[c] /\ IsFiniteSet(pool'[c]) /\ InPool(c)' \subseteq InPool(c)
      <4>1. pool'[c] \subseteq pool[c]
        BY <1>3, <2>2
      <4>2. IsFiniteSet(pool'[c])
        BY <2>0, <4>1, FS_Subset
      <4> QED
        BY <4>1, <4>2 DEF InPool
    <3>2. InBlocks(c)' \subseteq InBlocks(c) \cup {e + 1}
      BY <1>2, <1>4, <2>2 DEF InBlocks
    <3>3. kind # "deploy" => InBlocks(c)' \subseteq InBlocks(c)
      BY <1>2, <1>4, <2>2 DEF InBlocks
    <3>4. CASE kind = "deploy"
      <4>1. x \in InPool(c)
        BY <1>1, <1>3, <2>2, <3>4 DEF InPool
      <4>2. InPool(c)' \subseteq InPool(c) \ {x}
        BY <1>3, <2>2 DEF InPool
      <4>3. May(c)' \subseteq May(c)
        BY <1>8, <3>4 DEF May
      <4> QED
        BY <1>9, <3>1, <3>2, <4>1, <4>2, <4>3 DEF Paid
    <3>5. CASE kind \notin {"deploy", "reverted"}
      <4>1. May(c)' \subseteq May(c)
        BY <1>8, <3>5 DEF May
      <4> QED
        BY <1>9, <3>1, <3>3, <3>5, <4>1 DEF Paid
    <3>6. CASE kind = "reverted"
      <4>1. faults' = faults + 1
        BY <1>1, <1>3, <3>6 DEF BoundInv, Unspoilt
      <4>2. faults + restarts + 1 <= faults' + restarts'
        BY <1>0, <1>1, <4>1, Sums DEF TypeOK
      <4>3. PICK s : \A r \in Slaves :
                 cur[r] = c /\ pc[r] = "waitDeploy" /\ sentAt[r] = e => r = s
        BY DEF BoundInv, Alone
      <4>4. May(c)' \subseteq May(c) \cup {s}
        BY <1>8, <4>3 DEF May
      <4> QED
        BY <3>1, <3>3, <3>6, <4>2, <4>4 DEF Paid
    <3> QED
      BY <3>4, <3>5, <3>6
  <2> QED
    BY <2>1, <2>2
<1> QED
  BY <1>5, <1>6, <1>7, <1>10, WithinStep

LEMMA BoundInit == Init => BoundInv
<1> SUFFICES ASSUME Init PROVE BoundInv
  OBVIOUS
<1>1. TypeOK /\ Placed
  BY InitType
<1>2. \A s \in Slaves : pc[s] # "waitDeploy"
  BY DEF Init, Start
<1>3. \A a \in Senders : pool[a] = {} /\ chain[a] = <<>>
  BY DEF Init
<1>4. ASSUME NEW c \in Contracts
      PROVE  /\ IsFiniteSet(pool[c])
             /\ Cardinality(InBlocks(c)) + Cardinality(InPool(c)) + Cardinality(May(c))
                   <= Cardinality(Leaders) + faults + restarts
  <2>1. InBlocks(c) = {} /\ InPool(c) = {} /\ pool[c] = {}
    BY <1>3, SenderTypes DEF InBlocks, InPool
  <2>2. Cardinality({}) = 0 /\ IsFiniteSet({})
    BY FS_EmptySet
  <2>3. May(c) \subseteq Leaders /\ IsFiniteSet(Leaders)
    BY FS_Subset DEF May
  <2>4. /\ Cardinality(May(c)) \in Nat /\ Cardinality(Leaders) \in Nat
        /\ Cardinality(May(c)) <= Cardinality(Leaders)
    BY <2>3, Subset
  <2>5. faults = 0 /\ restarts = 0
    BY DEF Init
  <2> QED
    BY <2>1, <2>2, <2>4, <2>5
<1> QED
  BY <1>1, <1>2, <1>3, <1>4 DEF BoundInv, Sent, Alone, Unspoilt, Within

LEMMA BoundStep == BoundInv /\ [Next]_vars => BoundInv'
<1> SUFFICES ASSUME BoundInv, [Next]_vars PROVE BoundInv'
  OBVIOUS
<1>1. TypeOK' /\ Placed'
  BY TypeStep, PlacedStep DEF BoundInv
<1> DEFINE Kept == Sent' /\ Alone' /\ Unspoilt' /\ Within'
<1>2. ASSUME NEW s \in Slaves, Slave(s) PROVE Kept
  <2>1. CASE DeployAccepted(s)
    BY <1>1, <2>1, AcceptedKeeps
  <2>2. CASE DeployRetried(s)
    BY <1>1, <2>2, RetriedKeeps
  <2>3. CASE DeployFailed(s)
    BY <1>1, <2>3, FailedKeeps
  <2>4. CASE ~DeployAccepted(s) /\ ~DeployRetried(s) /\ ~DeployFailed(s)
    BY <1>1, <1>2, <2>4, CalmStep, CalmKeeps DEF BoundInv
  <2> QED
    BY <2>1, <2>2, <2>3, <2>4
<1>3. ASSUME NEW s \in Slaves, Restart(s) PROVE Kept
  BY <1>1, <1>3, RestartKeeps
<1>4. ASSUME NEW a \in Senders, Mine(a) PROVE Kept
  BY <1>1, <1>4, MineKeeps
<1>5. ASSUME \/ \E c \in Contracts : Activate(c)
             \/ UNCHANGED vars
      PROVE  Kept
  <2>1. UNCHANGED <<pc, phase, cur, sentAt, chain, pool, faults, restarts>>
    BY <1>5 DEF Activate, vars, place, node
  <2> QED
    BY <2>1 DEF BoundInv, Sent, Alone, Unspoilt, Within, TooLow, Executed, Slot, InBlocks,
                InPool, May, MayDeploy, Refuted
<1>6. Kept
  BY <1>2, <1>3, <1>4, <1>5 DEF Next, Terminated
<1> QED
  BY <1>1, <1>6 DEF BoundInv

LEMMA BoundInvBounds == BoundInv => DeploymentsBounded
<1> SUFFICES ASSUME BoundInv, NEW c \in Contracts
             PROVE  Cardinality(InBlocks(c)) + Cardinality(InPool(c))
                       <= Cardinality(Leaders) + faults + restarts
  BY DEF DeploymentsBounded
<1>1. IsFiniteSet(InPool(c)) /\ IsFiniteSet(InBlocks(c)) /\ IsFiniteSet(May(c)) /\ IsFiniteSet(Leaders)
  <2>1. Len(chain[c]) \in Nat
    BY SenderTypes DEF BoundInv, TypeOK
  <2>2. IsFiniteSet(1..Len(chain[c]))
    BY <2>1, FS_Interval
  <2> QED
    BY <2>2, FS_Subset DEF InPool, InBlocks, May, BoundInv, Within
<1>2. /\ Cardinality(InPool(c)) \in Nat /\ Cardinality(InBlocks(c)) \in Nat
      /\ Cardinality(May(c)) \in Nat /\ Cardinality(Leaders) \in Nat
      /\ faults \in Nat /\ restarts \in Nat
  BY <1>1, FS_CardinalityType DEF BoundInv, TypeOK
<1>3. Cardinality(InBlocks(c)) + Cardinality(InPool(c)) + Cardinality(May(c))
         <= Cardinality(Leaders) + faults + restarts
  BY DEF BoundInv, Within
<1>4. \A i, p, m, l, f, r \in Nat : i + p + m <= l + f + r => i + p <= l + f + r
  OBVIOUS
<1> QED
  BY <1>2, <1>3, <1>4

\* "Deploys only one smart contract among the slaves" (account.go:1441), for any
\* number of leaders and whatever fails: a contract is deployed no more often
\* than there are leaders, failures and restarts.
THEOREM DeploymentsBoundedAlways == Spec => []DeploymentsBounded
  BY BoundInit, BoundStep, BoundInvBounds, PTL DEF Spec
=============================================================================
