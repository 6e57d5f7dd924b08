# Verification of kaia-load-tester

TLA+ models of the load tester in `src/`, TLC runs on small instances of them, and proofs of their
main invariants that TLAPS checks for every value of the constants. Line references have the form
`file.go:line`; `account.go`, `accgroup.go`, `contract.go` and `erc721_ledger.go` are in
`src/klayslave/account/`, files named `run_*.go`, `tclist.go` and `tcconfig.go` in `src/testcase/`.
`PROJECT.json` maps every definition that models code to the lines it models.

## 1. The system

A run of the load tester is one Locust master and any number of *slaves* (`klayslave`). A slave creates
accounts, charges them from a local reservoir that it has charged from a global one, deploys the contracts
its test cases need or waits for the slave started with `--leader` to do so, and then runs test cases in
goroutines of the boomer library: each draws accounts at random, sends a transaction and reports the time it
took. There are no Go tests in the repository. All communication between slaves is through the chain: the
global reservoir, the token deployers, the setup manager and the contract deployers are keys that every
slave holds.

### Inventory

| Component | State | Operations | What is hard about it | What makes it correct |
|---|---|---|---|---|
| Retrying sender (`account.go:88-147, 410-496`) | cached nonce and mutex of an account; nonce, target and hash of an attempt | `RunWithRetry`, `TransferSignedTxWithGuaranteeRetry`, `GetNonce`, `sendRawTx` | goroutines share the account, the reset of the nonce takes no mutex, answers and transactions are lost, slaves share keys | no hole in the nonces; no payment twice without a failure; a call returns only after an execution, and it returns |
| Senders of the test cases (`account.go:150-198, 498-1156`) | the same | a sender for each transaction type | no retry, no reset: only refusals move a nonce that has fallen behind | no hole; the nonce keeps up with the node |
| Concurrent sending (`account.go:1546-1582`) | semaphore channel, `WaitGroup` | one goroutine per account | a limit, a join | limit kept; returns once, after all |
| ERC721 ledger (`erc721_ledger.go`, `contract.go:196-227`, `run_execute_contract.go:97-146`) | a queue of tokens and a mutex for each account | `PutToken`, `RemoveToken`, minting, the transfer task | load and store of a queue, tasks crossing each other's accounts, ledger moved at acceptance and not at execution | no token lost or doubled; ledger agrees with the chain, but for what a failure costs |
| Checked transfer (`run_receipt_check.go:61-84, 163-256`) | mutexes of two accounts, expected balances | `transferAndCheck`, `doubleLock`, `doubleUnlock` | two locks held across calls, balances read before and after | no deadlock; no complaint about a node that did right |
| Deployment (`accgroup.go:151-230`, `contract.go`) | deployer nonces, contract addresses, registry | `DeployTestContracts`, `SetupLiquidity`, `RegisterGSR`, `WaitForSetupCompletion`, `DoChargingWork` | several slaves, restarts, a setup that recognises its own steps by nonce | contract there before use; deployed once, or as often as failures and restarts explain; nobody waits for ever |
| Auction bids (`account.go:1159-1402`, `targetTxTypeLIst.go`) | cached nonce and mutex, block of the last bid, answers to two submissions | `AuctionBid`, `AuctionRevertedBid`, `PreSendBid`, `PostSendBid` | parallel submissions, a block number read long before it is recorded, transactions before and after the bid, nonce bookkeeping by transaction type | no hole; the nonce advances by what the node took; one bid per block for a transaction of the account |
| Receipt check pool (`run_receipt_check.go:22-160`) | ring of hashes, its lock, a counter, a flag without a lock | `addHash`, `getHash`, the ratio of sends and reads | readers race with writers, an empty ring, the counter wraps | a reader finds a hash, and one of the latest |
| Client pool (`clipool.go`) | free list, number of clients | `Alloc`, `Free` | a maximum nobody looks at; tasks that return early | no client is lost or given to two tasks; the pool does not grow without bound |
| Ethereum and read test cases (`run_ethereum.go`, `run_read_api_call.go`) | clients, a goroutine for each receipt, a mutex of the process | `Run*TC`, `getReceipt`, `checkResult`, `getRandomBlockNumber` | a goroutine outlives its task; three places publish | every task is counted once |
| Account groups and sets (`accgroup.go:86-138, 232-283`) | lists, round-robin index | `CreateAccountsPerAccGrp`, `SetAccGrpByActivePercent`, `GetAccountRoundRobin` | index under a mutex | every account drawn in turn |
| Start-up and charging (`main.go`) | reservoirs | `createTestAccGroupsAndPrepareContracts` | many goroutines retry on one reservoir | nobody starts before every account is paid; the reservoir suffices |
| Test case table, configuration, contract bindings, build | static | | | |

Interactions: start-up calls concurrent sending around the retrying sender (charging) and then the
deployment, which uses the retrying sender (funding, deploying, registering) and the senders without retry
(minting, funding the setup manager). The tasks share the accounts: a test case of any kind may hold or draw
an account that a checked transfer, a gasless pair, an auction bid or a token transfer is using.

## 2. Modules

| Module | What it is |
|---|---|
| `RetrySender` | the retrying sender: workers of one or more slaves, one key, the node's mined sequence and pool |
| `AtLeastOnce` | abstract specification: a transfer returns only after it was executed |
| `MCRetrySender` | instantiates `RetrySender`: who shares a process with whom |
| `ConcurrentSend` | the fan-out: one goroutine per account, a limit, a join |
| `Charging` | composition: `ConcurrentSend` whose goroutines run `RetrySender` on the reservoir |
| `TestSenders` | the senders of the test cases on one account |
| `Auction` | composition: `TestSenders` with auction bidders on the same account |
| `TransferCheck` | checked transfers among a set of accounts |
| `TokenLedger` | ledger, minting, transfer task and ERC721 ownership on chain |
| `ClientPool` | the pool of connections, as functions of its value |
| `LoadTasks` | the users of a slave at work: receipt checks, Ethereum transactions, read requests |
| `Deployment` | deployment, setup, polling and minting on several slaves, with restarts |
| `RetrySenderProofs`, `ConcurrentSendProofs`, `ChargingProofs`, `TransferCheckProofs`, `AuctionProofs` (with `TestSenders`), `LoadTasksProofs`, `TokenLedgerProofs`, `DeploymentProofs` | the theorems, see section 5 |

Each module is one component with its own model of the node, as coarse as its properties allow: for the
senders the transactions mined and pooled of one key, for the ledger and the checked transfer the accepted
transactions and what they do, for the deployment the transactions of each deployer and a registry. Executing
a block is an action; the fields, encoding, signing and gas of a transaction are abstracted to what makes two
transactions equal or different.

### RetrySender

One worker is one call of `TransferSignedTxWithGuaranteeRetry` (`account.go:463`). Between two of its
actions another goroutine, or another slave with the same key, can act: `Lock` and `FetchNonce`,
`StoreNonce`, `LoadNonce` (the two reads and the write of `GetNonce`, `account.go:410-424`), the answer of
the node (`SendAccepted`, `SendRejected`, `SendKnown`, `SendError`, `SendAnswerLost`, `account.go:135-147`), the load and the
store of `nonce++` (the load with the answer, the store in `IncStore`), `Receipt` and `Timeout` of `WaitMined`
(`account.go:109-115`), and `Reset`, `a.nonce = 0` without the mutex (`account.go:119`). The data race between
`Reset` and `nonce++` is the pair of orders of load, store and reset. Faults (`Budget`) are failed calls,
lost answers, reverts, transactions the pool drops, time-outs on a transaction that would be mined, and a
reset that is overwritten.

### TestSenders

All senders other than the retrying one have the same shape: mutex, `GetNonce`, one or two transactions, an
increment that depends on the answers. `Txs` gives the transactions of an operation (one; a transfer and a
cancellation with the same nonce; an approval and a swap with consecutive nonces; an approval), `Step` and
`RefusedStep` the increments. The account is of the signed list, where the operations mix, or of the list for
lone approvals, whose sender does not advance the nonce (`account.go:1114`): `tcconfig.go:54-64` gives that
list to no other test case. Revert-only accounts behave like signed ones that draw only pairs. `Bidders` is empty
where `TestSenders` stands alone; it is there so that `Auction` can have the same mutex held by a bidder.

### Auction

A bid holds the account's mutex from `BidLock` to its return. `BidLoad` is `GetNonce`, `PreSend` is `PreSendBid` (the
approval of a gasless swap, which the node gets at once), `SeeBlock` reads the block number and turns away
a second bid for the block, `Submit` is one goroutine's submission, `Conclude` collects the answers, `Post` is
`PostSendBid` and the bookkeeping (`Placed`). The seven target types are those of `TargetTxTypeList`; they differ
in who signs (`NewKey`: a key made for the bid, so that the account's nonce is not involved), in what is sent before
and after, and in the nonce they advance by. The approval of a gasless swap (`GAS`) is sent *before* the check that
turns the bid away (`account.go:1191-1209`), which is why `LagBounded` counts `away`; a `GAA` whose swap
fails advances the nonce by one or not at all, leaves the block unrecorded, and `AuctionBid` still returns success.
The account signs five of the targets itself (`Own`); `rGAA` and `rGAS` are signed by a key made for the bid, and
a bid for them never records its block, so that such bids may be repeated at a block as often as one likes. `made` is a
history variable: the blocks at which bids for `Own` targets went through. A bid made at block N names the blocks N+1 and
N+2 (`account.go:1211-1217`), so that bids at consecutive blocks overlap by design: the model tells
bids apart by N.

The node accepts a target as it accepts a transaction. With `Overtaken` a block may execute a target between the two
submissions of its bid, so that the second is refused as too low; that case is what the finding needs.

### Charging

`createTestAccGroupsAndPrepareContracts` charges every account by `TransferSignedTxWithGuaranteeRetry` out of the
local reservoir, inside `ConcurrentTransactionSend`. `Transfer(i)` is a step of the sender while goroutine `i` is
sending; `TransferReturns` joins the return of the one with the end of the other.

### ConcurrentSend

`Acquire`, `Add`, `Spawn` are the body of the loop, `SendEnds`, `Release`, `Finish` the goroutine. The slot is
given back (`<-ch`, `account.go:1571`) before `wg.Done`, so that a goroutine that has only its counting left is
no longer counted by the semaphore. Progress lines are not modelled.

### ClientPool and LoadTasks

`Alloc` and `Free` hold one mutex from end to end, so that each is one step of the caller. `LoadTasks` runs
the test cases whose state outlives a call. A task takes its clients (`AllocClient`; two for the consensus API),
does its work and gives them back by the deferred `Free` (`FreeClient`). The receipt check counts itself (`Begin`,
atomic), reads and writes `initFlag` without a lock (`Decide` may see the old value), and either adds a hash
under the lock in two writes (`LockRing`, `StoreHash`, `AdvanceTail`) or reads one under the read lock
(`ReadHash`). A read is one step: readers exclude only writers, and a second reader changes nothing. An Ethereum
transaction that is accepted leaves a goroutine behind (`checks`) which asks for the receipt with retries and
publishes; one that is refused publishes in the task. `TransferSignedTx` returns a hash of a failed
transaction too, and `addHash` takes it (`run_receipt_check.go:92-98`). A task is named by its number, and so is the hash it
adds. `InitSends > Cardinality(Users)` is an assumption: the code waits for ten thousand sends, and a slave runs
fewer users at a time than that, or the first reader may find the ring empty and divide by zero.

### TokenLedger

`Search` and `Take` are `RemoveToken`, the load of a queue and the store of its tail being two steps under the
mutex; `Return` and `AppendToken` are `PutToken`. `Send` is `transferFrom` with its three outcomes: accepted,
refused, accepted with the answer lost. `Mint` is `registerBulk` of an account followed by `PutToken` whatever
its outcome. `Reorder` says whether blocks may execute transactions of different senders in another order
than the node accepted them in.

### TransferCheck

`Lock1`, `Lock2`, `Unlock1`, `Unlock2` are `doubleLock` and `doubleUnlock`; addresses are numbers, the
comparison of address strings is that of numbers. (`doubleUnlock` releases in the order of locking although its
comment, `run_receipt_check.go:73`, says the reverse; this makes no difference to the properties.) `Timeout`
is the hundred seconds of line 184. The ten seconds of `CheckBalance` are
one look: the model takes the balance at the moment the task decides, so that an alarm stands for a balance
that is wrong in the end. Only checked transfers move the balances: a plain transfer test case drawing the same
accounts locks the sender while it sends and nothing while its transfer is in flight, so that a check beside it complains
about a node that is right.

### Deployment

A slave walks through the contracts in two phases (`NextContract`). In the first one the leader checks whether
a contract is deployed (`Check`), funds the deployer (`Fund`), deploys (`Deploy*`) and does the setup work: for the
swap router `Supply`, `SupplyTokens`, the transactions at fixed nonces (`Fixed*`) and the registration
(`Register`, `Target*`), for the auction entry point the registration alone. In the second one followers poll (`Poll`)
and every slave mints (`Charge`). Contracts come in groups: `Keeper` is the contract whose entry in the registry answers for the
whole group of gasless or auction contracts. `chain[a]` is the sequence of executed transactions of a deployer or of the setup manager, `pool[a]` those
accepted. `registry` is the system contract in which a router becomes active at its target block. Abstractions:
the transfers that fund deployers, and the registration, are calls of the retrying sender and taken to
succeed unless the target block passes; `addLiquidity` fails (`short`) when a block executes it before the transfer of the
tokens, which nobody waits for. A restart of a slave loses all its memory and
nothing of the chain.

## 3. Runs

| Run | Result | Instance and what it shows |
|---|---|---|
| `retry` | holds | three workers with one key, two in one process and one in another, one fault. The two race for the nonce they share, the third collides with them without any fault and shows whether a gap is repaired |
| `retry_livelock` | violated | two processes, three faults: see findings |
| `charging` | holds | three accounts, limit two, one reservoir, one fault: a slot is reused, and two retrying senders race while a third goroutine waits |
| `test_senders` | holds | module `Auction`: a task that draws all operations and both lists, a bidder with four kinds of target (a plain one, both gasless ones, one of a new key), nonces to 3, blocks to 2, two failed calls, one dropped transaction. Two faults leave both transactions of a pair unaccounted for, the drop tells what `NoHole` excludes, and within one block and the next an account may try to bid again |
| `auction_miscount` | violated | one bidder, one target of a new key, one failed call: see findings |
| `transfer_check` | holds | two accounts (all pairs, both orders, self-transfers), values 0 and 1, two tasks, three starts, one fault. A cycle of waiting tasks needs two accounts taken in opposite orders |
| `tasks` | holds | two users, four kinds of task, four tasks, ring of two, a counter of two bits, a pool of one client, one retry: the ring wraps, the pool has to grow, and the counter comes to its width, while a check outlives its task |
| `ledger` | holds | two accounts with two tokens, two tasks, two sends, two faults: a token can go and come back while the other task works on the same queues, a mint can fail beside a lost answer, and a token whose answer was lost can be drawn again |
| `ledger_reordered` | violated | the same without a fault, with blocks that reorder senders: see findings |
| `deployment` | holds | leader and follower, four contracts (one on its own, the token with its swap router, the entry point), two manager transactions, two polls, one fault or one restart of either slave anywhere. The leader uses the token deployer for deployment, supply and charge, the follower for its charge |
| `setup_skipped` | violated | one leader, a token and its router, all five manager transactions, one restart, no fault: see findings |
| `mint_collision` | violated | leader and follower, one minting contract, no fault: see findings |

Bounds are `Budget`, `MaxFaults`, `MaxDrops`, `MaxRestarts`, `MaxTroubles` (what may go wrong), `MaxStarts`, `MaxSends`,
`MaxNonce`, `MaxBlock`, `MaxTasks` (how long it goes on), `MaxPolls`, `ManagerTxs`, `Width`, `Size`, `InitSends`, `InitPool`, `MaxRetry`
(constants of the code: 60, 5, 2^32, 30000, 10000, 20 and 30 there). The first two groups are
guards of actions; when the tasks have used them up the modules stutter in `Terminated` or `Exhausted`, so
that deadlock stays an error in every passing run. `auction_miscount` stops at its bound and says
`CHECK_DEADLOCK FALSE`. Symmetry is not used, since most runs check liveness. `Charging` also holds with two faults, and
`TransferCheck` with three accounts, `Deployment` with a fault and a restart together and three contracts, and
`DeploymentsBounded` with two leaders, two faults and a restart; these take some minutes and show nothing the smaller
instances do not.

### Fairness

Weak fairness of every worker, task, bidder and slave (Go schedules its goroutines, and boomer runs its tasks again),
weak fairness of block production (`Mine`, `Execute`, `Activate`), strong fairness where a goroutine waits for
a `sync.Mutex` that others take again and again (`Lock`, `Lock1`, `Lock2`, and the unlocked `Reset` of `RetrySender`
that others may overwrite for ever), which Go hands over in FIFO order once a waiter starves. `LoadTasks` needs
weak fairness only, since its tasks are bounded; its receipts never have to come, only the retries to go on.
Nothing is assumed of faults, restarts, drops or reverts. In `Deployment` a slave's fairness covers all its
actions together; it can always choose one without a fault, except where the code retries for ever (`Stuck`),
which `AllFinish` names.

### Properties

*Nonces.* `NoHole` (both senders, and the bids): every nonce below a cached one has been given to the node; one that
has not would block everything the account sends afterwards. `HeldNonce`: only a reset writes between the two halves of
`nonce++`. `OverpayBounded`: each transaction more than one per transfer has a fault of its own.
`LagBounded`: a failed call leaves at most two of the node's transactions unaccounted for, a bid turned away after
its approval one, and every refusal makes one good. `CatchesUp`: a nonce behind the node does not stay there.
`OneBidPerBlock`: no two bids for transactions that the account signs itself go through at one block number. It need not hold
once a call fails (section 4); `OneBidUndisturbed` is the same as long as none does. `AllBidsTooLow` is violated.

*Promises.* `ReturnsOnlyExecuted` (refinement of `AtLeastOnce`), `EveryTransferReturns`; `AtMostLimit`,
`ReturnsAfterAll`, `Returns`; `AllPaid` and `Affordable`: nothing starts before each account is paid on chain, and the
reservoir pays no more than once for each account unless something fails. The last two need both parts of the
composition: the join of the one and the at-least-once of the other.

*Checks.* `Isolated`: while nothing has failed, a transfer in flight belongs to a waiting task that holds both
accounts. `NoFalseAlarm` follows from it. `EveryCheckEnds`: the locks, taken in address order, do not deadlock.

*Load.* `OnePlace` and `PoolBounded`: a client is free or with one task, and a pool stops at the number of users though
nobody looks at its maximum and any number of checks are left behind. `NoEmptyRead`, `RingIsWindow`: a reader finds
a hash, and the ring is the window of the latest ones. `CountedOnce`, `EveryTaskCounted`: boomer's statistics count each
task once, and none is left out.

*Tokens.* `OnePlace`, `Custody`, `FIFO` and `TokenComesBack` are about the ledger alone. `LedgerIsChain`: nothing having
failed, ledger and chain agree at rest. `MismatchBounded` says what a failure costs: the accounts whose mint failed, whose
tokens the ledger has all the same (`contract.go:217-221`), and the tokens put back to the sender after a lost
answer although the transfer was executed (`run_execute_contract.go:142`), are together no more than the failures.
A wrong entry stays with its token: whoever draws it sends a transfer that reverts, and the ledger moves that token, and
no other, to an account that need not own it.

*Deployment.* `DeploymentsBounded`, with failures and restarts anywhere: the deployments of a contract, in blocks and in
the pool, are no more than leaders, failures and restarts. "Deploys only one smart contract among the slaves" (`account.go:1441`)
is thereby true of one leader that nothing happens to; a time-out on a deployment that is mined after all, a failed look at
the nonce or the registry, a restart, and another leader may each add one. `AllFinish` holds with a failure or a restart,
the two endless retries of the code excepted (`Stuck`). `CodeThere` and `SetupUndisturbed` hold while nothing failed, nobody
was restarted and no follower gave up: they are about the order of leader and followers and about the order of the
setup, and say nothing of failures. The last one also wants the tokens to be there in time, which nothing in the code sees
to. `SetupComplete` and `AllCharged` are violated.

## 4. Findings

1. `retry_livelock`: "known transaction" neither advances nor resets the nonce (`account.go:140`). When the answer
   to an accepted send is lost and the pool then drops the transactions below it, the worker sends the same bytes
   for ever.
2. `auction_miscount`: `submitErr` outlives its iteration of the loop over the results (`account.go:1274-1291`). When one
   submission is refused as too low and the other one fails without an answer, in this order both count as too low and
   the account skips a nonce it has not used. In the other order it does not.
3. `ledger_reordered`: the ledger moves a token at acceptance (`run_execute_contract.go:138-139`). In the run the mints of
   both accounts are pending when a task takes a token of account 0 and the node accepts its transfer to account 1. A
   block executes the transfer before the mint: it reverts, the mint then gives the token to account 0, and the
   ledger has it at account 1. Two transfers of one token by different senders can come in the wrong order in the same way.
4. `setup_skipped`: the fixed nonces of `SetupLiquidity` do not identify its steps. After a restart between
   deployment and registration the second deployment uses the nonce of `AddToken`, which is then skipped
   as done (`contract.go:782`).
5. `mint_collision`: leader and follower mint from the same deployer; one mint is refused and not retried, and
   that slave's accounts are never charged (`accgroup.go:208`). The comment at `main.go:130`, by which only the leader does this work, describes neither.

Without a run of its own: "this account has already sent a tx for the block" (`account.go:1208`) is what an account is told
when the block is the recorded one. `PostSendBid` of `GAA` returns before it records the block when its swap fails
(`targetTxTypeLIst.go:149-157`), while the bid has gone through. The nonce stays too, and the account's next bid, at
the same block and with the same nonce, goes through as well: another `GAA` is for the same approval, another target may
replace it. `OneBidPerBlock` in place of `OneBidUndisturbed` in `TestSenders.cfg` makes TLC print such steps. What the node's auction makes of the second pair of bids is its own affair.

Seen while reading, and not modelled: the error of `RunCall` is shadowed in the block that checks the answer
(`run_read_api_call.go:208`), so that a wrong answer is published as a success.

## 5. Proofs

| Theorem | States |
|---|---|
| `RetrySenderProofs!TypeCorrect`, `NoHoleAlways`, `HeldNonceAlways`, `OverpayBoundedAlways` | the invariants, for any workers, slaves, sharing and budget |
| `RetrySenderProofs!RetryKeepsPromise` | `RetrySender` implements `AtLeastOnce` |
| `ConcurrentSendProofs!TypeCorrect`, `LimitKept`, `ReturnServesAll` | the invariants, for any number of accounts and limit |
| `ChargingProofs!ChargeTypeCorrect`, `ChargeLimitKept`, `ChargeServesAll` | the same with real transfers in the goroutines |
| `ChargingProofs!AllPaidAlways`, `AffordableAlways` | the composition's own invariants, for any number of accounts, limit and faults |
| `TransferCheckProofs!TypeCorrect`, `IsolatedAlways`, `NoFalseAlarmAlways` | type, isolation and no false alarm, for any tasks, accounts, amounts and fee |
| `AuctionProofs!TypeCorrect`, `NoHoleAlways` | type and nonces of `TestSenders`, for any tasks, variants and bounds |
| `AuctionProofs!BidTypesCorrect`, `OneBidUndisturbedAlways`, `LagBoundedAlways` | bids: for any bidders and targets, whether or not a block comes between two submissions |
| `AuctionProofs!BidsLeaveNoHole` | the nonces with bids, where `~Overtaken` |
| `LoadTasksProofs!TypeCorrect`, `NoEmptyReadAlways` | type, and no read of an empty ring, for any users, ring, ratio and width of the counter |
| `LoadTasksProofs!OnePlaceAlways`, `PoolBoundedAlways` | clients are neither lost nor doubled, and how many there are |
| `LoadTasksProofs!RingIsWindowAlways`, `CountedOnceAlways` | what the ring holds, and that tasks are counted once |
| `TokenLedgerProofs!TypeCorrect`, `OnePlaceAlways`, `CustodyAlways`, `FIFOAlways` | the ledger, for any tasks, accounts and tokens, whatever order blocks choose |
| `TokenLedgerProofs!LedgerIsChainAlways`, `MismatchBoundedAlways` | ledger and chain agree at rest, but for what each failure costs, where `~Reorder` |
| `DeploymentProofs!TypeCorrect`, `DeploymentsBoundedAlways` | types, and how often a contract is deployed, whatever fails, for any slaves, leaders, contracts and bounds |
| `DeploymentProofs!CodeThereAlways`, `SetupUndisturbedAlways` | deployment and setup undisturbed, for any slaves, contracts, groups, transactions at fixed nonces, polls and bounds |

Assumptions are the named ones of the modules (`RetryAssumption`, `FanOutAssumption`, `ChargeAssumption`,
`CheckAssumption`, `SendersAssumption`, `AuctionAssumption`, `TasksAssumption`, `LedgerAssumption`,
`DeploymentAssumption`): typing of the constants, that the workers of a sender and the slaves are finite sets,
that the holder of a free mutex is not a task, that a group of gasless contracts has a token besides its router,
and that a slave has fewer users than hashes to add before the first is read. Three theorems assume more.
`LedgerIsChainAlways` and `MismatchBoundedAlways` assume `~Reorder`: `ledger_reordered` shows that it is needed.
`BidsLeaveNoHole` assumes `~Overtaken`: the step that `auction_miscount` finds (a bid of another key, one submission failed
and one too low) skips a nonce of the account, which leaves a hole. Part of the properties themselves is that one slave
leads and nothing failed (`Undisturbed`, of `CodeThere` and `SetupUndisturbed`), that no call failed
(`OneBidUndisturbed`, `LedgerIsChain`).

* `RetrySender`. `NoHole` alone is not inductive: `nonce++` stores what it loaded. The strengthening says for
  every program point what the local nonce may be: a value about to be stored is safe, a value loaded with an
  acceptance is at most the nonce just given to the node, and in a slave only the holder of the mutex is inside
  the critical section. The refinement needs only that a worker leaves `wait` for `done` with a successful entry
  of its own in `chain`, and that `chain` grows at its end. `OverpayBounded` counts: while the node drops
  nothing, a transaction a worker waits for is in the pool or mined (`Tracked`), and what chain and pool hold
  beyond one transaction for each `Live` worker has a fault of its own (`Paid`). `NoHole` is used here: without
  a hole below it, a pooled transaction can be mined, so that a wait times out only by a fault.
* `ConcurrentSend`. The counter of the `WaitGroup` is the number of goroutines that are counted and not through,
  the channel holds one element for each that has not released. Cardinality lemmas carry the counts over a step.
* `Charging`. `RetrySenderProofs` is instantiated as the module is, so that a step of the composition is a step
  or a stutter of each part and both invariants carry over. Two facts join them: a sender that has started
  belongs to a goroutine that has (`Begun`), and a goroutine that is past its send, or whose sender is done, has
  been paid (`Served`). `AllPaid` is `Served` at the join, `Affordable` is `Paid` with `Begun`.
* `TransferCheck`. `TaskClear` and `ExecuteClear` are the two halves of the step: a task changes only its own
  locks, and a block moves balances only of the accounts of one transfer. The invariant has the locks a task
  holds at each program point, `Isolated`, and the relation between the balances a task has read, those on
  chain, and whether its transfer is still in flight. Without mutual exclusion over *both* accounts it is not
  inductive.
* `TestSenders`. The job of the task that holds the mutex is tied to the cached nonce (`n` is the nonce it read,
  and nobody else writes it), and the first transaction of a pair is in a block or in the pool when the second
  one is sent. Then each increment is covered by a slot that was filled or refused as filled.
* `Auction`. `BidKnows` is what the holder of the mutex knows of the node at each place of a bid: the approval
  of a gasless swap has been given to it once the bid is past `PreSend`, and an answer "ok" or "low" means that
  the target's nonce has. Tasks and bidders exclude each other, so that each half of the invariant survives the
  steps of the other (`TaskKeepsBids`, `BidderKeeps`). The part on nonces is optional (`IInv(sure)`), so that
  the types need no `~Overtaken`. `OneBidUndisturbed` follows from three facts. `Dated`:
  from the reading of a block number to its recording the bidder holds the mutex, and numbers only grow. `Level`:
  until a call fails the node has been given no nonce beyond the cached one, but for a gasless swap whose approval has the
  cached one, so that the swap of a `GAA` is not refused for its nonce. `Recorded`: each block in `made` has therefore been recorded.
  `LagBounded` needs an account of the operation
  under way (`Lagged`): what it has placed with the node and will still add to the nonce (`TaskOpen`, `BidOpen`)
  is the slack; where it fails, that much is paid for by the fault or the bid turned away. While the pool drops
  nothing, the nonces the node has ahead of the cached one have no gap (`Solid`) and the transfer that a
  cancellation replaces is there (`Cancels`), so that a transaction adds at most one to what the node knows.
* `LoadTasks`. `Hands` ties the number of clients a user holds to its place. `NoEmptyRead` needs a count: until
  a hash has been added every number drawn belongs to a user still under way (`Filling`), so that there are
  fewer of them than users, and the assumption on `InitSends` closes the case. `OnePlace` follows from `Spread`,
  the same statement about plain values (`Apart`: a list, what each user holds, how many were made), which
  `Alloc` and `Free` keep; `PoolBounded` from the injection of clients into users. `RingIsWindow` holds because
  a writer's half-done step is described exactly (`RingInv`: slots and window agree except at the tail, between
  `StoreHash` and `AdvanceTail`). `CountedOnce` needs `Unique`: a task's number is with one user or one check at
  most.
* `TokenLedger`. `OnePlace` counts; what is inductive is that no token has two places (`Apart`: queue positions
  and hands), that each token of a minted account has one (`Whole`), and that a task between the load and the
  store of a queue has its mutex and an up-to-date copy (`Locks`). The count follows by an injection. `Followed`
  ties the place of a token to the recipient of its last accepted transfer. `LedgerIsChain` needs, for what the
  node has accepted and not executed, that the transfers of a token form a path from the owner on chain to the
  recipient of the last one (`Path`, `Leads`); executing the first of the accepted transactions shortens each
  path by at most one, executing another one would break it. `MismatchBounded` is the same, token by token:
  some accounts are charged with the failed mints and some tokens with the lost answers, one for each failure (`Charge`);
  nobody owns or will own the tokens of the former (`Barren`), and every token charged to nobody has its path (`Sound`).
  `LedgerIsChain` is the case without charges.
* `Deployment`. `Placed` says which slave can be where. With one leader and nothing failed, `InOrder` gives what
  the leader's place means: contracts behind it have one deployment, the one it waits for has it in pool or
  block, those ahead have nothing (`Deployments`); a cached nonce that is not zero means that the code was there
  when somebody looked (`Cached`); routers passed are registered and active (`Registrations`); what sets up a
  router is in its chain before it is registered, in the order of the fixed nonces (`ManagerKinds`,
  `RouterKinds`, `Setups`). `CodeThere` follows from `Charges`: a slave that charges has seen the code and an
  active entry, and neither goes away. `DeploymentsBounded` is proved on its own, since it holds disturbed as well: the
  deployments of a contract and the leaders that may still deploy it (`May`: they have not come to it, are about to,
  or wait for a deployment that was reverted) are together no more than leaders, failures and restarts (`Within`). A
  step pays for each deployment by such a leader or by its failure. Two leaders never wait for one
  deployment (`Alone`, by way of `Sent`), so that a revert gives the right to deploy back to one leader only.

Left to TLC: the liveness properties (`EveryTransferReturns`, `Returns`, `TokenComesBack`, `EveryCheckEnds`,
`CatchesUp`, `EveryTaskCounted`, `AllFinish`), since TLAPS does not reason about fairness. Every invariant,
every action property and the refinement that the passing runs check are proved.

## 6. Not modelled, and why

* Contract bindings are generated: `src/klayslave/account/contracts` holds 24000 of the 30700 lines of implementation.
  They encode calls and have no state; the contracts are external.
* The charging work after the mint: transfers of tokens out of the reservoir are sends without retry, as in
  `TestSenders`, behind the fan-out; minting Tether tokens (out of one key that all slaves share) and the auction deposit
  (out of the slave's reservoir) are the guaranteed transfer of `RetrySender` behind the fan-out, as in `Charging`.
* The sum the reservoir is given (`main.go:90-104`): arithmetic on the configuration. `Affordable` bounds what
  the test accounts take.
* `TransferUnsignedTx`: the node chooses the nonce.
* A failed `GetBalance` in a checked transfer: the task panics on a nil balance. Other test cases beside the checked
  transfers: see `TransferCheck`.
* Account groups and sets: lists filled once, and an index under a mutex. Test case table and flags: nothing
  changes once the tasks run. Comparison of receipts and answers with what is expected, block numbers: no state that
  outlives a request. Encoding and signing have no state.
* Wall-clock time: time-outs are choices, not durations.

## 7. Plan

Order: what decides whether a load test can start and whether its report can be trusted comes first.

1. Done: `RetrySender` with `AtLeastOnce`, `ConcurrentSend` and their composition `Charging`; `TestSenders` and
   `Auction`; `TransferCheck`; `TokenLedger`; `ClientPool` and `LoadTasks`; `Deployment`. Proved: section 5.
2. `Deployment` composed with `RetrySender`: funding and registration as calls of the retrying sender instead of
   single steps; the charging work as a module of its own, where the order of mint and transfers in a block
   (`contract.go:189`) is what matters. Its theorems would reuse `RetrySenderProofs` as `ChargingProofs` does.
3. Abstract specifications for two more components, with a refinement proved step by step: the ledger as a set
   of tokens per account (`TokenLedger` without its queues and locks), and the pool of clients as a set.
4. A hole that nothing repairs once the node drops a transaction (`account.go:196`): a property of what the
   account can still send, with the drop as the only cause.
