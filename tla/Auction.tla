------------------------------- MODULE Auction -------------------------------
(***************************************************************************)
(* The auction test cases (AuctionBid and AuctionRevertedBid of            *)
(* klayslave/account/account.go, the target types of                       *)
(* klayslave/account/targetTxTypeLIst.go) on an account that the other     *)
(* test cases draw too: TestSenders with bidders.                          *)
(*                                                                         *)
(* A bid holds the account's mutex from end to end.  It makes a target     *)
(* transaction with the cached nonce, submits one bid for it (reverted) or *)
(* two in parallel, and advances the nonce by what the answers say.  The   *)
(* node and its auction are external.                                      *)
(***************************************************************************)
EXTENDS TestSenders, Sequences

CONSTANTS Targets,   \* keys of TargetTxTypeList the test case may draw
          NoBid,     \* of an idle bidder
          Overtaken, \* a block may execute the target between the submissions
          MaxBlock   \* bound: blocks

VARIABLES
    bid,       \* the bid of each bidder
    block,     \* number of the latest block
    lastBlock, \* Account.lastBlocknumSentTx
    away,      \* approvals sent for a bid that was not made (history)
    made       \* blocks at which bids for its own transactions went through (history)

bidVars == <<bid, block, lastBlock, away, made>>
allVars == <<vars, bidVars>>

\* Targets signed by a new key: "tmpAccount doesn't need nonce management".
NewKey  == {"rGAA", "rGAS"}
Own     == {"VT", "SC", "rSC", "GAA", "GAS"}
Answers == {"ok", "low", "other", "error"}
Places  == {"load", "pre", "block", "submit", "post"}

Bid == [type : Own \cup NewKey, variant : Variants, n : Nat, place : Places,
        submissions : {1, 2}, block : Nat, answers : Seq(Answers)]

ASSUME AuctionAssumption ==
    /\ Targets \subseteq Own \cup NewKey
    /\ NoBid \notin Bid
    /\ Overtaken \in BOOLEAN
    /\ MaxBlock \in Nat

BidTypeOK ==
    /\ TypeOK
    /\ bid \in [Bidders -> Bid \cup {NoBid}]
    /\ \A b \in Bidders : bid[b] # NoBid <=> mutex = b
    /\ block \in Nat /\ lastBlock \in Nat /\ away \in Nat
    /\ made \subseteq Nat

BidInit ==
    /\ Init
    /\ bid = [b \in Bidders |-> NoBid]
    /\ block = 1 /\ lastBlock = 0 /\ away = 0 /\ made = {}

----------------------------------------------------------------------------
Bidding(b, place) == bid[b] # NoBid /\ bid[b].place = place
Proceed(b, place) == bid' = [bid EXCEPT ![b].place = place]

\* The deferred unlock.
BidReturn(b) == mutex' = NoTask /\ bid' = [bid EXCEPT ![b] = NoBid]

\* GenerateTx of the targets that the account signs itself.
TargetTx(b) ==
    LET j == bid[b] IN
    CASE j.type = "GAA" -> Make(j, j.n, "approve")
      [] j.type = "GAS" -> Make(j, j.n + 1, "swap")
      [] OTHER          -> Make(j, j.n, "transfer")

Approve(b) == Make(bid[b], bid[b].n, "approve")
Swap(b)    == Make(bid[b], bid[b].n + 1, "swap")

Stale(x) == x.nonce < mined \/ (x \notin pool /\ Slot(x.nonce) # {})

\* SendRawTransaction fails in another way than "too low" or "underpriced".
CallFails(x) == \/ x \in pool /\ UNCHANGED <<node, faults>>
                \/ Fault /\ UNCHANGED node
                \/ Fault /\ Accept(x)

\* Mutant of BidLock: a bid that does not wait for the mutex.
BidLockFree(b) ==
    /\ bid[b] = NoBid /\ nonce < MaxNonce /\ role = "signed"
    /\ mutex' = b
    /\ \E type \in Targets, v \in Variants, k \in {1, 2} :
          bid' = [bid EXCEPT ![b] = [type |-> type, variant |-> v, n |-> 0, place |-> "load",
                                     submissions |-> k, block |-> 0, answers |-> <<>>]]
    /\ UNCHANGED <<role, nonce, pc, job, node, refused, faults, drops, block, lastBlock, away, made>>

\* AuctionBid submits two bids, AuctionRevertedBid one.
BidLock(b) ==
    /\ bid[b] = NoBid /\ nonce < MaxNonce /\ role = "signed"
    /\ mutex = NoTask /\ mutex' = b
    /\ \E type \in Targets, v \in Variants, k \in {1, 2} :
          bid' = [bid EXCEPT ![b] = [type |-> type, variant |-> v, n |-> 0, place |-> "load",
                                     submissions |-> k, block |-> 0, answers |-> <<>>]]
    /\ UNCHANGED <<role, nonce, pc, job, node, refused, faults, drops, block, lastBlock, away, made>>

\* GetNonce, as in LoadNonce.
BidLoad(b) ==
    /\ Bidding(b, "load")
    /\ \/ nonce # 0 /\ UNCHANGED <<nonce, faults>>
       \/ nonce = 0 /\ nonce' = mined /\ UNCHANGED faults
       \/ nonce = 0 /\ Fault /\ UNCHANGED nonce
    /\ bid' = [bid EXCEPT ![b].n = nonce', ![b].place = "pre"]
    /\ UNCHANGED <<role, mutex, pc, job, node, refused, drops, block, lastBlock, away, made>>

\* The gas price or the block number cannot be read, or nothing can be signed.
BidGivesUp(b) ==
    /\ Bidding(b, "pre") \/ Bidding(b, "block")
    /\ Fault
    /\ BidReturn(b)
    /\ UNCHANGED <<role, nonce, pc, job, node, refused, drops, block, lastBlock, away, made>>

\* PreSendBid has something to send for the gasless swaps alone.  The approval
\* of a new key is accepted, or the call fails.
PreSend(b) ==
    /\ Bidding(b, "pre")
    /\ \/ /\ IF bid[b].type = "GAS" THEN Accept(Approve(b)) ELSE UNCHANGED node
          /\ Proceed(b, "block")
          /\ UNCHANGED <<nonce, mutex, refused, faults>>
       \/ /\ bid[b].type = "GAS" /\ Stale(Approve(b))
          /\ nonce' = nonce + 1 /\ refused' = refused + 1
          /\ BidReturn(b)
          /\ UNCHANGED <<node, faults>>
       \/ /\ \/ bid[b].type = "GAS" /\ CallFails(Approve(b))
             \/ bid[b].type = "rGAS" /\ Fault /\ UNCHANGED node
          /\ BidReturn(b)
          /\ UNCHANGED <<nonce, refused>>
    /\ UNCHANGED <<role, pc, job, drops, block, lastBlock, away, made>>

\* Mutant of SeeBlock: a second bid for the block is let through.
SeeBlockAgain(b) ==
    /\ Bidding(b, "block")
    /\ bid' = [bid EXCEPT ![b].block = block, ![b].place = "submit"]
    /\ UNCHANGED <<vars, block, lastBlock, away, made>>

\* isLastBlocknumSentTx turns a second bid away, after its approval was sent.
SeeBlock(b) ==
    /\ Bidding(b, "block")
    /\ IF block # lastBlock
         THEN /\ bid' = [bid EXCEPT ![b].block = block, ![b].place = "submit"]
              /\ UNCHANGED <<mutex, away>>
         ELSE /\ BidReturn(b)
              /\ away' = IF bid[b].type = "GAS" THEN away + 1 ELSE away
    /\ UNCHANGED <<role, nonce, pc, job, node, refused, faults, drops, block, lastBlock,
                   made>>

\* The answer to one submission.  A target of a new key is too low only where
\* the other submission has placed it.
Answer(b, answer) ==
    LET x == TargetTx(b) IN
    IF bid[b].type \in NewKey
      THEN /\ UNCHANGED node
           /\ CASE answer = "ok"  -> UNCHANGED faults
                [] answer = "low" -> /\ Overtaken /\ bid[b].answers # <<>>
                                     /\ block > bid[b].block /\ UNCHANGED faults
                [] OTHER          -> Fault
      ELSE CASE answer = "ok"  -> (Accept(x) \/ (x \in pool /\ UNCHANGED node)) /\ UNCHANGED faults
             [] answer = "low" -> Stale(x) /\ UNCHANGED <<node, faults>>
             [] OTHER          -> CallFails(x)

\* SendAuctionTx, in one of the goroutines.
Submit(b) ==
    /\ Bidding(b, "submit")
    /\ Len(bid[b].answers) < bid[b].submissions
    /\ \E answer \in Answers :
          /\ Answer(b, answer)
          /\ bid' = [bid EXCEPT ![b].answers = Append(@, answer)]
    /\ UNCHANGED <<role, nonce, mutex, pc, job, refused, drops, block, lastBlock, away, made>>

\* Mutant of TooLow: a refusal of any kind counts.
TooLowAny(r) == {i \in DOMAIN r : r[i] \in {"low", "other"}}

\* The results counted as too low: submitErr keeps the last refusal, so that a
\* failed call counts as what came before it.
TooLow(r) == {i \in DOMAIN r : \E k \in 1..i : /\ r[k] = "low"
                                               /\ \A m \in (k + 1)..i : r[m] = "error"}

\* The results come through the channel in any order.
Orders(r) == IF Len(r) = 2 THEN {r, <<r[2], r[1]>>} ELSE {r}

\* Without a success the nonce is skipped where all results count as too low.
Conclude(b) ==
    LET r == bid[b].answers IN
    /\ Bidding(b, "submit")
    /\ Len(r) = bid[b].submissions
    /\ IF \E i \in DOMAIN r : r[i] = "ok"
         THEN Proceed(b, "post") /\ UNCHANGED <<nonce, mutex, refused>>
         ELSE /\ \E order \in Orders(r) :
                    IF TooLow(order) = DOMAIN r
                      THEN /\ nonce' = nonce + 1
                           /\ refused' = IF bid[b].type = "GAS" THEN refused ELSE refused + 1
                      ELSE UNCHANGED <<nonce, refused>>
              /\ BidReturn(b)
    /\ UNCHANGED <<role, pc, job, node, faults, drops, block, lastBlock, away, made>>

\* Mutant of Placed: one nonce for every target.
PlacedOne(b) == nonce' = nonce + 1 /\ lastBlock' = bid[b].block

\* nonce and block number of a bid that went through.
Placed(b) ==
    /\ nonce' = nonce + (IF bid[b].type \in {"GAA", "GAS"} THEN 2 ELSE 1)
    /\ lastBlock' = bid[b].block

\* PostSendBid: the swap that follows an approval is sent only now.
Post(b) ==
    /\ Bidding(b, "post")
    /\ CASE bid[b].type \in NewKey ->
                UNCHANGED <<nonce, lastBlock, node, faults>>
         [] bid[b].type = "GAA" ->
                \/ Accept(Swap(b)) /\ Placed(b) /\ UNCHANGED faults
                \/ /\ Stale(Swap(b)) /\ nonce' = nonce + 1
                   /\ UNCHANGED <<lastBlock, node, faults>>
                \/ CallFails(Swap(b)) /\ UNCHANGED <<nonce, lastBlock>>
         [] OTHER ->
                Placed(b) /\ UNCHANGED <<node, faults>>
    /\ made' = IF bid[b].type \in Own THEN made \cup {bid[b].block} ELSE made
    /\ BidReturn(b)
    /\ UNCHANGED <<role, pc, job, refused, drops, block, away>>

NewBlock ==
    /\ block < MaxBlock
    /\ block' = block + 1
    /\ UNCHANGED <<vars, bid, lastBlock, away, made>>

Bidder(b) == \/ BidLock(b) \/ BidLoad(b) \/ BidGivesUp(b) \/ PreSend(b)
             \/ SeeBlock(b) \/ Submit(b) \/ Conclude(b) \/ Post(b)

Senders == (\E t \in Tasks : Task(t)) \/ Mine \/ Drop

BidNext == \/ Senders /\ UNCHANGED bidVars
           \/ \E b \in Bidders : Bidder(b)
           \/ NewBlock
           \/ Exhausted /\ UNCHANGED bidVars

BidSpec == BidInit /\ [][BidNext]_allVars

\* As in TestSenders; a contended mutex goes to every waiter in the end.
BidFairness == /\ \A t \in Tasks : WF_allVars(Task(t) /\ UNCHANGED bidVars)
                                   /\ SF_allVars(Lock(t) /\ UNCHANGED bidVars)
               /\ \A b \in Bidders : WF_allVars(Bidder(b))
               /\ WF_allVars(Mine /\ UNCHANGED bidVars)

FairBidSpec == BidSpec /\ BidFairness

----------------------------------------------------------------------------
\* Two transactions at most are unaccounted for after a failed call, one after
\* an approval whose bid was turned away (account.go:1198-1205), and each
\* operation refused outright makes one good (account.go:184, 546, 1076, 1293):
\* without any of them none is refused and the cached nonce is the right one.
LagBounded ==
    drops = 0 /\ role = "signed" /\ mutex = NoTask => refused + Lag <= 2 * faults + away

\* "this account has already sent a tx for the block" (account.go:1208): no two
\* bids for transactions that the account signs itself go through at one block
\* number, though the number is read long before it is recorded.
OneBidPerBlock ==
    \A b \in Bidders : Bidding(b, "post") /\ bid[b].type \in Own
                          => bid[b].block \notin made

\* The same where no call fails: only then has PostSendBid recorded the block of
\* every bid that went through (targetTxTypeLIst.go:149-163).
OneBidUndisturbed == faults = 0 => OneBidPerBlock

\* "If all the bids are failed due to nonce too low, add nonce" (account.go
\* :1292): a bid without success skips a nonce only where each of its
\* submissions was refused for the nonce.
AllBidsTooLow ==
    [][\A b \in Bidders :
          Bidding(b, "submit") /\ nonce' # nonce
              => \A i \in DOMAIN bid[b].answers : bid[b].answers[i] = "low"]_allVars
=============================================================================
