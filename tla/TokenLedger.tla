----------------------------- MODULE TokenLedger -----------------------------
(***************************************************************************)
(* The ERC721 ledger of a slave (klayslave/account/erc721_ledger.go), the  *)
(* minting that fills it (contract.go, DoChargingWork of the ERC721        *)
(* contract) and the tasks that move its tokens                            *)
(* (testcase/run_execute_contract.go, RunErc721TransferTC).                *)
(*                                                                         *)
(* The ledger follows the answers of the node, not the chain: pending      *)
(* transactions are executed later, in nonce order for one sender and, if  *)
(* Reorder, in any order across senders.                                   *)
(***************************************************************************)
EXTENDS Integers, Sequences, FiniteSets

CONSTANTS NumAccounts, \* accounts of the group, numbered from 0
          TokensPer,   \* tokens minted for each account
          Tasks,       \* boomer workers running the test case
          NoTask,      \* holder of a free mutex
          Reorder,     \* whether blocks may reorder different senders
          MaxSends,    \* bound: transfers the node accepts
          MaxFaults    \* bound: failed mints and lost answers

ASSUME LedgerAssumption ==
    /\ NumAccounts \in Nat \ {0}
    /\ TokensPer \in Nat
    /\ NoTask \notin Tasks
    /\ Reorder \in BOOLEAN
    /\ MaxSends \in Nat /\ MaxFaults \in Nat

Accounts == 0..(NumAccounts - 1)
Tokens   == 0..(NumAccounts * TokensPer - 1)

\* startTokenId .. endTokenId - 1, without the time-stamp offset.
TokensOf(a) == (a * TokensPer)..((a + 1) * TokensPer - 1)

Reservoir == NumAccounts        \* the sender of the mints
Nobody    == NumAccounts + 1    \* owner of a token that is not minted
NoToken   == -1                 \* RemoveToken returned nil

VARIABLES
    minted,  \* accounts the charging work is through with
    queue,   \* ERC721TokenLedger.tokenQueues
    mutex,   \* ERC721TokenLedger.accountMutexes: the task holding each
    pc,      \* where each task is
    job,     \* its local variables
    pending, \* accepted transactions, in order of acceptance
    owner,   \* owner of each token on chain
    last,    \* recipient of the last accepted transaction of each token (history)
    sends, faults

taskVars == <<mutex, pc, job>>
nodeVars == <<pending, owner, last>>
vars     == <<minted, queue, taskVars, nodeVars, sends, faults>>

Steps == {"idle", "search", "take", "send", "return", "append"}
Job   == [cand   : Accounts,        \* account searched, then the token's sender
          tries  : 0..NumAccounts,
          token  : Tokens \cup {NoToken},
          dest   : Accounts,        \* account the token is put to
          tokens : Seq(Tokens)]     \* the queue as loaded
Idle  == [cand |-> 0, tries |-> 0, token |-> NoToken, dest |-> 0, tokens |-> <<>>]

TypeOK ==
    /\ minted \subseteq Accounts
    /\ queue \in [Accounts -> Seq(Tokens)]
    /\ mutex \in [Accounts -> Tasks \cup {NoTask}]
    /\ pc \in [Tasks -> Steps]
    /\ job \in [Tasks -> Job]
    /\ pending \in Seq([tokens : SUBSET Tokens, from : Accounts \cup {Reservoir},
                        to : Accounts])
    /\ owner \in [Tokens -> Accounts \cup {Nobody}]
    /\ last \in [Tokens -> Accounts \cup {Nobody}]
    /\ sends \in 0..MaxSends /\ faults \in 0..MaxFaults

Init ==
    /\ minted = {}
    /\ queue = [a \in Accounts |-> <<>>]
    /\ mutex = [a \in Accounts |-> NoTask]
    /\ pc = [t \in Tasks |-> "idle"]
    /\ job = [t \in Tasks |-> Idle]
    /\ pending = <<>>
    /\ owner = [k \in Tokens |-> Nobody]
    /\ last = [k \in Tokens |-> Nobody]
    /\ sends = 0 /\ faults = 0

----------------------------------------------------------------------------
Goto(t, step) == pc' = [pc EXCEPT ![t] = step]

\* The node accepts a transaction that gives the tokens ks of from to to.
Accept(ks, from, to) ==
    /\ pending' = Append(pending, [tokens |-> ks, from |-> from, to |-> to])
    /\ last' = [k \in Tokens |-> IF k \in ks THEN to ELSE last[k]]
    /\ UNCHANGED owner

\* registerBulk, and the tokens put into the ledger whatever its outcome.
\* Nothing else uses the ledger yet, and no other goroutine this account.
Mint(a) ==
    /\ a \notin minted
    /\ minted' = minted \cup {a}
    /\ queue' = [queue EXCEPT ![a] = [i \in 1..TokensPer |-> a * TokensPer + i - 1]]
    /\ \/ Accept(TokensOf(a), Reservoir, a) /\ UNCHANGED faults
       \/ /\ faults < MaxFaults /\ faults' = faults + 1
          /\ UNCHANGED nodeVars
    /\ UNCHANGED <<taskVars, sends>>

\* A task draws the account its search starts at.
Begin(t) ==
    /\ pc[t] = "idle" /\ minted = Accounts /\ sends < MaxSends
    /\ \E first \in Accounts :
          job' = [job EXCEPT ![t] = [Idle EXCEPT !.cand = first, !.tries = NumAccounts]]
    /\ Goto(t, "search")
    /\ UNCHANGED <<minted, queue, mutex, nodeVars, sends, faults>>

\* Mutant of Search: the index does not wrap around.
SearchNoWrap(t) ==
    LET a == job[t].cand IN
    /\ pc[t] = "search"
    /\ mutex[a] = NoTask
    /\ \/ /\ queue[a] # <<>>
          /\ mutex' = [mutex EXCEPT ![a] = t]
          /\ job' = [job EXCEPT ![t].tokens = queue[a]]
          /\ Goto(t, "take")
       \/ /\ queue[a] = <<>>
          /\ job' = [job EXCEPT ![t].cand = a + 1, ![t].tries = @ - 1]
          /\ UNCHANGED <<mutex, pc>>
    /\ UNCHANGED <<minted, queue, nodeVars, sends, faults>>

\* RemoveToken of the candidate: locks, loads the queue, and stores its tail
\* in a later step.  An empty queue sends the search to the next account, and
\* after every account has been asked the task gives up.
Search(t) ==
    LET a == job[t].cand IN
    /\ pc[t] = "search"
    /\ mutex[a] = NoTask
    /\ \/ /\ queue[a] # <<>>
          /\ mutex' = [mutex EXCEPT ![a] = t]
          /\ job' = [job EXCEPT ![t].tokens = queue[a]]
          /\ Goto(t, "take")
       \/ /\ queue[a] = <<>> /\ job[t].tries > 1
          /\ job' = [job EXCEPT ![t].cand = (a + 1) % NumAccounts,
                                ![t].tries = @ - 1]
          /\ UNCHANGED <<mutex, pc>>
       \/ /\ queue[a] = <<>> /\ job[t].tries = 1
          /\ job' = [job EXCEPT ![t] = Idle]
          /\ Goto(t, "idle")
          /\ UNCHANGED mutex
    /\ UNCHANGED <<minted, queue, nodeVars, sends, faults>>

\* Mutant of Take: the newest token instead of the oldest is taken out.
TakeNewest(t) ==
    LET a == job[t].cand
        q == job[t].tokens IN
    /\ pc[t] = "take"
    /\ queue' = [queue EXCEPT ![a] = Tail(q)]
    /\ mutex' = [mutex EXCEPT ![a] = NoTask]
    /\ job' = [job EXCEPT ![t] = [@ EXCEPT !.token = q[Len(q)], !.tokens = <<>>,
                                           !.tries = 0]]
    /\ Goto(t, "send")
    /\ UNCHANGED <<minted, nodeVars, sends, faults>>

Take(t) ==
    LET a == job[t].cand
        q == job[t].tokens IN
    /\ pc[t] = "take"
    /\ queue' = [queue EXCEPT ![a] = Tail(q)]
    /\ mutex' = [mutex EXCEPT ![a] = NoTask]
    /\ job' = [job EXCEPT ![t] = [@ EXCEPT !.token = Head(q), !.tokens = <<>>,
                                           !.tries = 0]]
    /\ Goto(t, "send")
    /\ UNCHANGED <<minted, nodeVars, sends, faults>>

\* Mutant of Send: the token goes to the recipient whatever the answer.
SendAlwaysMoves(t) ==
    /\ pc[t] = "send"
    /\ \E to \in Accounts :
          /\ job' = [job EXCEPT ![t].dest = to]
          /\ \/ /\ sends < MaxSends /\ sends' = sends + 1
                /\ Accept({job[t].token}, job[t].cand, to)
                /\ UNCHANGED faults
             \/ UNCHANGED <<nodeVars, sends, faults>>
    /\ Goto(t, "return")
    /\ UNCHANGED <<minted, queue, mutex>>

\* transferFrom is sent from the account the token was taken from, to a random
\* account: accepted, refused, or accepted with the answer lost.
Send(t) ==
    LET from == job[t].cand
        PutTo(a) == job' = [job EXCEPT ![t].dest = a] IN
    /\ pc[t] = "send"
    /\ \/ /\ sends < MaxSends /\ sends' = sends + 1
          /\ \E to \in Accounts :
                /\ Accept({job[t].token}, from, to)
                /\ \/ PutTo(to) /\ UNCHANGED faults
                   \/ PutTo(from) /\ faults < MaxFaults /\ faults' = faults + 1
       \/ PutTo(from) /\ UNCHANGED <<nodeVars, sends, faults>>
    /\ Goto(t, "return")
    /\ UNCHANGED <<minted, queue, mutex>>

\* Mutant of Return: PutToken without the account's mutex.
ReturnUnlocked(t) ==
    LET a == job[t].dest IN
    /\ pc[t] = "return"
    /\ job' = [job EXCEPT ![t].tokens = queue[a]]
    /\ Goto(t, "append")
    /\ UNCHANGED <<minted, queue, mutex, nodeVars, sends, faults>>

\* PutToken: locks and loads the queue, and stores the longer one later.
Return(t) ==
    LET a == job[t].dest IN
    /\ pc[t] = "return"
    /\ mutex[a] = NoTask
    /\ mutex' = [mutex EXCEPT ![a] = t]
    /\ job' = [job EXCEPT ![t].tokens = queue[a]]
    /\ Goto(t, "append")
    /\ UNCHANGED <<minted, queue, nodeVars, sends, faults>>

\* Mutant of AppendToken: the mutex is not unlocked.
AppendKeepsLock(t) ==
    LET a == job[t].dest IN
    /\ pc[t] = "append"
    /\ queue' = [queue EXCEPT ![a] = Append(job[t].tokens, job[t].token)]
    /\ job' = [job EXCEPT ![t] = Idle]
    /\ Goto(t, "idle")
    /\ UNCHANGED <<minted, mutex, nodeVars, sends, faults>>

AppendToken(t) ==
    LET a == job[t].dest IN
    /\ pc[t] = "append"
    /\ queue' = [queue EXCEPT ![a] = Append(job[t].tokens, job[t].token)]
    /\ mutex' = [mutex EXCEPT ![a] = NoTask]
    /\ job' = [job EXCEPT ![t] = Idle]
    /\ Goto(t, "idle")
    /\ UNCHANGED <<minted, nodeVars, sends, faults>>

----------------------------------------------------------------------------
\* Transaction i may be executed: it is the first one of its sender and, unless
\* blocks reorder senders, the first of all.
Executable(i) ==
    IF Reorder THEN \A j \in 1..(i - 1) : pending[j].from # pending[i].from
               ELSE i = 1

\* A transfer of a token its sender does not own reverts.
Execute(i) ==
    LET tx == pending[i] IN
    /\ Executable(i)
    /\ pending' = SubSeq(pending, 1, i - 1) \o SubSeq(pending, i + 1, Len(pending))
    /\ owner' = [k \in Tokens |->
                    IF k \in tx.tokens /\ (tx.from = Reservoir \/ owner[k] = tx.from)
                    THEN tx.to ELSE owner[k]]
    /\ UNCHANGED <<minted, queue, taskVars, last, sends, faults>>

Task(t) == \/ Begin(t) \/ Search(t) \/ Take(t) \/ Send(t) \/ Return(t)
           \/ AppendToken(t)

Quiet == /\ minted = Accounts /\ pending = <<>>
         /\ \A t \in Tasks : pc[t] = "idle"

\* Only the bound on sends stops the tasks.
Terminated == Quiet /\ sends = MaxSends /\ UNCHANGED vars

Next == \/ \E a \in Accounts : Mint(a)
        \/ \E t \in Tasks : Task(t)
        \/ \E i \in DOMAIN pending : Execute(i)
        \/ Terminated

Spec == Init /\ [][Next]_vars

\* Workers run, and a waiter gets the mutex in the end.
Fairness == \A t \in Tasks : WF_vars(Task(t)) /\ SF_vars(Return(t))

FairSpec == Spec /\ Fairness

----------------------------------------------------------------------------
Held(t) == IF pc[t] \in {"send", "return", "append"} THEN job[t].token ELSE NoToken
Places(k) == {p \in Accounts \X (1..(NumAccounts * TokensPer)) :
                 p[2] \in DOMAIN queue[p[1]] /\ queue[p[1]][p[2]] = k}
             \cup {<<t>> : t \in {u \in Tasks : Held(u) = k}}

\* A token of the ledger is in one place: at one position of one queue, or in
\* the hands of one task (erc721_ledger.go:44-89; the load and the store of a
\* queue are two steps, and the tasks cross each other's accounts).
OnePlace == \A a \in minted : \A k \in TokensOf(a) : Cardinality(Places(k)) = 1

\* Where answers are not lost, a transfer is only ever sent by the recipient of
\* the token's last accepted transfer: the accepted transfers of a token form a
\* path, and it ends where the ledger has the token
\* (run_execute_contract.go:136-144).
Custody ==
    faults = 0 =>
        /\ \A a \in Accounts : \A i \in DOMAIN queue[a] : last[queue[a][i]] = a
        /\ \A t \in Tasks : pc[t] = "send" => last[job[t].token] = job[t].cand

InOrder ==
    \A a \in minted : \/ queue'[a] = queue[a]
                      \/ \E t \in Tasks : /\ queue[a] # <<>>
                                          /\ queue'[a] = Tail(queue[a])
                                          /\ job'[t].token = Head(queue[a])
                      \/ \E k \in Tokens : queue'[a] = Append(queue[a], k)

\* Tokens of an account leave it in the order they came (erc721_ledger.go:65,
\* FIFO): whatever happens, a queue only loses its head or gains a new last.
FIFO == [][InOrder]_vars

\* "Transfer successful, add token to destination account"
\* (run_execute_contract.go:138): once everything has been executed, the owner
\* the ledger records for a token owns it on chain.
LedgerIsChain ==
    Quiet /\ faults = 0 =>
        \A a \in Accounts : \A i \in DOMAIN queue[a] : owner[queue[a][i]] = a

\* Accounts whose tokens are not all on chain, and tokens that another account
\* owns than the one the ledger records.
Unminted == {a \in minted : \E k \in TokensOf(a) : owner[k] = Nobody}
Astray   == {k \in Tokens : \E a \in Accounts : /\ \E i \in DOMAIN queue[a] : queue[a][i] = k
                                                /\ owner[k] \notin {a, Nobody}}

\* "Transfer failed, put token back to original owner"
\* (run_execute_contract.go:142), and the tokens of an account put into the
\* ledger whatever became of their mint (contract.go:217-221): where blocks keep
\* the order of acceptance, a failed mint costs the tokens of its account and a
\* lost answer one token; every other token is where the ledger has it.
MismatchBounded ==
    Quiet /\ ~Reorder => Cardinality(Unminted) + Cardinality(Astray) <= faults

\* A token taken out of the ledger comes back to it (run_execute_contract.go:
\* 136-144, every path through the answer puts it back).
TokenComesBack == \A t \in Tasks : pc[t] = "send" ~> pc[t] = "idle"
=============================================================================
