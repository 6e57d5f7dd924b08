-------------------------- MODULE TokenLedgerProofs --------------------------
(***************************************************************************)
(* The ERC721 ledger for any number of accounts, tokens and tasks: types,  *)
(* where a token is, who may send it, in which order the tokens leave an   *)
(* account and, unless blocks reorder senders, what the chain makes of it. *)
(***************************************************************************)
EXTENDS TokenLedger, SequenceTheorems, FiniteSetTheorems, TLAPS

USE LedgerAssumption DEF LedgerAssumption

\* A task between RemoveToken and PutToken has a token in its hands.
InHand(t) == pc[t] \in {"send", "return", "append"}

\* What Mint puts into the queue of a.
Run(a) == [i \in 1..TokensPer |-> a * TokensPer + i - 1]

\* Until every account has been minted for, no task runs.
Unmoved ==
    /\ \A t \in Tasks : pc[t] = "idle"
    /\ queue = [a \in Accounts |-> IF a \in minted THEN Run(a) ELSE <<>>]

Opening == minted # Accounts => Unmoved

\* A task between the load and the store of a queue owns it, and the queue is
\* still what it has loaded.
Lock(t) ==
    /\ pc[t] = "take" => /\ mutex[job[t].cand] = t
                         /\ queue[job[t].cand] = job[t].tokens
                         /\ job[t].tokens # <<>>
    /\ pc[t] = "append" => /\ mutex[job[t].dest] = t
                           /\ queue[job[t].dest] = job[t].tokens
    /\ InHand(t) => job[t].token \in Tokens

Locks == \A t \in Tasks : Lock(t)

\* No token is in two places ...
Apart ==
    /\ \A a, b \in Accounts : \A i \in 1..Len(queue[a]), j \in 1..Len(queue[b]) :
          queue[a][i] = queue[b][j] => a = b /\ i = j
    /\ \A t \in Tasks : InHand(t) =>
          /\ \A a \in Accounts : \A i \in 1..Len(queue[a]) : queue[a][i] # job[t].token
          /\ \A u \in Tasks : InHand(u) /\ job[u].token = job[t].token => u = t

InQueue(k) == \E a \in Accounts : \E i \in 1..Len(queue[a]) : queue[a][i] = k
HeldBy(k)  == \E t \in Tasks : InHand(t) /\ job[t].token = k

\* ... and none is lost.
Whole == \A a \in minted : \A k \in TokensOf(a) : InQueue(k) \/ HeldBy(k)

\* Where the ledger has token k, or is about to put it, is where the last
\* accepted transaction has sent it.
Tracks(k) ==
    /\ \A a \in Accounts : \A i \in 1..Len(queue[a]) : queue[a][i] = k => last[k] = a
    /\ \A t \in Tasks : job[t].token = k =>
          /\ pc[t] = "send" => last[k] = job[t].cand
          /\ pc[t] \in {"return", "append"} => last[k] = job[t].dest

Followed == faults = 0 => \A k \in Tokens : Tracks(k)

IInv == TypeOK /\ Opening /\ Locks /\ Apart /\ Whole /\ Followed

----------------------------------------------------------------------------
(* The node: who will own token k, which own owns now, once the first i of *)
(* the accepted transactions txs have been executed.                       *)

OwnedAfter(txs, own, k, i, a) ==
    \/ \E j \in 1..i : /\ k \in txs[j].tokens /\ txs[j].to = a
                       /\ \A m \in 1..i : k \in txs[m].tokens => m <= j
    \/ (\A j \in 1..i : k \notin txs[j].tokens) /\ own = a

\* Every transfer will be sent by the owner, and end will be the owner at last.
Leads(txs, own, k, end) ==
    /\ \A i \in 1..Len(txs) :
          k \in txs[i].tokens =>
              txs[i].from = Reservoir \/ OwnedAfter(txs, own, k, i - 1, txs[i].from)
    /\ OwnedAfter(txs, own, k, Len(txs), end)

\* Token k will be where the ledger has it.
Sound(k) == Tracks(k) /\ Leads(pending, owner[k], k, last[k])

\* Nobody owns token k, and no mint of it is under way, or else there is one or
\* the token is on chain.
Barren(k) == owner[k] = Nobody /\ \A i \in 1..Len(pending) :
                                     k \in pending[i].tokens => pending[i].from # Reservoir
Coming(k) == owner[k] \in Accounts \/ \E i \in 1..Len(pending) :
                                          k \in pending[i].tokens /\ pending[i].from = Reservoir

\* The failed mints are charged to the accounts in as, the lost answers to the
\* tokens in ks: all other tokens are sound.
Charge(as, ks) ==
    /\ Cardinality(as) + Cardinality(ks) <= faults
    /\ \A a \in as : \A k \in TokensOf(a) : Barren(k)
    /\ \A a \in minted \ as : \A k \in TokensOf(a) : Coming(k)
    /\ \A k \in Tokens \ ks : (\A a \in as : k \notin TokensOf(a)) => Sound(k)

Charged == \E as \in SUBSET minted, ks \in SUBSET Tokens : Charge(as, ks)

\* Nothing has been sent for a token that is not minted.
Fresh == \A a \in Accounts \ minted : \A k \in TokensOf(a) :
            owner[k] = Nobody /\ \A i \in 1..Len(pending) : k \notin pending[i].tokens

----------------------------------------------------------------------------
(* Types. *)

\* The tokens of an account are tokens, and no other account's.
LEMMA TokensApart ==
    ASSUME NEW a \in Accounts
    PROVE  /\ TokensOf(a) \subseteq Tokens
           /\ \A b \in Accounts : b # a => TokensOf(a) \cap TokensOf(b) = {}
<1> DEFINE T == TokensPer
<1>1. \A x, y \in Nat : x < y => (x + 1) * T <= y * T
  <2> SUFFICES ASSUME NEW x \in Nat, NEW y \in Nat, x < y
               PROVE  (x + 1) * T <= y * T
    OBVIOUS
  <2>1. PICK d \in Nat : y = x + 1 + d
    <3>1. y - x - 1 \in Nat /\ y = x + 1 + (y - x - 1)
      OBVIOUS
    <3> QED
      BY <3>1
  <2>2. y * T = (x + 1) * T + d * T /\ d * T >= 0
    BY <2>1
  <2>3. (x + 1) * T \in Int /\ d * T \in Int
    BY <2>1
  <2> QED
    BY <2>2, <2>3
<1>2. \A b \in Accounts : b \in Nat /\ b < NumAccounts
  BY DEF Accounts
<1>3. \A b \in Accounts : b * T \in Nat /\ (b + 1) * T \in Nat
  BY <1>2
<1>4. NumAccounts * T \in Nat /\ (a + 1) * T <= NumAccounts * T
  BY <1>1, <1>2
<1>5. TokensOf(a) \subseteq Tokens
  BY <1>3, <1>4 DEF TokensOf, Tokens
<1>6. ASSUME NEW b \in Accounts, b # a PROVE TokensOf(a) \cap TokensOf(b) = {}
  <2>1. (a + 1) * T <= b * T \/ (b + 1) * T <= a * T
    BY <1>1, <1>2, <1>6
  <2> QED
    BY <1>3, <2>1 DEF TokensOf
<1> QED
  BY <1>5, <1>6

\* What Mint puts into a queue: the tokens of the account, each of them once.
LEMMA RunOfTokens ==
    ASSUME NEW a \in Accounts
    PROVE  /\ Run(a) \in Seq(Tokens) /\ Len(Run(a)) = TokensPer
           /\ \A i \in 1..TokensPer : Run(a)[i] \in TokensOf(a)
           /\ \A i, j \in 1..TokensPer : Run(a)[i] = Run(a)[j] => i = j
           /\ \A k \in TokensOf(a) : \E i \in 1..TokensPer : Run(a)[i] = k
<1>1. a * TokensPer \in Nat /\ (a + 1) * TokensPer = a * TokensPer + TokensPer
  BY DEF Accounts
<1>2. \A i \in 1..TokensPer : a * TokensPer + i - 1 \in TokensOf(a)
  BY <1>1 DEF TokensOf
<1>3. \A k \in TokensOf(a) : /\ k - a * TokensPer + 1 \in 1..TokensPer
                             /\ k = a * TokensPer + (k - a * TokensPer + 1) - 1
  BY <1>1 DEF TokensOf
<1>4. Run(a) \in Seq(Tokens) /\ Len(Run(a)) = TokensPer
  BY <1>2, TokensApart DEF Run
<1> QED
  BY <1>1, <1>2, <1>3, <1>4 DEF Run

LEMMA InitType == Init => TypeOK
  BY DEF Init, TypeOK, Idle, Job, Steps, Accounts

\* Assignments to the local variables of a task.
LEMMA JobUpdates ==
    ASSUME NEW r \in Job
    PROVE  /\ \A q \in Seq(Tokens) : [r EXCEPT !.tokens = q] \in Job
           /\ \A a \in Accounts : [r EXCEPT !.dest = a] \in Job
  BY DEF Job

LEMMA NextType == TypeOK /\ Locks /\ [Next]_vars => TypeOK'
<1> SUFFICES ASSUME TypeOK, Locks, [Next]_vars PROVE TypeOK'
  OBVIOUS
<1> USE DEF TypeOK
<1>c. 0 \in Accounts /\ \A a \in Accounts : (a + 1) % NumAccounts \in Accounts
  BY DEF Accounts
<1>1. ASSUME NEW ks \in SUBSET Tokens, NEW from \in Accounts \cup {Reservoir},
             NEW to \in Accounts, Accept(ks, from, to)
      PROVE  /\ pending' \in Seq([tokens : SUBSET Tokens, from : Accounts \cup {Reservoir},
                                  to : Accounts])
             /\ owner' \in [Tokens -> Accounts \cup {Nobody}]
             /\ last' \in [Tokens -> Accounts \cup {Nobody}]
  BY <1>1 DEF Accept
<1>2. ASSUME NEW a \in Accounts, Mint(a) PROVE TypeOK'
  <2>1. minted' \subseteq Accounts /\ queue' \in [Accounts -> Seq(Tokens)]
    BY <1>2, RunOfTokens DEF Mint, Run
  <2>2. UNCHANGED <<mutex, pc, job, sends>>
    BY <1>2 DEF Mint, taskVars
  <2>3. CASE Accept(TokensOf(a), Reservoir, a) /\ UNCHANGED faults
    BY <2>1, <2>2, <2>3, <1>1, TokensApart
  <2>4. CASE faults < MaxFaults /\ faults' = faults + 1 /\ UNCHANGED nodeVars
    BY <2>1, <2>2, <2>4 DEF nodeVars
  <2> QED
    BY <1>2, <2>3, <2>4 DEF Mint
<1>3. ASSUME NEW t \in Tasks, Begin(t) PROVE TypeOK'
  <2>1. PICK first \in Accounts :
            job' = [job EXCEPT ![t] = [Idle EXCEPT !.cand = first, !.tries = NumAccounts]]
    BY <1>3 DEF Begin
  <2>2. Idle \in Job
    BY <1>c DEF Idle, Job
  <2>3. [Idle EXCEPT !.cand = first, !.tries = NumAccounts] \in Job
    <3>1. \A r \in Job : [r EXCEPT !.cand = first, !.tries = NumAccounts] \in Job
      <4>1. first \in Accounts /\ NumAccounts \in 0..NumAccounts
        OBVIOUS
      <4> QED
        BY <4>1 DEF Job
    <3> QED
      BY <2>2, <3>1
  <2> QED
    BY <1>3, <2>1, <2>3 DEF Begin, Goto, Steps, nodeVars
<1>4. ASSUME NEW t \in Tasks, Search(t) PROVE TypeOK'
  <2>1. job' \in [Tasks -> Job]
    <3>1. [job[t] EXCEPT !.tokens = queue[job[t].cand]] \in Job
      <4>1. job[t] \in Job /\ job[t].cand \in Accounts
        BY DEF Job
      <4>2. queue[job[t].cand] \in Seq(Tokens)
        BY <4>1
      <4> QED
        BY <4>1, <4>2, JobUpdates
    <3>2. job[t].tries > 1 =>
            [job[t] EXCEPT !.cand = (job[t].cand + 1) % NumAccounts, !.tries = @ - 1] \in Job
        <4>1. job[t] \in Job /\ (job[t].cand + 1) % NumAccounts \in Accounts
        BY <1>c DEF Job
      <4>2. job[t].tries > 1 => job[t].tries - 1 \in 0..NumAccounts
        BY <4>1 DEF Job
      <4> QED
        BY <4>1, <4>2 DEF Job
    <3>3. Idle \in Job
      BY <1>c DEF Idle, Job
    <3> QED
      BY <1>4, <3>1, <3>2, <3>3 DEF Search
  <2>2. pc' \in [Tasks -> Steps]
    BY <1>4 DEF Search, Goto, Steps
  <2>3. mutex' \in [Accounts -> Tasks \cup {NoTask}]
    BY <1>4 DEF Search
  <2> QED
    BY <1>4, <2>1, <2>2, <2>3 DEF Search, nodeVars
<1>5. ASSUME NEW t \in Tasks, Take(t) PROVE TypeOK'
  <2>1. job[t].tokens \in Seq(Tokens) /\ job[t].tokens # <<>>
    BY <1>5 DEF Locks, Lock, Take, Job
  <2>2. Head(job[t].tokens) \in Tokens /\ Tail(job[t].tokens) \in Seq(Tokens)
    BY <2>1
  <2>3. [job[t] EXCEPT !.token = Head(job[t].tokens), !.tokens = <<>>, !.tries = 0] \in Job
    <3>1. job[t] \in Job /\ <<>> \in Seq(Tokens) /\ 0 \in 0..NumAccounts
      OBVIOUS
    <3> QED
      BY <2>2, <3>1 DEF Job
  <2> QED
    BY <1>5, <2>2, <2>3 DEF Take, Goto, Steps, nodeVars
<1>6. ASSUME NEW t \in Tasks, Send(t) PROVE TypeOK'
  <2>1. job[t].token \in Tokens /\ job[t].cand \in Accounts
    BY <1>6 DEF Locks, Lock, InHand, Send, Job
  <2>2. \A a \in Accounts : [job[t] EXCEPT !.dest = a] \in Job
    BY JobUpdates
  <2>3. job' \in [Tasks -> Job]
    <3>1. \E a \in Accounts : job' = [job EXCEPT ![t].dest = a]
      BY <1>6, <2>1 DEF Send
    <3> QED
      BY <2>2, <3>1
  <2>4. pc' \in [Tasks -> Steps]
    BY <1>6 DEF Send, Goto, Steps
  <2>5. sends' \in 0..MaxSends /\ faults' \in 0..MaxFaults
    BY <1>6 DEF Send
  <2>6. \/ UNCHANGED nodeVars
        \/ \E to \in Accounts : Accept({job[t].token}, job[t].cand, to)
    BY <1>6 DEF Send
  <2>7. /\ pending' \in Seq([tokens : SUBSET Tokens, from : Accounts \cup {Reservoir},
                             to : Accounts])
        /\ owner' \in [Tokens -> Accounts \cup {Nobody}]
        /\ last' \in [Tokens -> Accounts \cup {Nobody}]
    BY <2>1, <2>6, <1>1 DEF nodeVars
  <2> QED
    BY <1>6, <2>3, <2>4, <2>5, <2>7 DEF Send
<1>7. ASSUME NEW t \in Tasks, Return(t) PROVE TypeOK'
  <2>1. [job[t] EXCEPT !.tokens = queue[job[t].dest]] \in Job
    <3>1. job[t] \in Job /\ job[t].dest \in Accounts
      BY DEF Job
    <3>2. queue[job[t].dest] \in Seq(Tokens)
      BY <3>1
    <3> QED
      BY <3>1, <3>2, JobUpdates
  <2>2. job' \in [Tasks -> Job] /\ mutex' \in [Accounts -> Tasks \cup {NoTask}]
    BY <1>7, <2>1 DEF Return
  <2> QED
    BY <1>7, <2>2 DEF Return, Goto, Steps, nodeVars
<1>8. ASSUME NEW t \in Tasks, AppendToken(t) PROVE TypeOK'
  <2>1. job[t].token \in Tokens /\ job[t].tokens \in Seq(Tokens)
    BY <1>8 DEF Locks, Lock, InHand, AppendToken, Job
  <2>2. Append(job[t].tokens, job[t].token) \in Seq(Tokens) /\ Idle \in Job
    BY <1>c, <2>1 DEF Idle, Job
  <2> QED
    BY <1>8, <2>2 DEF AppendToken, Goto, Steps, nodeVars
<1>9. ASSUME NEW i \in DOMAIN pending, Execute(i) PROVE TypeOK'
  <2> DEFINE Txs == [tokens : SUBSET Tokens, from : Accounts \cup {Reservoir}, to : Accounts]
  <2>1. /\ pending \in Seq(Txs) /\ Len(pending) \in Nat
        /\ DOMAIN pending = 1..Len(pending)
    OBVIOUS
  <2>2. /\ SubSeq(pending, 1, i - 1) \in Seq(Txs)
        /\ SubSeq(pending, i + 1, Len(pending)) \in Seq(Txs)
    <3> HIDE DEF Txs
    <3>1. i \in 1..Len(pending) /\ \A j \in 1..Len(pending) : pending[j] \in Txs
      BY <2>1
    <3> QED
      BY <2>1, <3>1, SubSeqProperties
  <2>3. pending' \in Seq(Txs)
    BY <1>9, <2>2, ConcatProperties DEF Execute
  <2>4. owner' \in [Tokens -> Accounts \cup {Nobody}]
    <3>1. pending[i] \in Txs
      <4> HIDE DEF Txs
      <4> QED
        BY <2>1
    <3> QED
      BY <1>9, <3>1 DEF Execute
  <2> QED
    BY <1>9, <2>3, <2>4 DEF Execute, taskVars
<1>10. CASE UNCHANGED vars
  BY <1>10 DEF vars, taskVars, nodeVars
<1> QED
  BY <1>2, <1>3, <1>4, <1>5, <1>6, <1>7, <1>8, <1>9, <1>10
     DEF Next, Task, Terminated

LEMMA OpeningStep == TypeOK /\ Opening /\ [Next]_vars => Opening'
<1> SUFFICES ASSUME TypeOK, Opening, [Next]_vars, minted' # Accounts
             PROVE  Unmoved'
  BY DEF Opening
<1> USE DEF TypeOK, Unmoved
<1>1. ASSUME NEW a \in Accounts, Mint(a) PROVE Unmoved'
  <2>1. minted # Accounts /\ minted' = minted \cup {a} /\ pc' = pc
    BY <1>1 DEF Mint, taskVars
  <2>2. queue' = [queue EXCEPT ![a] = Run(a)]
    BY <1>1 DEF Mint, Run
  <2> QED
    BY <2>1, <2>2 DEF Opening
<1>2. minted = Accounts => minted' = Accounts
  BY DEF Next, Task, Mint, Begin, Search, Take, Send, Return, AppendToken,
         Execute, Terminated, vars
<1>3. minted # Accounts
  BY <1>2
<1>4. CASE UNCHANGED <<minted, queue, pc>>
  BY <1>3, <1>4 DEF Opening
<1>5. ASSUME NEW t \in Tasks, Task(t) PROVE FALSE
  BY <1>3, <1>5 DEF Opening, Task, Begin, Search, Take, Send, Return, AppendToken
<1> QED
  BY <1>1, <1>4, <1>5 DEF Next, Execute, Terminated, vars, taskVars

\* The mutex of an account keeps other tasks from its queue until the store.
LEMMA LocksStep == TypeOK /\ Opening /\ Locks /\ [Next]_vars => Locks'
<1> SUFFICES ASSUME TypeOK, Opening, Locks, [Next]_vars PROVE Locks'
  OBVIOUS
<1> USE DEF TypeOK, Locks, Lock, InHand
<1>1. ASSUME NEW a \in Accounts, Mint(a) PROVE Locks'
  <2>1. \A t \in Tasks : pc[t] = "idle" /\ pc'[t] = "idle"
    BY <1>1 DEF Opening, Unmoved, Mint, taskVars
  <2> QED
    BY <2>1
<1>2. ASSUME NEW t \in Tasks, Begin(t) PROVE Locks'
  BY <1>2 DEF Begin, Goto
<1>3. ASSUME NEW t \in Tasks, Search(t) PROVE Locks'
  <2>1. job[t].cand \in Accounts
    BY DEF Job
  <2>2. CASE queue[job[t].cand] # <<>>
    <3>1. /\ mutex' = [mutex EXCEPT ![job[t].cand] = t]
          /\ pc'[t] = "take" /\ job'[t] = [job[t] EXCEPT !.tokens = queue[job[t].cand]]
          /\ \A u \in Tasks \ {t} : pc'[u] = pc[u] /\ job'[u] = job[u]
          /\ mutex[job[t].cand] = NoTask /\ queue' = queue
      BY <1>3, <2>1, <2>2 DEF Search, Goto
    <3>2. /\ job'[t].cand = job[t].cand /\ job'[t].tokens = queue[job[t].cand]
      BY <3>1 DEF Job
    <3>3. \A u \in Tasks \ {t} :
            /\ pc[u] = "take" => job[u].cand # job[t].cand
            /\ pc[u] = "append" => job[u].dest # job[t].cand
      BY <3>1
    <3>4. \A u \in Tasks \ {t} :
            /\ pc[u] = "take" => mutex'[job[u].cand] = u
            /\ pc[u] = "append" => mutex'[job[u].dest] = u
      BY <2>1, <3>1, <3>3 DEF Job
    <3>5. /\ mutex'[job'[t].cand] = t /\ queue'[job'[t].cand] = job'[t].tokens
          /\ job'[t].tokens # <<>>
      BY <2>1, <2>2, <3>1, <3>2
    <3>6. \A u \in Tasks \ {t} :
            /\ pc'[u] = pc[u] /\ job'[u] = job[u] /\ queue' = queue
            /\ pc[u] = "take" => mutex'[job[u].cand] = u
            /\ pc[u] = "append" => mutex'[job[u].dest] = u
      BY <3>1, <3>4
    <3> SUFFICES ASSUME NEW u \in Tasks PROVE Lock(u)'
      BY DEF Locks
    <3>7. CASE u = t
      BY <3>1, <3>5, <3>7
    <3>8. CASE u # t
      BY <3>6, <3>8
    <3> QED
      BY <3>7, <3>8
  <2>3. CASE queue[job[t].cand] = <<>>
    <3>1. /\ UNCHANGED <<mutex, queue>> /\ pc'[t] \in {"search", "idle"}
          /\ \A u \in Tasks \ {t} : pc'[u] = pc[u] /\ job'[u] = job[u]
      BY <1>3, <2>3 DEF Search, Goto
    <3> QED
      BY <3>1
  <2> QED
    BY <2>2, <2>3
<1>4. ASSUME NEW t \in Tasks, Take(t) PROVE Locks'
  <2>1. job[t].cand \in Accounts /\ Head(job[t].tokens) \in Tokens
    BY <1>4 DEF Job, Take
  <2>2. \A u \in Tasks \ {t} :
          /\ pc'[u] = pc[u] /\ job'[u] = job[u]
          /\ pc[u] = "take" => job[u].cand # job[t].cand
          /\ pc[u] = "append" => job[u].dest # job[t].cand
    BY <1>4 DEF Take, Goto
  <2>3. pc'[t] = "send" /\ job'[t].token \in Tokens
    BY <1>4, <2>1 DEF Take, Goto
  <2> QED
    <3>1. \A b \in Accounts : b # job[t].cand => queue'[b] = queue[b] /\ mutex'[b] = mutex[b]
      BY <1>4, <2>1 DEF Take
    <3>2. \A u \in Tasks : job[u].cand \in Accounts /\ job[u].dest \in Accounts
      BY DEF Job
    <3>3. Lock(t)'
      BY <2>3
    <3>4. ASSUME NEW u \in Tasks \ {t} PROVE Lock(u)'
      <4>1. /\ pc'[u] = pc[u] /\ job'[u] = job[u] /\ Lock(u)
            /\ job[u].cand \in Accounts /\ job[u].dest \in Accounts
        BY <2>2, <3>2
      <4>2. pc[u] = "take" => UNCHANGED <<queue[job[u].cand], mutex[job[u].cand]>>
        BY <2>2, <3>1, <4>1
      <4>3. pc[u] = "append" => UNCHANGED <<queue[job[u].dest], mutex[job[u].dest]>>
        BY <2>2, <3>1, <4>1
      <4> QED
        BY <4>1, <4>2, <4>3
    <3> QED
      BY <3>3, <3>4
<1>5. ASSUME NEW t \in Tasks, Send(t) PROVE Locks'
  <2>1. /\ pc'[t] = "return" /\ job'[t].token = job[t].token
        /\ \A u \in Tasks \ {t} : pc'[u] = pc[u] /\ job'[u] = job[u]
    BY <1>5 DEF Send, Goto, Job
  <2> QED
    <3>1. UNCHANGED <<queue, mutex>> /\ Lock(t)
      BY <1>5 DEF Send
    <3>2. Lock(t)'
      BY <2>1, <3>1, <1>5 DEF Send
    <3>3. ASSUME NEW u \in Tasks \ {t} PROVE Lock(u)'
      BY <2>1, <3>1
    <3> QED
      BY <3>2, <3>3
<1>6. ASSUME NEW t \in Tasks, Return(t) PROVE Locks'
  <2>1. job[t].dest \in Accounts
    BY DEF Job
  <2>2. /\ pc'[t] = "append" /\ job'[t].token = job[t].token
        /\ job'[t].dest = job[t].dest /\ job'[t].tokens = queue[job[t].dest]
        /\ \A u \in Tasks \ {t} : pc'[u] = pc[u] /\ job'[u] = job[u]
    BY <1>6 DEF Return, Goto, Job
  <2> QED
    <3>1. /\ queue' = queue /\ mutex[job[t].dest] = NoTask /\ pc[t] = "return"
          /\ mutex' = [mutex EXCEPT ![job[t].dest] = t]
      BY <1>6 DEF Return
    <3>2. Lock(t)'
      BY <2>1, <2>2, <3>1
    <3>3. ASSUME NEW u \in Tasks \ {t} PROVE Lock(u)'
      <4>1. job[u].cand \in Accounts /\ job[u].dest \in Accounts
        BY DEF Job
      <4>2. \A b \in Accounts : mutex[b] = u => mutex'[b] = u
        BY <2>1, <3>1
      <4> QED
        BY <2>2, <3>1, <4>1, <4>2
    <3> QED
      BY <3>2, <3>3
<1>7. ASSUME NEW t \in Tasks, AppendToken(t) PROVE Locks'
  <2>1. job[t].dest \in Accounts
    BY DEF Job
  <2>2. \A u \in Tasks \ {t} :
          /\ pc'[u] = pc[u] /\ job'[u] = job[u]
          /\ pc[u] = "take" => job[u].cand # job[t].dest
          /\ pc[u] = "append" => job[u].dest # job[t].dest
    BY <1>7 DEF AppendToken, Goto
  <2>3. pc'[t] = "idle"
    BY <1>7 DEF AppendToken, Goto
  <2> QED
    <3>1. \A b \in Accounts : b # job[t].dest => queue'[b] = queue[b] /\ mutex'[b] = mutex[b]
      BY <1>7, <2>1 DEF AppendToken
    <3>2. \A u \in Tasks : job[u].cand \in Accounts /\ job[u].dest \in Accounts
      BY DEF Job
    <3> QED
      BY <2>2, <2>3, <3>1, <3>2
<1>8. CASE (\E i \in DOMAIN pending : Execute(i)) \/ UNCHANGED vars
  BY <1>8 DEF Execute, vars, taskVars
<1> QED
  BY <1>1, <1>2, <1>3, <1>4, <1>5, <1>6, <1>7, <1>8 DEF Next, Task, Terminated

----------------------------------------------------------------------------
(* Where the tokens are. *)

\* Before the tasks run, every queue is what Mint has put there.
LEMMA OpeningPlaces ==
    Unmoved /\ minted \subseteq Accounts => Apart /\ Whole
<1> SUFFICES ASSUME Unmoved, minted \subseteq Accounts PROVE Apart /\ Whole
  OBVIOUS
<1> USE DEF Unmoved
<1>1. \A a \in Accounts : /\ a \in minted => queue[a] = Run(a)
                          /\ a \notin minted => Len(queue[a]) = 0
  OBVIOUS
<1>2. \A a \in Accounts : \A i \in 1..Len(queue[a]) :
          a \in minted /\ queue[a] = Run(a) /\ i \in 1..TokensPer
  BY <1>1, RunOfTokens
<1>3. \A a, b \in Accounts : \A i \in 1..Len(queue[a]), j \in 1..Len(queue[b]) :
          queue[a][i] = queue[b][j] => a = b /\ i = j
  <2> SUFFICES ASSUME NEW a \in Accounts, NEW b \in Accounts,
                      NEW i \in 1..Len(queue[a]), NEW j \in 1..Len(queue[b]),
                      queue[a][i] = queue[b][j]
               PROVE  a = b /\ i = j
    OBVIOUS
  <2>1. queue[a][i] \in TokensOf(a) /\ queue[b][j] \in TokensOf(b)
    BY <1>2, RunOfTokens
  <2>2. a = b
    BY <2>1, TokensApart
  <2>3. i = j
    BY <1>2, <2>2, RunOfTokens
  <2> QED
    BY <2>2, <2>3
<1>4. Apart
  BY <1>3 DEF Apart, InHand
<1>5. ASSUME NEW a \in minted, NEW k \in TokensOf(a) PROVE InQueue(k)
  BY <1>1, RunOfTokens DEF InQueue
<1> QED
  BY <1>4, <1>5 DEF Whole

\* Where nothing is moved, everything stays in its place.
LEMMA SamePlaces ==
    ASSUME Apart, Whole, UNCHANGED <<minted, queue>>,
           \A t \in Tasks : /\ InHand(t)' <=> InHand(t)
                            /\ InHand(t) => job'[t].token = job[t].token
    PROVE  Apart' /\ Whole'
<1>1. Apart'
  BY DEF Apart
<1>2. \A k : (InQueue(k)' <=> InQueue(k)) /\ (HeldBy(k)' <=> HeldBy(k))
  BY DEF InQueue, HeldBy
<1>3. Whole'
  BY <1>2 DEF Whole
<1> QED
  BY <1>1, <1>3

\* RemoveToken moves the head of a queue into the hands of the task.
LEMMA TakePlaces ==
    ASSUME TypeOK, Locks, Apart, Whole, NEW t \in Tasks, Take(t)
    PROVE  Apart' /\ Whole'
<1> DEFINE a == job[t].cand
           k == Head(queue[a])
<1> USE DEF TypeOK
<1>1. /\ a \in Accounts /\ queue[a] \in Seq(Tokens) /\ queue[a] # <<>>
      /\ queue' = [queue EXCEPT ![a] = Tail(queue[a])]
      /\ job'[t].token = k /\ pc'[t] = "send" /\ ~InHand(t) /\ minted' = minted
      /\ \A u \in Tasks \ {t} : pc'[u] = pc[u] /\ job'[u] = job[u]
  <2>1. a \in Accounts /\ queue[a] \in Seq(Tokens)
    BY DEF Job
  <2>2. pc[t] = "take" /\ job[t].tokens = queue[a] /\ queue[a] # <<>>
    BY DEF Take, Locks, Lock
  <2>3. job'[t].token = k
    BY <2>2 DEF Take
  <2> QED
    BY <2>1, <2>2, <2>3 DEF Take, InHand, Goto
<1>2. /\ Len(queue[a]) \in Nat /\ Len(queue[a]) > 0 /\ k = queue[a][1]
      /\ Len(queue'[a]) = Len(queue[a]) - 1
      /\ \A i \in 1..Len(queue'[a]) : queue'[a][i] = queue[a][i + 1]
      /\ \A b \in Accounts \ {a} : queue'[b] = queue[b]
  <2> DEFINE q == queue[a]
  <2>1. queue'[a] = Tail(q) /\ \A b \in Accounts \ {a} : queue'[b] = queue[b]
    BY <1>1
  <2>2. /\ Len(q) \in Nat /\ Len(q) > 0 /\ Head(q) = q[1] /\ Len(Tail(q)) = Len(q) - 1
        /\ \A i \in 1..(Len(q) - 1) : Tail(q)[i] = q[i + 1]
    <3> HIDE DEF a
    <3> QED
      BY <1>1
  <2> QED
    BY <2>1, <2>2
<1> HIDE DEF a, k
<1>3. \A b \in Accounts : \A i \in 1..Len(queue'[b]) :
          \E j \in 1..Len(queue[b]) : /\ queue'[b][i] = queue[b][j]
                                      /\ j = IF b = a THEN i + 1 ELSE i
  BY <1>1, <1>2
<1>4. ASSUME NEW b \in Accounts, NEW i \in 1..Len(queue'[b]) PROVE queue'[b][i] # k
  <2>1. PICK j \in 1..Len(queue[b]) : /\ queue'[b][i] = queue[b][j]
                                      /\ j = IF b = a THEN i + 1 ELSE i
    BY <1>3
  <2>2. 1 \in 1..Len(queue[a])
    BY <1>2
  <2>3. queue[b][j] = queue[a][1] => b = a /\ j = 1
    BY <1>1, <2>2 DEF Apart
  <2> QED
    BY <1>2, <2>1, <2>3
<1>5. \A u \in Tasks : InHand(u)' <=> InHand(u) \/ u = t
  BY <1>1 DEF InHand
<1>6. \A u \in Tasks : InHand(u) => u # t /\ job'[u] = job[u] /\ job[u].token # k
  BY <1>1, <1>2 DEF Apart
<1>7. Apart'
  <2>1. ASSUME NEW b \in Accounts, NEW c \in Accounts, NEW i \in 1..Len(queue'[b]),
               NEW j \in 1..Len(queue'[c]), queue'[b][i] = queue'[c][j]
        PROVE  b = c /\ i = j
    <3>1. PICK x \in 1..Len(queue[b]) : /\ queue'[b][i] = queue[b][x]
                                        /\ x = IF b = a THEN i + 1 ELSE i
      BY <1>3
    <3>2. PICK y \in 1..Len(queue[c]) : /\ queue'[c][j] = queue[c][y]
                                        /\ y = IF c = a THEN j + 1 ELSE j
      BY <1>3
    <3>3. b = c /\ x = y
      <4>1. queue[b][x] = queue[c][y]
        BY <2>1, <3>1, <3>2
      <4> QED
        BY <4>1 DEF Apart
    <3> QED
      BY <3>1, <3>2, <3>3
  <2>2. ASSUME NEW u \in Tasks, InHand(u)', NEW b \in Accounts, NEW i \in 1..Len(queue'[b])
        PROVE  queue'[b][i] # job'[u].token
    <3>1. CASE u = t
      BY <1>1, <1>4, <3>1
    <3>2. CASE u # t
      <4>1. InHand(u) /\ job'[u] = job[u]
        BY <1>5, <1>6, <2>2, <3>2
      <4>2. PICK j \in 1..Len(queue[b]) : queue'[b][i] = queue[b][j]
        BY <1>3
      <4> QED
        BY <4>1, <4>2 DEF Apart
    <3> QED
      BY <3>1, <3>2
  <2>3. ASSUME NEW u \in Tasks, InHand(u)', NEW v \in Tasks, InHand(v)',
               job'[v].token = job'[u].token
        PROVE  u = v
    BY <1>1, <1>5, <1>6, <2>3 DEF Apart
  <2> QED
    BY <2>1, <2>2, <2>3 DEF Apart
<1>8. ASSUME NEW x, InQueue(x) PROVE InQueue(x)' \/ HeldBy(x)'
  <2>1. PICK b \in Accounts : \E i \in 1..Len(queue[b]) : queue[b][i] = x
    BY <1>8 DEF InQueue
  <2>2. PICK i \in 1..Len(queue[b]) : queue[b][i] = x
    BY <2>1
  <2>3. CASE b = a /\ i = 1
    BY <1>1, <1>2, <1>5, <2>2, <2>3 DEF HeldBy
  <2>4. CASE b = a /\ i # 1
    <3>1. i - 1 \in 1..Len(queue'[a]) /\ queue'[a][i - 1] = x
      BY <1>2, <2>2, <2>4
    <3> QED
      BY <1>1, <3>1 DEF InQueue
  <2>5. CASE b # a
    BY <1>2, <2>2, <2>5 DEF InQueue
  <2> QED
    BY <2>3, <2>4, <2>5
<1>9. ASSUME NEW x, HeldBy(x) PROVE HeldBy(x)'
  BY <1>5, <1>6, <1>9 DEF HeldBy
<1>10. Whole'
  BY <1>1, <1>8, <1>9 DEF Whole
<1> QED
  BY <1>7, <1>10

\* PutToken moves the token of the task to the end of a queue.
LEMMA AppendPlaces ==
    ASSUME TypeOK, Locks, Apart, Whole, NEW t \in Tasks, AppendToken(t)
    PROVE  Apart' /\ Whole'
<1> DEFINE a == job[t].dest
           k == job[t].token
<1> USE DEF TypeOK
<1>1. /\ a \in Accounts /\ queue[a] \in Seq(Tokens) /\ k \in Tokens
      /\ queue' = [queue EXCEPT ![a] = Append(queue[a], k)]
      /\ pc'[t] = "idle" /\ InHand(t) /\ minted' = minted
      /\ \A u \in Tasks \ {t} : pc'[u] = pc[u] /\ job'[u] = job[u]
  BY DEF AppendToken, Locks, Lock, InHand, Goto, Job
<1>2. /\ Len(queue[a]) \in Nat /\ Len(queue'[a]) = Len(queue[a]) + 1
      /\ queue'[a][Len(queue[a]) + 1] = k
      /\ \A i \in 1..Len(queue[a]) : queue'[a][i] = queue[a][i]
      /\ \A b \in Accounts \ {a} : queue'[b] = queue[b]
  <2>1. queue'[a] = Append(queue[a], k) /\ \A b \in Accounts \ {a} : queue'[b] = queue[b]
    BY <1>1
  <2>2. ASSUME NEW q \in Seq(Tokens)
        PROVE  /\ Len(q) \in Nat /\ Len(Append(q, k)) = Len(q) + 1
               /\ Append(q, k)[Len(q) + 1] = k
               /\ \A i \in 1..Len(q) : Append(q, k)[i] = q[i]
    <3> HIDE DEF a, k
    <3> QED
      BY <1>1
  <2>3. queue[a] \in Seq(Tokens)
    BY <1>1
  <2> HIDE DEF a, k
  <2> QED
    BY <2>1, <2>2, <2>3
<1>3. \A b \in Accounts : \A i \in 1..Len(queue'[b]) :
          \/ b = a /\ i = Len(queue[a]) + 1 /\ queue'[b][i] = k
          \/ i \in 1..Len(queue[b]) /\ queue'[b][i] = queue[b][i] /\ queue[b][i] # k
  <2>1. \A b \in Accounts : \A i \in 1..Len(queue[b]) : queue[b][i] # k
    BY <1>1 DEF Apart
  <2>2. \A b \in Accounts : \A i \in 1..Len(queue'[b]) :
            \/ b = a /\ i = Len(queue[a]) + 1 /\ queue'[b][i] = k
            \/ i \in 1..Len(queue[b]) /\ queue'[b][i] = queue[b][i]
    <3>1. ASSUME NEW i \in 1..Len(queue'[a])
          PROVE  \/ i = Len(queue[a]) + 1 /\ queue'[a][i] = k
                 \/ i \in 1..Len(queue[a]) /\ queue'[a][i] = queue[a][i]
      <4>1. i = Len(queue[a]) + 1 \/ i \in 1..Len(queue[a])
        BY <1>2
      <4> QED
        BY <1>2, <4>1
    <3>2. ASSUME NEW b \in Accounts \ {a}, NEW i \in 1..Len(queue'[b])
          PROVE  i \in 1..Len(queue[b]) /\ queue'[b][i] = queue[b][i]
      BY <1>2
    <3> QED
      BY <3>1, <3>2
  <2> QED
    BY <2>1, <2>2
<1> HIDE DEF a
<1>5. \A u \in Tasks : InHand(u)' <=> InHand(u) /\ u # t
  BY <1>1 DEF InHand
<1>6. \A u \in Tasks : InHand(u)' => u # t /\ job'[u] = job[u] /\ job[u].token # k
  BY <1>1, <1>5 DEF Apart
<1> HIDE DEF k
<1>7. Apart'
  <2>1. ASSUME NEW b \in Accounts, NEW c \in Accounts, NEW i \in 1..Len(queue'[b]),
               NEW j \in 1..Len(queue'[c]), queue'[b][i] = queue'[c][j]
        PROVE  b = c /\ i = j
    <3>1. CASE queue'[b][i] = k
      <4> DEFINE Last(d, x) == d = a /\ x = Len(queue[a]) + 1
      <4>0. \A d \in Accounts : \A x \in 1..Len(queue'[d]) : queue'[d][x] = k => Last(d, x)
        BY <1>3
      <4> HIDE DEF Last
      <4>1. Last(b, i)
        BY <3>1, <4>0
      <4>2. Last(c, j)
        BY <2>1, <3>1, <4>0
      <4> USE DEF Last
      <4> QED
        BY <4>1, <4>2
    <3>2. CASE queue'[b][i] # k
      <4>1. /\ i \in 1..Len(queue[b]) /\ j \in 1..Len(queue[c])
            /\ queue[b][i] = queue[c][j]
        BY <1>3, <2>1, <3>2
      <4> QED
        BY <4>1 DEF Apart
    <3> QED
      BY <3>1, <3>2
  <2>2. ASSUME NEW u \in Tasks, InHand(u)', NEW b \in Accounts, NEW i \in 1..Len(queue'[b])
        PROVE  queue'[b][i] # job'[u].token
    BY <1>3, <1>5, <1>6, <2>2 DEF Apart
  <2>3. ASSUME NEW u \in Tasks, InHand(u)', NEW v \in Tasks, InHand(v)',
               job'[v].token = job'[u].token
        PROVE  u = v
    BY <1>5, <1>6, <2>3 DEF Apart
  <2> QED
    BY <2>1, <2>2, <2>3 DEF Apart
<1>8. ASSUME NEW x, InQueue(x) PROVE InQueue(x)'
  <2>1. PICK b \in Accounts : \E i \in 1..Len(queue[b]) : queue[b][i] = x
    BY <1>8 DEF InQueue
  <2>2. PICK i \in 1..Len(queue[b]) : queue[b][i] = x
    BY <2>1
  <2>3. i \in 1..Len(queue'[b]) /\ queue'[b][i] = x
    <3>1. CASE b = a
      BY <1>2, <2>2, <3>1
    <3>2. CASE b # a
      BY <1>2, <2>2, <3>2
    <3> QED
      BY <3>1, <3>2
  <2> QED
    BY <2>3 DEF InQueue
<1>9. ASSUME NEW x, HeldBy(x) PROVE InQueue(x)' \/ HeldBy(x)'
  <2>1. PICK u \in Tasks : InHand(u) /\ job[u].token = x
    BY <1>9 DEF HeldBy
  <2>2. CASE u = t
    <3>1. Len(queue[a]) + 1 \in 1..Len(queue'[a]) /\ queue'[a][Len(queue[a]) + 1] = x
      BY <1>2, <2>1, <2>2 DEF k
    <3> QED
      BY <1>1, <3>1 DEF InQueue
  <2>3. CASE u # t
    BY <1>5, <1>6, <2>1, <2>3 DEF HeldBy
  <2> QED
    BY <2>2, <2>3
<1>10. Whole'
  BY <1>1, <1>8, <1>9 DEF Whole
<1> QED
  BY <1>7, <1>10

\* What else a step does leaves the tokens where they are.
LEMMA PlacesStep ==
    TypeOK /\ Opening /\ Locks /\ Apart /\ Whole /\ [Next]_vars => Apart' /\ Whole'
<1> SUFFICES ASSUME TypeOK, Opening, Locks, Apart, Whole, [Next]_vars
             PROVE  Apart' /\ Whole'
  OBVIOUS
<1>1. ASSUME NEW a \in Accounts, Mint(a) PROVE Apart' /\ Whole'
  <2>1. minted # Accounts /\ minted \subseteq Accounts /\ minted' = minted \cup {a}
    BY <1>1 DEF Mint, TypeOK
  <2>2. \A t \in Tasks : pc'[t] = "idle"
    BY <1>1, <2>1 DEF Opening, Unmoved, Mint, taskVars
  <2>3. queue' = [queue EXCEPT ![a] = Run(a)]
    BY <1>1 DEF Mint, Run
  <2>4. Unmoved'
    BY <2>1, <2>2, <2>3 DEF Opening, Unmoved
  <2>5. (minted \subseteq Accounts)'
    BY <2>1
  <2> QED
    BY <2>4, <2>5, OpeningPlaces, PTL
<1>2. ASSUME NEW t \in Tasks, Begin(t) \/ Search(t) \/ Send(t) \/ Return(t)
      PROVE  Apart' /\ Whole'
  <2>1. UNCHANGED <<minted, queue>>
    BY <1>2 DEF Begin, Search, Send, Return
  <2>2. \A u \in Tasks \ {t} : pc'[u] = pc[u] /\ job'[u] = job[u]
    BY <1>2 DEF Begin, Search, Send, Return, Goto, TypeOK
  <2>3. CASE Begin(t) \/ Search(t)
    <3>1. ~InHand(t) /\ ~InHand(t)'
      BY <2>3 DEF Begin, Search, Goto, TypeOK, InHand
    <3> QED
      BY <2>1, <2>2, <3>1, SamePlaces DEF InHand
  <2>4. CASE Send(t) \/ Return(t)
    <3>1. InHand(t) /\ InHand(t)'
      BY <2>4 DEF Send, Return, Goto, TypeOK, InHand
    <3>2. job'[t].token = job[t].token
      BY <2>4 DEF Send, Return, TypeOK, Job
    <3> QED
      BY <2>1, <2>2, <3>1, <3>2, SamePlaces DEF InHand
  <2> QED
    BY <1>2, <2>3, <2>4
<1>3. ASSUME NEW t \in Tasks, Take(t) \/ AppendToken(t) PROVE Apart' /\ Whole'
  BY <1>3, TakePlaces, AppendPlaces
<1>4. CASE (\E i \in DOMAIN pending : Execute(i)) \/ UNCHANGED vars
  <2>1. UNCHANGED <<minted, queue, pc, job>>
    BY <1>4 DEF Execute, vars, taskVars
  <2> QED
    BY <2>1, SamePlaces DEF InHand
<1> QED
  BY <1>1, <1>2, <1>3, <1>4 DEF Next, Task, Terminated

----------------------------------------------------------------------------
(* Who sends a token. *)

\* The step fails on token k: its mint, or the answer to its transfer.
Loses(k) ==
    /\ faults' # faults
    /\ \/ \E a \in Accounts : Mint(a) /\ k \in TokensOf(a)
       \/ \E t \in Tasks : Send(t) /\ job[t].token = k

LEMMA FaultsStep == TypeOK /\ [Next]_vars => faults' = faults \/ faults' = faults + 1
<1> SUFFICES ASSUME TypeOK, [Next]_vars PROVE faults' = faults \/ faults' = faults + 1
  OBVIOUS
<1>1. ASSUME NEW t \in Tasks, Task(t) PROVE faults' = faults \/ faults' = faults + 1
  BY <1>1 DEF Task, Begin, Search, Take, Send, Return, AppendToken
<1> QED
  BY <1>1 DEF Next, Mint, Execute, Terminated, vars

LEMMA TracksStep ==
    ASSUME TypeOK, Opening, Locks, Apart, NEW k \in Tokens, Tracks(k), [Next]_vars, ~Loses(k)
    PROVE  Tracks(k)'
<1> DEFINE InQ == \A a \in Accounts : \A i \in 1..Len(queue[a]) : queue[a][i] = k => last[k] = a
           Hand(t) == job[t].token = k =>
                        /\ pc[t] = "send" => last[k] = job[t].cand
                        /\ pc[t] \in {"return", "append"} => last[k] = job[t].dest
<1> SUFFICES InQ' /\ \A t \in Tasks : Hand(t)'
  BY DEF Tracks
<1>i. InQ /\ \A t \in Tasks : Hand(t)
  BY DEF Tracks
<1>f. faults \in Nat
  BY DEF TypeOK
<1>1. ASSUME NEW a \in Accounts, Mint(a) PROVE InQ' /\ \A t \in Tasks : Hand(t)'
  <2>1. /\ minted # Accounts /\ minted' = minted \cup {a} /\ a \notin minted
        /\ queue' = [queue EXCEPT ![a] = Run(a)] /\ pc' = pc
    BY <1>1 DEF Mint, Run, taskVars, TypeOK
  <2>2. /\ \A t \in Tasks : pc'[t] = "idle"
        /\ \A b \in Accounts : queue[b] = IF b \in minted THEN Run(b) ELSE <<>>
    BY <2>1 DEF Opening, Unmoved
  <2>3. k \in TokensOf(a) => last'[k] = a
    <3>1. k \in TokensOf(a) => faults' # faults + 1
      BY <1>1, <1>f DEF Loses
    <3> QED
      BY <1>1, <3>1 DEF Mint, Accept
  <2>4. k \notin TokensOf(a) => last'[k] = last[k]
    BY <1>1 DEF Mint, Accept, nodeVars
  <2>5. ASSUME NEW b \in Accounts, NEW i \in 1..Len(queue'[b]), queue'[b][i] = k
        PROVE  last'[k] = b
    <3>1. CASE b = a
      <4>1. k \in TokensOf(a)
        BY <2>1, <2>5, <3>1, RunOfTokens DEF TypeOK
      <4> QED
        BY <2>3, <3>1, <4>1
    <3>2. CASE b # a
      <4>1. queue'[b] = queue[b] /\ b \in minted /\ queue[b] = Run(b)
        BY <2>1, <2>2, <2>5, <3>2 DEF TypeOK
      <4>2. k \in TokensOf(b)
        BY <2>5, <4>1, RunOfTokens
      <4>3. k \notin TokensOf(a)
        BY <3>2, <4>2, TokensApart
      <4> QED
        BY <1>i, <2>4, <2>5, <4>1, <4>3
    <3> QED
      BY <3>1, <3>2
  <2> QED
    BY <2>2, <2>5
<1>2. ASSUME NEW t \in Tasks, Begin(t) \/ Search(t) \/ Return(t)
      PROVE  InQ' /\ \A u \in Tasks : Hand(u)'
  <2>1. UNCHANGED <<queue, last>>
    BY <1>2 DEF Begin, Search, Return, nodeVars
  <2>2. \A u \in Tasks \ {t} : pc'[u] = pc[u] /\ job'[u] = job[u]
    BY <1>2 DEF Begin, Search, Return, Goto, TypeOK
  <2>3. CASE Begin(t) \/ Search(t)
    <3>1. pc'[t] \in {"search", "take", "idle"}
      BY <2>3 DEF Begin, Search, Goto, TypeOK
    <3> QED
      BY <1>i, <2>1, <2>2, <3>1
  <2>4. CASE Return(t)
    <3>1. /\ pc[t] = "return" /\ pc'[t] = "append"
          /\ job'[t].token = job[t].token /\ job'[t].dest = job[t].dest
      BY <2>4 DEF Return, Goto, TypeOK, Job
    <3> QED
      BY <1>i, <2>1, <2>2, <3>1
  <2> QED
    BY <1>2, <2>3, <2>4
<1>3. ASSUME NEW t \in Tasks, Take(t) PROVE InQ' /\ \A u \in Tasks : Hand(u)'
  <2>1. /\ job[t].cand \in Accounts /\ queue[job[t].cand] \in Seq(Tokens)
        /\ pc[t] = "take" /\ job[t].tokens = queue[job[t].cand]
        /\ queue[job[t].cand] # <<>>
    BY <1>3 DEF Take, Locks, Lock, TypeOK, Job
  <2>2. /\ last' = last /\ pc'[t] = "send"
        /\ queue' = [queue EXCEPT ![job[t].cand] = Tail(queue[job[t].cand])]
        /\ \A u \in Tasks \ {t} : pc'[u] = pc[u] /\ job'[u] = job[u]
    BY <1>3, <2>1 DEF Take, Goto, TypeOK, nodeVars
  <2>3. job'[t].token = queue[job[t].cand][1] /\ job'[t].cand = job[t].cand
    BY <1>3, <2>1 DEF Take, TypeOK, Job
  <2>4. 1 \in 1..Len(queue[job[t].cand])
    BY <2>1
  <2>5. InQ'
    BY <1>i, <2>1, <2>2 DEF TypeOK
  <2>6. Hand(t)'
    BY <1>i, <2>1, <2>2, <2>3, <2>4
  <2> QED
    BY <1>i, <2>2, <2>5, <2>6
<1>4. ASSUME NEW t \in Tasks, Send(t) PROVE InQ' /\ \A u \in Tasks : Hand(u)'
  <2>1. /\ InHand(t) /\ job[t].cand \in Accounts /\ pc[t] = "send"
        /\ queue' = queue /\ pc'[t] = "return"
        /\ \A u \in Tasks \ {t} : pc'[u] = pc[u] /\ job'[u] = job[u]
    BY <1>4 DEF Send, Goto, InHand, TypeOK, Job
  <2>2. job'[t].token = job[t].token
    BY <1>4 DEF Send, TypeOK, Job
  <2>3. CASE k # job[t].token
    <3>1. last'[k] = last[k]
      BY <1>4, <2>3 DEF Send, Accept, nodeVars
    <3> QED
      BY <1>i, <2>1, <2>2, <2>3, <3>1
  <2>4. CASE k = job[t].token
    <3>1. PICK to \in Accounts :
              /\ job' = [job EXCEPT ![t].dest = to]
              /\ \/ last' = last /\ to = job[t].cand
                 \/ last'[k] = to
      <4>1. \/ \E to \in Accounts : /\ Accept({k}, job[t].cand, to)
                                    /\ job' = [job EXCEPT ![t].dest = to]
            \/ /\ UNCHANGED nodeVars
               /\ job' = [job EXCEPT ![t].dest = job[t].cand]
        <5>1. faults' # faults + 1
          BY <1>4, <1>f, <2>4 DEF Loses
        <5> QED
          BY <1>4, <2>4, <5>1 DEF Send
      <4> QED
        BY <2>1, <4>1 DEF Accept, nodeVars
    <3>2. job'[t].dest = to
      BY <3>1 DEF TypeOK, Job
    <3>3. last'[k] = to
      BY <1>i, <2>1, <2>4, <3>1
    <3>4. InQ'
      BY <2>1, <2>4 DEF Apart
    <3>5. \A u \in Tasks \ {t} : InHand(u) => job[u].token # k
      BY <2>1, <2>4 DEF Apart
    <3> QED
      BY <2>1, <3>2, <3>3, <3>4, <3>5 DEF InHand
  <2> QED
    BY <2>3, <2>4
<1>5. ASSUME NEW t \in Tasks, AppendToken(t) PROVE InQ' /\ \A u \in Tasks : Hand(u)'
  <2>1. /\ job[t].dest \in Accounts /\ queue[job[t].dest] \in Seq(Tokens)
        /\ pc[t] = "append" /\ job[t].tokens = queue[job[t].dest] /\ job[t].token \in Tokens
    BY <1>5 DEF AppendToken, Locks, Lock, InHand, TypeOK, Job
  <2>2. /\ last' = last /\ pc'[t] = "idle"
        /\ queue' = [queue EXCEPT ![job[t].dest] = Append(queue[job[t].dest], job[t].token)]
        /\ \A u \in Tasks \ {t} : pc'[u] = pc[u] /\ job'[u] = job[u]
    BY <1>5, <2>1 DEF AppendToken, Goto, TypeOK, nodeVars
  <2>3. InQ'
    <3> SUFFICES ASSUME NEW a \in Accounts, NEW i \in 1..Len(queue'[a]), queue'[a][i] = k
                 PROVE  last[k] = a
      BY <2>2
    <3>1. CASE a = job[t].dest
      <4>1. \/ i \in 1..Len(queue[a]) /\ queue'[a][i] = queue[a][i]
            \/ queue'[a][i] = job[t].token
        BY <2>1, <2>2, <3>1 DEF TypeOK
      <4> QED
        BY <1>i, <2>1, <3>1, <4>1
    <3>2. CASE a # job[t].dest
      BY <1>i, <2>2, <3>2 DEF TypeOK
    <3> QED
      BY <3>1, <3>2
  <2> QED
    BY <1>i, <2>2, <2>3
<1>6. CASE (\E i \in DOMAIN pending : Execute(i)) \/ UNCHANGED vars
  <2>1. UNCHANGED <<queue, pc, job, last>>
    BY <1>6 DEF Execute, vars, taskVars, nodeVars
  <2> QED
    BY <1>i, <2>1
<1> QED
  BY <1>1, <1>2, <1>3, <1>4, <1>5, <1>6 DEF Next, Task, Terminated

LEMMA FollowedStep ==
    TypeOK /\ Opening /\ Locks /\ Apart /\ Followed /\ [Next]_vars => Followed'
<1> SUFFICES ASSUME TypeOK, Opening, Locks, Apart, Followed, [Next]_vars, faults' = 0,
                    NEW k \in Tokens
             PROVE  Tracks(k)'
  BY DEF Followed
<1>1. faults = 0
  BY FaultsStep DEF TypeOK
<1> QED
  BY <1>1, TracksStep DEF Followed, Loses

----------------------------------------------------------------------------
LEMMA InitInv == Init => IInv
<1> SUFFICES ASSUME Init PROVE IInv
  OBVIOUS
<1>1. TypeOK
  BY InitType
<1>2. Unmoved
  BY DEF Init, Unmoved
<1>3. Apart /\ Whole
  BY <1>1, <1>2, OpeningPlaces DEF TypeOK
<1>4. Locks /\ Followed
  BY DEF Init, Locks, Lock, Followed, Tracks, InHand
<1> QED
  BY <1>1, <1>2, <1>3, <1>4 DEF IInv, Opening

LEMMA NextInv == IInv /\ [Next]_vars => IInv'
  BY NextType, OpeningStep, LocksStep, PlacesStep, FollowedStep DEF IInv

\* Every reachable state satisfies the invariant.
THEOREM Invariance == Spec => []IInv
<1> QED BY InitInv, NextInv, PTL DEF Spec

\* Every reachable state has the declared types: only a task that has loaded a
\* token takes one (erc721_ledger.go:60-66).
THEOREM TypeCorrect == Spec => []TypeOK
<1>1. IInv => TypeOK
  BY DEF IInv
<1> QED
  BY <1>1, Invariance, PTL

\* As there is one of each, no queue is longer than there are tokens.
LEMMA QueueBounded ==
    ASSUME TypeOK, Apart, NEW a \in Accounts
    PROVE  Len(queue[a]) <= NumAccounts * TokensPer
<1>1. NumAccounts * TokensPer \in Nat /\ Len(queue[a]) \in Nat
  BY DEF TypeOK
<1>2. IsFiniteSet(Tokens) /\ Cardinality(Tokens) = NumAccounts * TokensPer
  <2>1. \A z \in Nat : IsFiniteSet(0..(z - 1)) /\ Cardinality(0..(z - 1)) = z
    BY FS_Interval
  <2> QED
    BY <1>1, <2>1 DEF Tokens
<1>3. IsFiniteSet(1..Len(queue[a])) /\ Cardinality(1..Len(queue[a])) = Len(queue[a])
  BY <1>1, FS_Interval
<1> DEFINE f == [i \in 1..Len(queue[a]) |-> queue[a][i]]
<1>4. f \in Injection(1..Len(queue[a]), Tokens)
  BY DEF TypeOK, Apart, Injection, IsInjective
<1> QED
  BY <1>1, <1>2, <1>3, <1>4, FS_Injection DEF ExistsInjection

\* The ledger of a slave neither loses nor doubles a token, however the tasks
\* cross each other's accounts, and whatever becomes of their transfers
\* (erc721_ledger.go:44-89).
THEOREM OnePlaceAlways == Spec => []OnePlace
<1>1. IInv => OnePlace
  <2> SUFFICES ASSUME IInv, NEW a \in minted, NEW k \in TokensOf(a)
               PROVE  Cardinality(Places(k)) = 1
    BY DEF OnePlace
  <2> USE DEF IInv
  <2>1. k \in Tokens /\ k # NoToken
    BY TokensApart DEF TypeOK, Tokens, NoToken
  <2>2. \A b \in Accounts : /\ Len(queue[b]) \in Nat /\ DOMAIN queue[b] = 1..Len(queue[b])
                            /\ Len(queue[b]) <= NumAccounts * TokensPer
    BY QueueBounded DEF TypeOK
  <2> DEFINE At(b, i) == i \in 1..Len(queue[b]) /\ queue[b][i] = k
             In(t)    == InHand(t) /\ job[t].token = k
  <2>3. Places(k) = {p \in Accounts \X (1..(NumAccounts * TokensPer)) : At(p[1], p[2])}
                    \cup {<<t>> : t \in {u \in Tasks : In(u)}}
    BY <2>1, <2>2 DEF Places, Held, InHand
  <2>4. InQueue(k) \/ HeldBy(k)
    BY DEF Whole
  <2>5. \E p : Places(k) = {p}
    <3>1. CASE InQueue(k)
      <4>1. PICK b \in Accounts : \E i \in 1..Len(queue[b]) : queue[b][i] = k
        BY <3>1 DEF InQueue
      <4>2. PICK i \in 1..Len(queue[b]) : queue[b][i] = k
        BY <4>1
      <4>3. i \in 1..(NumAccounts * TokensPer)
        BY <2>2
      <4>4. \A t \in Tasks : ~In(t)
        BY <4>2 DEF Apart
      <4>5. \A c \in Accounts : \A j : At(c, j) => c = b /\ j = i
        BY <4>2 DEF Apart
      <4> HIDE DEF At, In
      <4>6. Places(k) = {p \in Accounts \X (1..(NumAccounts * TokensPer)) : At(p[1], p[2])}
        BY <2>3, <4>4
      <4>7. At(b, i)
        BY <4>2 DEF At
      <4>8. Places(k) = {<<b, i>>}
        BY <4>3, <4>5, <4>6, <4>7
      <4> QED
        BY <4>8
    <3>2. CASE HeldBy(k)
      <4>1. PICK t \in Tasks : In(t)
        BY <3>2 DEF HeldBy
      <4>2. \A u \in Tasks : In(u) => u = t
        BY <4>1 DEF Apart
      <4>3. \A c \in Accounts : \A j : ~At(c, j)
        BY <4>1 DEF Apart
      <4> HIDE DEF At, In
      <4>4. {p \in Accounts \X (1..(NumAccounts * TokensPer)) : At(p[1], p[2])} = {}
        BY <4>3
      <4>5. {u \in Tasks : In(u)} = {t}
        BY <4>1, <4>2
      <4>6. Places(k) = {<<t>>}
        BY <2>3, <4>4, <4>5
      <4> QED
        BY <4>6
    <3> QED
      BY <2>4, <3>1, <3>2
  <2> QED
    BY <2>5, FS_Singleton
<1> QED
  BY <1>1, Invariance, PTL

\* While no answer is lost, a transfer is sent by the recipient of the token's
\* last accepted transfer, and the ledger has the token where that one went
\* (run_execute_contract.go:136-144).
THEOREM CustodyAlways == Spec => []Custody
<1>1. IInv => Custody
  <2> SUFFICES ASSUME IInv PROVE Custody
    OBVIOUS
  <2>1. \A a \in Accounts : /\ DOMAIN queue[a] = 1..Len(queue[a])
                            /\ \A i \in 1..Len(queue[a]) : queue[a][i] \in Tokens
    BY DEF IInv, TypeOK
  <2>2. \A t \in Tasks : pc[t] = "send" => job[t].token \in Tokens
    BY DEF IInv, Locks, Lock, InHand
  <2> QED
    BY <2>1, <2>2 DEF IInv, Followed, Tracks, Custody
<1> QED
  BY <1>1, Invariance, PTL

\* Tokens leave an account in the order in which they came, whatever the tasks
\* do between the load and the store of its queue (erc721_ledger.go:65).
THEOREM FIFOAlways == Spec => FIFO
<1>1. IInv /\ [Next]_vars => [InOrder]_vars
  <2> SUFFICES ASSUME IInv, Next, NEW a \in minted
               PROVE  \/ queue'[a] = queue[a]
                      \/ \E t \in Tasks : /\ queue[a] # <<>>
                                          /\ queue'[a] = Tail(queue[a])
                                          /\ job'[t].token = Head(queue[a])
                      \/ \E k \in Tokens : queue'[a] = Append(queue[a], k)
    BY DEF InOrder
  <2> USE DEF IInv, TypeOK
  <2>1. ASSUME NEW b \in Accounts, Mint(b) PROVE queue'[a] = queue[a]
    BY <2>1 DEF Mint
  <2>2. ASSUME NEW t \in Tasks, Begin(t) \/ Search(t) \/ Send(t) \/ Return(t)
        PROVE  queue' = queue
    BY <2>2 DEF Begin, Search, Send, Return
  <2>3. ASSUME NEW t \in Tasks, Take(t)
        PROVE  \/ queue'[a] = queue[a]
               \/ /\ queue[a] # <<>> /\ queue'[a] = Tail(queue[a])
                  /\ job'[t].token = Head(queue[a])
    <3>1. /\ job[t].tokens = queue[job[t].cand] /\ queue[job[t].cand] # <<>>
          /\ queue' = [queue EXCEPT ![job[t].cand] = Tail(job[t].tokens)]
          /\ job'[t].token = Head(job[t].tokens)
      BY <2>3 DEF Take, Locks, Lock, Job
    <3> QED
      BY <3>1
  <2>4. ASSUME NEW t \in Tasks, AppendToken(t)
        PROVE  \/ queue'[a] = queue[a]
               \/ job[t].token \in Tokens /\ queue'[a] = Append(queue[a], job[t].token)
    <3>1. /\ job[t].tokens = queue[job[t].dest] /\ job[t].token \in Tokens
          /\ queue' = [queue EXCEPT ![job[t].dest] = Append(job[t].tokens, job[t].token)]
      BY <2>4 DEF AppendToken, Locks, Lock, InHand
    <3> QED
      BY <3>1
  <2> QED
    BY <2>1, <2>2, <2>3, <2>4 DEF Next, Task, Execute, Terminated, vars
<1> QED
  BY <1>1, Invariance, PTL DEF Spec, FIFO

----------------------------------------------------------------------------
(* What the chain makes of it, where blocks keep the order of acceptance:  *)
(* the first pending transaction is the only one to be executed.           *)

Txs == [tokens : SUBSET Tokens, from : Accounts \cup {Reservoir}, to : Accounts]

\* The node accepts a transfer from the one that will own the token.
LEMMA AcceptLeads ==
    ASSUME NEW txs \in Seq(Txs), NEW own, NEW k, NEW end, Leads(txs, own, k, end),
           NEW tx \in Txs, k \in tx.tokens => tx.from = Reservoir \/ tx.from = end
    PROVE  Leads(Append(txs, tx), own, k, IF k \in tx.tokens THEN tx.to ELSE end)
<1> DEFINE m == Len(txs)
           new == Append(txs, tx)
<1>1. m \in Nat /\ Len(new) = m + 1 /\ new[m + 1] = tx /\ \A i \in 1..m : new[i] = txs[i]
  OBVIOUS
<1>2. \A i \in 1..m : k \in txs[i].tokens =>
          txs[i].from = Reservoir \/ OwnedAfter(txs, own, k, i - 1, txs[i].from)
  BY DEF Leads
<1>3. OwnedAfter(txs, own, k, m, end)
  BY DEF Leads
<1> HIDE DEF new, m
<1>4. \A i \in 0..m : \A v : OwnedAfter(txs, own, k, i, v) => OwnedAfter(new, own, k, i, v)
  BY <1>1 DEF OwnedAfter
<1>5. ASSUME NEW i \in 1..(m + 1), k \in new[i].tokens
      PROVE  new[i].from = Reservoir \/ OwnedAfter(new, own, k, i - 1, new[i].from)
  <2>1. CASE i = m + 1
    <3>1. tx.from = Reservoir \/ OwnedAfter(new, own, k, m, tx.from)
      BY <1>1, <1>3, <1>4, <1>5, <2>1
    <3> QED
      BY <1>1, <2>1, <3>1
  <2>2. CASE i # m + 1
    <3>1. i \in 1..m /\ i - 1 \in 0..m /\ new[i] = txs[i]
      BY <1>1, <2>2
    <3> QED
      BY <1>2, <1>4, <1>5, <3>1
  <2> QED
    BY <2>1, <2>2
<1>6. CASE k \in tx.tokens
  <2>1. OwnedAfter(new, own, k, m + 1, tx.to)
    BY <1>1, <1>6 DEF OwnedAfter
  <2> QED
    BY <1>1, <1>5, <1>6, <2>1 DEF Leads, new
<1>7. CASE k \notin tx.tokens
  <2>1. OwnedAfter(new, own, k, m + 1, end)
    BY <1>1, <1>3, <1>7 DEF OwnedAfter
  <2> QED
    BY <1>1, <1>5, <1>7, <2>1 DEF Leads, new
<1> QED
  BY <1>6, <1>7

\* The first transaction is executed: it gives the token where it said.
LEMMA ExecuteLeads ==
    ASSUME NEW txs \in Seq(Txs), Len(txs) >= 1, NEW own, NEW k, NEW end,
           Leads(txs, own, k, end), NEW rest, Len(rest) = Len(txs) - 1,
           \A j \in 1..Len(rest) : rest[j] = txs[j + 1],
           NEW new, new = IF /\ k \in txs[1].tokens
                             /\ txs[1].from = Reservoir \/ own = txs[1].from
                          THEN txs[1].to ELSE own
    PROVE  Leads(rest, new, k, end)
<1> DEFINE m == Len(txs)
<1>1. m \in Nat
  OBVIOUS
<1>2. \A i \in 1..m : k \in txs[i].tokens =>
          txs[i].from = Reservoir \/ OwnedAfter(txs, own, k, i - 1, txs[i].from)
  BY DEF Leads
<1>3. OwnedAfter(txs, own, k, m, end)
  BY DEF Leads
<1> HIDE DEF m
<1>4. k \in txs[1].tokens => new = txs[1].to
  <2>1. OwnedAfter(txs, own, k, 0, txs[1].from) => own = txs[1].from
    BY DEF OwnedAfter
  <2>2. 1 \in 1..m
    BY DEF m
  <2> QED
    BY <1>2, <2>1, <2>2
<1>5. ASSUME NEW j \in 0..(m - 1), NEW v, OwnedAfter(txs, own, k, j + 1, v)
      PROVE  OwnedAfter(rest, new, k, j, v)
  <2>1. \A x \in 1..j : rest[x] = txs[x + 1] /\ x + 1 \in 1..(j + 1)
    BY <1>1 DEF m
  <2>2. CASE \A x \in 1..(j + 1) : k \notin txs[x].tokens
    <3>1. own = v /\ k \notin txs[1].tokens
      BY <1>5, <2>2 DEF OwnedAfter
    <3> QED
      BY <2>1, <2>2, <3>1 DEF OwnedAfter
  <2>3. ASSUME NEW x \in 1..(j + 1), k \in txs[x].tokens, txs[x].to = v,
               \A y \in 1..(j + 1) : k \in txs[y].tokens => y <= x
        PROVE  OwnedAfter(rest, new, k, j, v)
    <3>1. CASE x = 1
      <4>1. \A y \in 1..j : k \notin rest[y].tokens
        BY <2>1, <2>3, <3>1
      <4> QED
        BY <1>4, <2>3, <3>1, <4>1 DEF OwnedAfter
    <3>2. CASE x # 1
      <4>1. x - 1 \in 1..j /\ rest[x - 1] = txs[x]
        BY <2>1, <3>2
      <4>2. \A y \in 1..j : k \in rest[y].tokens => y <= x - 1
        BY <2>1, <2>3
      <4> QED
        BY <2>3, <4>1, <4>2 DEF OwnedAfter
    <3> QED
      BY <3>1, <3>2
  <2> QED
    BY <1>5, <2>2, <2>3 DEF OwnedAfter
<1>6. ASSUME NEW j \in 1..(m - 1), k \in rest[j].tokens
      PROVE  rest[j].from = Reservoir \/ OwnedAfter(rest, new, k, j - 1, rest[j].from)
  <2>1. j + 1 \in 1..m /\ rest[j] = txs[j + 1] /\ j - 1 \in 0..(m - 1)
    BY <1>1 DEF m
  <2>2. rest[j].from = Reservoir \/ OwnedAfter(txs, own, k, j, rest[j].from)
    BY <1>2, <1>6, <2>1
  <2> QED
    BY <1>5, <2>1, <2>2
<1>7. OwnedAfter(rest, new, k, m - 1, end)
  <2>1. m - 1 \in 0..(m - 1) /\ m - 1 + 1 = m
    BY <1>1 DEF m
  <2> QED
    BY <1>3, <1>5, <2>1
<1> QED
  BY <1>6, <1>7 DEF Leads, m

\* The first pending transaction, and no other, is executed.
LEMMA ExecuteFirst ==
    ASSUME ~Reorder, pending \in Seq(Txs), NEW i \in DOMAIN pending, Execute(i)
    PROVE  /\ Len(pending) >= 1 /\ Len(pending') = Len(pending) - 1
           /\ \A j \in 1..Len(pending') : pending'[j] = pending[j + 1]
           /\ last' = last
           /\ owner' = [k \in Tokens |->
                 IF /\ k \in pending[1].tokens
                    /\ pending[1].from = Reservoir \/ owner[k] = pending[1].from
                 THEN pending[1].to ELSE owner[k]]
<1>1. i = 1 /\ Len(pending) >= 1
  BY DEF Execute, Executable
<1> DEFINE rest == SubSeq(pending, 2, Len(pending))
<1>2. pending' = SubSeq(pending, 1, 0) \o rest
  BY <1>1 DEF Execute
<1>3. Len(pending) \in Nat /\ \A j \in 1..Len(pending) : pending[j] \in Txs
  OBVIOUS
<1>4. SubSeq(pending, 1, 0) \in Seq(Txs) /\ Len(SubSeq(pending, 1, 0)) = 0
  BY SubSeqProperties
<1>5. /\ rest \in Seq(Txs)
      /\ Len(rest) = IF 2 <= Len(pending) THEN Len(pending) - 2 + 1 ELSE 0
      /\ \A j \in 1..(Len(pending) - 2 + 1) : rest[j] = pending[2 + j - 1]
  BY <1>3, SubSeqProperties
<1> HIDE DEF rest
<1>6. Len(rest) = Len(pending) - 1 /\ \A j \in 1..Len(rest) : rest[j] = pending[j + 1]
  <2>1. Len(rest) = Len(pending) - 1
    <3>1. \A m \in Nat : m >= 1 => (IF 2 <= m THEN m - 2 + 1 ELSE 0) = m - 1
      OBVIOUS
    <3> QED
      BY <1>1, <1>3, <1>5, <3>1
  <2>2. \A j \in 1..Len(rest) : j \in 1..(Len(pending) - 2 + 1) /\ 2 + j - 1 = j + 1
    BY <1>3, <2>1
  <2>3. ASSUME NEW j \in 1..Len(rest) PROVE rest[j] = pending[j + 1]
    <3>1. rest[j] = pending[2 + j - 1] /\ 2 + j - 1 = j + 1
      BY <1>5, <2>2
    <3> QED
      BY <3>1
  <2> QED
    BY <2>1, <2>3
<1>7. /\ Len(pending') = 0 + Len(rest)
      /\ \A j \in 1..(0 + Len(rest)) : pending'[j] = IF j <= 0 THEN SubSeq(pending, 1, 0)[j]
                                                              ELSE rest[j - 0]
  BY <1>2, <1>4, <1>5, ConcatProperties
<1>8. /\ last' = last
      /\ owner' = [k \in Tokens |->
            IF /\ k \in pending[1].tokens
               /\ pending[1].from = Reservoir \/ owner[k] = pending[1].from
            THEN pending[1].to ELSE owner[k]]
  BY <1>1 DEF Execute
<1> QED
  BY <1>1, <1>3, <1>6, <1>7, <1>8

\* What a step does to the node: nothing, or it accepts a mint or a transfer, or
\* it executes a transaction.
LEMMA NodeSteps ==
    ASSUME IInv, [Next]_vars
    PROVE  \/ UNCHANGED nodeVars /\ (faults' # faults => \E a \in Accounts : Mint(a))
           \/ \E a \in Accounts : Mint(a) /\ Accept(TokensOf(a), Reservoir, a) /\ faults' = faults
           \/ \E t \in Tasks, to \in Accounts :
                 Send(t) /\ Accept({job[t].token}, job[t].cand, to)
           \/ (\E i \in DOMAIN pending : Execute(i)) /\ faults' = faults
<1> USE DEF IInv
<1>1. ASSUME NEW t \in Tasks, Task(t), ~Send(t) PROVE UNCHANGED <<nodeVars, faults>>
  BY <1>1 DEF Task, Begin, Search, Take, Return, AppendToken, nodeVars
<1>2. ASSUME NEW t \in Tasks, Send(t)
      PROVE  \/ UNCHANGED <<nodeVars, faults>>
             \/ \E to \in Accounts : Accept({job[t].token}, job[t].cand, to)
  BY <1>2 DEF Send, nodeVars
<1>3. ASSUME NEW a \in Accounts, Mint(a)
      PROVE  UNCHANGED nodeVars \/ (Accept(TokensOf(a), Reservoir, a) /\ faults' = faults)
  BY <1>3 DEF Mint, nodeVars
<1>4. CASE \E i \in DOMAIN pending : Execute(i)
  BY <1>4 DEF Execute
<1>5. CASE UNCHANGED vars
  BY <1>5 DEF vars, nodeVars
<1> QED
  BY <1>1, <1>2, <1>3, <1>4, <1>5 DEF Next, Terminated

LEMMA LeadsStep ==
    ASSUME ~Reorder, IInv, NEW k \in Tokens, Sound(k), [Next]_vars
    PROVE  Leads(pending', owner'[k], k, last'[k])
<1> USE DEF IInv, TypeOK
<1>p. Leads(pending, owner[k], k, last[k])
  BY DEF Sound
<1>t. pending \in Seq(Txs)
  BY DEF Txs
<1>1. ASSUME NEW ks \in SUBSET Tokens, NEW from \in Accounts \cup {Reservoir},
             NEW to \in Accounts, Accept(ks, from, to),
             k \in ks => from = Reservoir \/ from = last[k]
      PROVE  Leads(pending', owner'[k], k, last'[k])
  <2> DEFINE tx == [tokens |-> ks, from |-> from, to |-> to]
  <2>1. /\ pending' = Append(pending, tx) /\ owner' = owner
        /\ last'[k] = IF k \in tx.tokens THEN tx.to ELSE last[k]
    BY <1>1 DEF Accept
  <2>2. tx \in Txs /\ (k \in tx.tokens => tx.from = Reservoir \/ tx.from = last[k])
    BY <1>1 DEF Txs
  <2> HIDE DEF tx, IInv, TypeOK
  <2> QED
    BY <1>p, <1>t, <2>1, <2>2, AcceptLeads
<1>2. CASE UNCHANGED nodeVars
  BY <1>2, <1>p DEF nodeVars
<1>3. ASSUME NEW a \in Accounts, Mint(a), ~UNCHANGED nodeVars
      PROVE  Leads(pending', owner'[k], k, last'[k])
  <2>1. Accept(TokensOf(a), Reservoir, a)
    BY <1>3 DEF Mint
  <2> QED
    BY <1>1, <2>1, TokensApart
<1>4. ASSUME NEW t \in Tasks, Send(t), ~UNCHANGED nodeVars
      PROVE  Leads(pending', owner'[k], k, last'[k])
  <2>1. pc[t] = "send"
    BY <1>4 DEF Send
  <2>2. job[t].token \in Tokens /\ job[t].cand \in Accounts
    BY <2>1 DEF Locks, Lock, InHand, Job
  <2>3. k = job[t].token => last[k] = job[t].cand
    BY <2>1 DEF Sound, Tracks
  <2>4. \E to \in Accounts : Accept({job[t].token}, job[t].cand, to)
    BY <1>4 DEF Send
  <2> QED
    BY <1>1, <2>2, <2>3, <2>4
<1>5. ASSUME NEW i \in DOMAIN pending, Execute(i)
      PROVE  Leads(pending', owner'[k], k, last'[k])
  <2> HIDE DEF IInv, TypeOK
  <2> QED
    BY <1>p, <1>t, <1>5, ExecuteFirst, ExecuteLeads
<1>6. ASSUME NEW t \in Tasks, Task(t), ~Send(t) PROVE UNCHANGED nodeVars
  BY <1>6 DEF Task, Begin, Search, Take, Return, AppendToken
<1> QED
  BY <1>2, <1>3, <1>4, <1>5, <1>6 DEF Next, Terminated, vars

\* What is on chain or under way stays so, and no token that is not minted is
\* sent for.
LEMMA NodeKeeps ==
    ASSUME ~Reorder, IInv, Fresh, [Next]_vars
    PROVE  /\ Fresh'
           /\ \A k \in Tokens : Coming(k) => Coming(k)'
           /\ \A a \in minted : \A k \in TokensOf(a) : Barren(k) => Barren(k)'
<1>1. TypeOK /\ pending \in Seq(Txs) /\ Len(pending) \in Nat
  BY DEF IInv, TypeOK, Txs
<1>2. minted \subseteq Accounts /\ minted \subseteq minted'
  <2>1. ASSUME NEW t \in Tasks, Task(t) PROVE minted' = minted
    BY <2>1 DEF Task, Begin, Search, Take, Send, Return, AppendToken
  <2> QED
    BY <1>1, <2>1 DEF Next, Mint, Execute, Terminated, vars, TypeOK
<1>3. CASE UNCHANGED nodeVars
  BY <1>2, <1>3 DEF nodeVars, Fresh, Coming, Barren
<1>4. ASSUME NEW ks \in SUBSET Tokens, NEW from \in Accounts \cup {Reservoir},
             NEW to \in Accounts, Accept(ks, from, to)
      PROVE  /\ owner' = owner /\ Len(pending') = Len(pending) + 1
             /\ \A i \in 1..Len(pending) : pending'[i] = pending[i]
             /\ \A i \in 1..Len(pending') : i \in 1..Len(pending) \/
                   (pending'[i].tokens = ks /\ pending'[i].from = from)
             /\ \A k \in Tokens : Coming(k) => Coming(k)'
             /\ \A k \in Tokens : (k \in ks => from # Reservoir) /\ Barren(k) => Barren(k)'
  <2> DEFINE tx == [tokens |-> ks, from |-> from, to |-> to]
  <2>1. /\ owner' = owner /\ pending' = Append(pending, tx)
        /\ tx.tokens = ks /\ tx.from = from
    BY <1>4 DEF Accept
  <2> HIDE DEF tx
  <2>2. /\ Len(pending') = Len(pending) + 1 /\ pending'[Len(pending) + 1] = tx
        /\ \A i \in 1..Len(pending) : pending'[i] = pending[i]
    BY <1>1, <2>1
  <2>3. \A i \in 1..Len(pending') : i \in 1..Len(pending) \/ pending'[i] = tx
    BY <1>1, <2>2
  <2>4. \A i \in 1..Len(pending) : i \in 1..Len(pending')
    BY <1>1, <2>2
  <2>5. \A k \in Tokens : Coming(k) => Coming(k)'
    BY <2>1, <2>2, <2>4 DEF Coming
  <2>6. \A k \in Tokens : (k \in ks => from # Reservoir) /\ Barren(k) => Barren(k)'
    BY <2>1, <2>2, <2>3 DEF Barren
  <2> QED
    BY <2>1, <2>2, <2>3, <2>5, <2>6
<1>5. ASSUME NEW a \in Accounts, Mint(a), Accept(TokensOf(a), Reservoir, a)
      PROVE  /\ Fresh'
             /\ \A k \in Tokens : Coming(k) => Coming(k)'
             /\ \A b \in minted : \A k \in TokensOf(b) : Barren(k) => Barren(k)'
  <2>1. TokensOf(a) \in SUBSET Tokens /\ a \notin minted /\ minted' = minted \cup {a}
    BY <1>5, TokensApart DEF Mint
  <2>2. \A b \in Accounts \ {a} : \A k \in TokensOf(b) : k \in Tokens /\ k \notin TokensOf(a)
    BY TokensApart
  <2>3. Fresh'
    <3> SUFFICES ASSUME NEW b \in Accounts \ minted', NEW k \in TokensOf(b)
                 PROVE  owner'[k] = Nobody
                        /\ \A i \in 1..Len(pending') : k \notin pending'[i].tokens
      BY DEF Fresh
    <3>1. b \notin minted /\ k \notin TokensOf(a)
      BY <2>1, <2>2
    <3>2. owner[k] = Nobody /\ \A i \in 1..Len(pending) : k \notin pending[i].tokens
      BY <3>1 DEF Fresh
    <3>3. /\ owner' = owner
          /\ \A i \in 1..Len(pending) : pending'[i] = pending[i]
          /\ \A i \in 1..Len(pending') :
                i \in 1..Len(pending) \/ pending'[i].tokens = TokensOf(a)
      BY <1>4, <1>5, <2>1
    <3> QED
      BY <3>1, <3>2, <3>3
  <2> QED
    BY <1>2, <1>4, <1>5, <2>1, <2>2, <2>3
<1>6. ASSUME NEW t \in Tasks, NEW to \in Accounts, Send(t),
             Accept({job[t].token}, job[t].cand, to)
      PROVE  /\ Fresh'
             /\ \A k \in Tokens : Coming(k) => Coming(k)'
             /\ \A b \in minted : \A k \in TokensOf(b) : Barren(k) => Barren(k)'
  <2>1. pc[t] = "send" /\ minted' = minted
    BY <1>6 DEF Send
  <2>2. minted = Accounts
    BY <2>1 DEF IInv, Opening, Unmoved
  <2>3. job[t].token \in Tokens /\ job[t].cand \in Accounts
    BY <1>1, <2>1 DEF IInv, Locks, Lock, InHand, TypeOK, Job
  <2>4. job[t].cand # Reservoir
    BY <2>3 DEF Accounts, Reservoir
  <2>5. Fresh'
    BY <2>1, <2>2 DEF Fresh
  <2>6. \A k \in Tokens : (Coming(k) => Coming(k)') /\ (Barren(k) => Barren(k)')
    <3>1. {job[t].token} \in SUBSET Tokens
      BY <2>3
    <3> QED
      BY <1>4, <1>6, <2>3, <2>4, <3>1
  <2> QED
    BY <1>2, <2>5, <2>6, TokensApart
<1>7. ASSUME NEW j \in DOMAIN pending, Execute(j)
      PROVE  /\ Fresh'
             /\ \A k \in Tokens : Coming(k) => Coming(k)'
             /\ \A b \in minted : \A k \in TokensOf(b) : Barren(k) => Barren(k)'
  <2>1. /\ Len(pending) >= 1 /\ Len(pending') = Len(pending) - 1
        /\ \A i \in 1..Len(pending') : pending'[i] = pending[i + 1]
        /\ minted' = minted
        /\ \A k \in Tokens :
              owner'[k] = IF /\ k \in pending[1].tokens
                             /\ pending[1].from = Reservoir \/ owner[k] = pending[1].from
                          THEN pending[1].to ELSE owner[k]
    BY <1>1, <1>7, ExecuteFirst DEF Execute
  <2>2. /\ 1 \in 1..Len(pending)
        /\ \A i \in 1..Len(pending') : i + 1 \in 1..Len(pending)
        /\ \A i \in 1..Len(pending) : i = 1 \/ (i - 1 \in 1..Len(pending') /\ i - 1 + 1 = i)
    BY <1>1, <2>1
  <2>3. pending[1] \in Txs
    BY <1>1, <2>2
  <2>4. ASSUME NEW k \in Tokens, Coming(k) PROVE Coming(k)'
    <3>1. pending[1].to \in Accounts
      BY <2>3 DEF Txs
    <3>2. CASE owner[k] \in Accounts
      BY <2>1, <3>1, <3>2 DEF Coming
    <3>3. CASE \E i \in 1..Len(pending) : k \in pending[i].tokens /\ pending[i].from = Reservoir
      <4>1. PICK i \in 1..Len(pending) : k \in pending[i].tokens /\ pending[i].from = Reservoir
        BY <3>3
      <4>2. CASE i = 1
        BY <2>1, <3>1, <4>1, <4>2 DEF Coming
      <4>3. CASE i # 1
        <5>1. i - 1 \in 1..Len(pending') /\ pending'[i - 1] = pending[i]
          BY <2>1, <2>2, <4>3
        <5> QED
          BY <4>1, <5>1 DEF Coming
      <4> QED
        BY <4>2, <4>3
    <3> QED
      BY <2>4, <3>2, <3>3 DEF Coming
  <2>5. ASSUME NEW k \in Tokens, Barren(k) PROVE Barren(k)'
    <3>1. k \in pending[1].tokens => pending[1].from \in Accounts
      BY <2>2, <2>3, <2>5 DEF Barren, Txs
    <3>2. owner[k] = Nobody /\ Nobody \notin Accounts
      BY <2>5 DEF Barren, Nobody, Accounts
    <3>3. Reservoir \notin Accounts
      BY DEF Reservoir, Accounts
    <3>4. owner'[k] = Nobody
      BY <2>1, <3>1, <3>2, <3>3
    <3> QED
      BY <2>1, <2>2, <2>5, <3>4 DEF Barren
  <2>6. Fresh'
    <3> SUFFICES ASSUME NEW b \in Accounts \ minted, NEW k \in TokensOf(b)
                 PROVE  owner'[k] = Nobody
                        /\ \A i \in 1..Len(pending') : k \notin pending'[i].tokens
      BY <2>1 DEF Fresh
    <3>1. k \in Tokens
      BY TokensApart
    <3> QED
      BY <2>1, <2>2, <3>1 DEF Fresh
  <2> QED
    BY <1>2, <2>4, <2>5, <2>6, TokensApart
<1> QED
  BY <1>3, <1>5, <1>6, <1>7, NodeSteps

\* A step that fails on nothing, or that is charged for, leaves the rest sound.
LEMMA SoundStep ==
    ASSUME ~Reorder, IInv, [Next]_vars, NEW k \in Tokens, Sound(k), ~Loses(k)
    PROVE  Sound(k)'
<1>1. Tracks(k)'
  BY TracksStep DEF IInv, Sound
<1> QED
  BY <1>1, LeadsStep DEF Sound

LEMMA Finite ==
    ASSUME NEW s, s \subseteq Accounts \/ s \subseteq Tokens
    PROVE  /\ IsFiniteSet(s) /\ Cardinality(s) \in Nat
           /\ \A x : /\ Cardinality(s \cup {x}) \in Nat
                    /\ Cardinality(s \cup {x}) <= Cardinality(s) + 1
<1>1. IsFiniteSet(Accounts) /\ IsFiniteSet(Tokens)
  <2>1. NumAccounts * TokensPer \in Nat
    OBVIOUS
  <2>2. \A x, y \in Int : IsFiniteSet(x..y)
    BY FS_Interval
  <2> QED
    BY <2>1, <2>2 DEF Accounts, Tokens
<1>2. IsFiniteSet(s)
  BY <1>1, FS_Subset
<1>3. Cardinality(s) \in Nat
  BY <1>2, FS_CardinalityType
<1>4. ASSUME NEW x
      PROVE  /\ Cardinality(s \cup {x}) \in Nat
             /\ Cardinality(s \cup {x}) <= Cardinality(s) + 1
  <2>1. Cardinality(s \cup {x}) = IF x \in s THEN Cardinality(s) ELSE Cardinality(s) + 1
    BY <1>2, FS_AddElement
  <2> QED
    BY <1>3, <2>1
<1> QED
  BY <1>2, <1>3, <1>4

LEMMA Sums ==
    \A p, q, r, f \in Nat :
        /\ p + q <= f => p + q <= f + 1
        /\ p + q <= f /\ r <= p + 1 => r + q <= f + 1 /\ q + r <= f + 1
        /\ p + q <= f /\ f = 0 => p = 0 /\ q = 0
        /\ p + q = q + p
  OBVIOUS

LEMMA Sum == \A p, q, r, s, f \in Nat : r <= p /\ s <= q /\ p + q <= f => r + s <= f
  OBVIOUS

LEMMA ChargedStep ==
    ASSUME ~Reorder, IInv, Fresh, Charged, [Next]_vars
    PROVE  Charged'
<1>1. PICK as \in SUBSET minted, ks \in SUBSET Tokens : Charge(as, ks)
  BY DEF Charged
<1>2. minted \subseteq Accounts /\ faults \in Nat
  BY DEF IInv, TypeOK
<1>3. /\ Cardinality(as) \in Nat /\ Cardinality(ks) \in Nat
      /\ Cardinality(as) + Cardinality(ks) <= faults
  <2>1. as \subseteq Accounts /\ ks \subseteq Tokens
    BY <1>2
  <2>2. Cardinality(as) \in Nat /\ Cardinality(ks) \in Nat
    BY <2>1, Finite
  <2> QED
    BY <1>1, <2>2 DEF Charge
<1>4. /\ \A a \in as : \A k \in TokensOf(a) : Barren(k)'
      /\ \A a \in minted \ as : \A k \in TokensOf(a) : Coming(k)'
  BY <1>1, <1>2, NodeKeeps, TokensApart DEF Charge
<1>5. \A k \in Tokens \ ks : (\A a \in as : k \notin TokensOf(a)) /\ ~Loses(k) => Sound(k)'
  BY <1>1, SoundStep DEF Charge
<1>6. faults' = faults \/ faults' = faults + 1
  BY FaultsStep DEF IInv
<1>7. ASSUME NEW a \in Accounts, Mint(a) PROVE Charged'
  <2>1. a \notin minted /\ minted' = minted \cup {a}
    BY <1>7 DEF Mint
  <2>2. CASE faults' = faults
    <3>1. Accept(TokensOf(a), Reservoir, a)
      BY <1>2, <1>7, <2>2 DEF Mint
    <3>2. ASSUME NEW k \in TokensOf(a) PROVE Coming(k)'
      <4>1. pending' = Append(pending, [tokens |-> TokensOf(a), from |-> Reservoir, to |-> a])
        BY <3>1 DEF Accept
      <4>2. /\ Len(pending) + 1 \in 1..Len(pending')
            /\ pending'[Len(pending) + 1] = [tokens |-> TokensOf(a), from |-> Reservoir, to |-> a]
        BY <4>1 DEF IInv, TypeOK
      <4> QED
        BY <3>2, <4>2 DEF Coming
    <3>3. Charge(as, ks)'
      BY <1>1, <1>3, <1>4, <1>5, <2>1, <2>2, <3>2 DEF Charge, Loses
    <3> QED
      BY <2>1, <3>3 DEF Charged
  <2>3. CASE faults' = faults + 1
    <3> DEFINE more == as \cup {a}
    <3>1. UNCHANGED nodeVars
      BY <1>2, <1>7, <2>3 DEF Mint
    <3>2. ASSUME NEW k \in TokensOf(a) PROVE Barren(k)'
      BY <2>1, <3>1 DEF Fresh, Barren, nodeVars
    <3>3. Cardinality(more) + Cardinality(ks) <= faults + 1
      <4>1. Cardinality(more) \in Nat /\ Cardinality(more) <= Cardinality(as) + 1
        BY <1>2, Finite
      <4> HIDE DEF more
      <4> QED
        BY <1>2, <1>3, <4>1, Sums
    <3>4. ASSUME NEW k \in Tokens \ ks, \A b \in more : k \notin TokensOf(b)
          PROVE  Sound(k)'
      <4>1. ~Loses(k)
        <5>1. \A b \in Accounts : Mint(b) => b = a
          <6>1. ASSUME NEW b \in Accounts, Mint(b) PROVE b = a
            BY <2>1, <6>1 DEF Mint
          <6> QED
            BY <6>1
        <5>2. ASSUME NEW t \in Tasks PROVE ~Send(t)
          BY <2>1 DEF Send
        <5> QED
          BY <3>4, <5>1, <5>2 DEF Loses
      <4> QED
        BY <1>5, <3>4, <4>1
    <3>5. Charge(more, ks)'
      BY <1>4, <2>1, <2>3, <3>2, <3>3, <3>4 DEF Charge
    <3> QED
      BY <2>1, <3>5 DEF Charged
  <2> QED
    BY <1>6, <2>2, <2>3
<1>8. ASSUME NEW t \in Tasks, Send(t) PROVE Charged'
  <2>1. minted' = minted /\ pc[t] = "send"
    BY <1>8 DEF Send
  <2>2. minted = Accounts /\ job[t].token \in Tokens
    BY <2>1 DEF IInv, Opening, Unmoved, Locks, Lock, InHand
  <2>3. PICK more \in SUBSET Tokens : more = ks \cup {job[t].token}
    BY <2>2
  <2>4. CASE faults' = faults
    <3>1. Charge(as, ks)'
      BY <1>1, <1>3, <1>4, <1>5, <2>1, <2>4 DEF Charge, Loses
    <3> QED
      BY <2>1, <3>1 DEF Charged
  <2>5. CASE faults' = faults + 1
    <3>1. Cardinality(as) + Cardinality(more) <= faults + 1
      <4>1. ks \subseteq Tokens
        OBVIOUS
      <4>2. Cardinality(more) \in Nat /\ Cardinality(more) <= Cardinality(ks) + 1
        BY <2>3, <4>1, Finite
      <4>3. Cardinality(ks) + Cardinality(as) <= faults
        BY <1>3, Sums, <1>2
      <4> QED
        BY <1>2, <1>3, <4>2, <4>3, Sums
    <3>2. ASSUME NEW k \in Tokens, k \notin more PROVE ~Loses(k)
      <4>1. \A a \in Accounts : ~Mint(a)
        BY <2>2 DEF Mint
      <4>2. ASSUME NEW u \in Tasks, Send(u) PROVE job[u].token # k
        <5>1. u = t
          <6>1. pc'[t] = "return" /\ pc[u] = "send"
            BY <1>8, <4>2 DEF Send, Goto, IInv, TypeOK
          <6>2. u # t => pc'[t] = pc[t]
            BY <4>2 DEF Send, Goto, IInv, TypeOK
          <6> QED
            BY <2>1, <6>1, <6>2
        <5> QED
          BY <2>3, <3>2, <5>1
      <4> QED
        BY <2>3, <3>2, <4>1, <4>2 DEF Loses
    <3>3. \A k \in Tokens \ more : (\A a \in as : k \notin TokensOf(a)) => Sound(k)'
      BY <1>5, <2>3, <3>2
    <3>4. Charge(as, more)'
      BY <1>4, <2>1, <2>5, <3>1, <3>3 DEF Charge
    <3> QED
      BY <2>1, <3>4 DEF Charged
  <2> QED
    BY <1>6, <2>4, <2>5
<1>9. CASE (\A a \in Accounts : ~Mint(a)) /\ (\A t \in Tasks : ~Send(t))
  <2>1. UNCHANGED <<minted, faults>>
    <3>1. ASSUME NEW t \in Tasks, Task(t) PROVE UNCHANGED <<minted, faults>>
      BY <1>9, <3>1 DEF Task, Begin, Search, Take, Return, AppendToken
    <3> QED
      BY <1>9, <3>1 DEF Next, Execute, Terminated, vars
  <2>2. Charge(as, ks)'
    BY <1>1, <1>3, <1>4, <1>5, <2>1 DEF Charge, Loses
  <2> QED
    BY <2>1, <2>2 DEF Charged
<1> QED
  BY <1>7, <1>8, <1>9

LEMMA ChargedInvariance == ASSUME ~Reorder PROVE Spec => [](IInv /\ Fresh /\ Charged)
<1>1. Init => Fresh /\ Charged
  <2> SUFFICES ASSUME Init PROVE Fresh /\ Charged
    OBVIOUS
  <2>1. Fresh
    BY TokensApart DEF Init, Fresh
  <2>2. \A k \in Tokens : Sound(k)
    BY DEF Init, Sound, Tracks, Leads, OwnedAfter
  <2>3. Cardinality({}) + Cardinality({}) <= faults
    BY FS_EmptySet DEF Init
  <2>4. Charge({}, {})
    BY <2>2, <2>3 DEF Charge, Init
  <2> QED
    BY <2>1, <2>4 DEF Charged
<1>2. IInv /\ Fresh /\ Charged /\ [Next]_vars => Fresh' /\ Charged'
  BY NodeKeeps, ChargedStep
<1> QED
  BY <1>1, <1>2, Invariance, PTL DEF Spec

\* Once nothing is under way, the owner of a sound token is the account that the
\* ledger has it at.
LEMMA SoundIsOwned ==
    ASSUME NEW a \in Accounts, NEW i \in 1..Len(queue[a]), Quiet, Sound(queue[a][i])
    PROVE  owner[queue[a][i]] = a
<1>1. last[queue[a][i]] = a
  BY DEF Sound, Tracks
<1>2. OwnedAfter(pending, owner[queue[a][i]], queue[a][i], 0, last[queue[a][i]])
  BY DEF Quiet, Sound, Leads
<1> QED
  BY <1>1, <1>2 DEF OwnedAfter

\* Where blocks keep the order of acceptance and no answer is lost, the owner
\* that the ledger records is the owner on chain as soon as nothing is under way
\* (run_execute_contract.go:138).
THEOREM LedgerIsChainAlways == ASSUME ~Reorder PROVE Spec => []LedgerIsChain
<1>1. IInv /\ Charged => LedgerIsChain
  <2> SUFFICES ASSUME IInv, Charged, Quiet, faults = 0, NEW a \in Accounts,
                      NEW i \in DOMAIN queue[a]
               PROVE  owner[queue[a][i]] = a
    BY DEF LedgerIsChain
  <2>1. queue[a][i] \in Tokens /\ i \in 1..Len(queue[a]) /\ minted \subseteq Accounts
    BY DEF IInv, TypeOK
  <2>2. PICK as \in SUBSET minted, ks \in SUBSET Tokens : Charge(as, ks)
    BY DEF Charged
  <2>3. as = {} /\ ks = {}
    <3>0. as \subseteq Accounts /\ ks \subseteq Tokens
      BY <2>1
    <3>1. /\ IsFiniteSet(as) /\ Cardinality(as) \in Nat
          /\ IsFiniteSet(ks) /\ Cardinality(ks) \in Nat
      BY <3>0, Finite
    <3>2. Cardinality(as) = 0 /\ Cardinality(ks) = 0
      BY <2>2, <3>1, Sums DEF Charge
    <3> QED
      BY <3>1, <3>2, FS_EmptySet
  <2> QED
    BY <2>1, <2>2, <2>3, SoundIsOwned DEF Charge
<1> QED
  BY <1>1, ChargedInvariance, PTL

\* Where blocks keep the order of acceptance, each failed mint costs the tokens
\* of one account and each lost answer one token, whatever the tasks send after
\* it: every other token is where the ledger has it as soon as nothing is under
\* way (run_execute_contract.go:136-144, contract.go:217-221).
THEOREM MismatchBoundedAlways == ASSUME ~Reorder PROVE Spec => []MismatchBounded
<1>1. IInv /\ Charged => MismatchBounded
  <2> SUFFICES ASSUME IInv, Charged, Quiet
               PROVE  Cardinality(Unminted) + Cardinality(Astray) <= faults
    BY DEF MismatchBounded
  <2>1. /\ minted \subseteq Accounts /\ faults \in Nat
        /\ \A a \in Accounts : DOMAIN queue[a] = 1..Len(queue[a])
    BY DEF IInv, TypeOK
  <2>2. PICK as \in SUBSET minted, ks \in SUBSET Tokens : Charge(as, ks)
    BY DEF Charged
  <2>3. pending = <<>> /\ Nobody \notin Accounts
    BY DEF Quiet, Nobody, Accounts
  <2>4. Unminted \subseteq as
    <3> SUFFICES ASSUME NEW a \in minted \ as, NEW k \in TokensOf(a)
                 PROVE  owner[k] # Nobody
      BY DEF Unminted
    <3>1. Coming(k)
      BY <2>2 DEF Charge
    <3> QED
      BY <2>3, <3>1 DEF Coming
  <2>5. Astray \subseteq ks
    <3> SUFFICES ASSUME NEW k \in Tokens \ ks, NEW a \in Accounts,
                        NEW i \in 1..Len(queue[a]), queue[a][i] = k
                 PROVE  owner[k] \in {a, Nobody}
      BY <2>1 DEF Astray
    <3>1. CASE \A b \in as : k \notin TokensOf(b)
      BY <2>2, <3>1, SoundIsOwned DEF Charge
    <3>2. CASE \E b \in as : k \in TokensOf(b)
      BY <2>2, <3>2 DEF Charge, Barren
    <3> QED
      BY <3>1, <3>2
  <2>6. /\ IsFiniteSet(as) /\ Cardinality(as) \in Nat
        /\ IsFiniteSet(ks) /\ Cardinality(ks) \in Nat
    <3>1. as \subseteq Accounts /\ ks \subseteq Tokens
      BY <2>1
    <3> QED
      BY <3>1, Finite
  <2>7. /\ Cardinality(Unminted) <= Cardinality(as) /\ Cardinality(Unminted) \in Nat
        /\ Cardinality(Astray) <= Cardinality(ks) /\ Cardinality(Astray) \in Nat
    BY <2>4, <2>5, <2>6, FS_Subset, FS_CardinalityType
  <2>8. Cardinality(as) + Cardinality(ks) <= faults
    BY <2>2 DEF Charge
  <2> QED
    BY <2>1, <2>6, <2>7, <2>8, Sum
<1> QED
  BY <1>1, ChargedInvariance, PTL
=============================================================================
