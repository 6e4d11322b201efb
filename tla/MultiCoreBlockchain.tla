------------------------- MODULE MultiCoreBlockchain -------------------------
(***************************************************************************)
(* core::blockchain::MultiCoreBlockchain                                   *)
(* (src/src/core/blockchain/MultiCoreBlockchain.cpp): start() and stop()   *)
(* of one worker thread per core, the worker loop that drains the core's  *)
(* transaction queue, then its block queue, then syncs with the global     *)
(* state under state_mutex_, and the failure path handle_core_failure ->   *)
(* redistribute_work.                                                      *)
(*                                                                         *)
(* The worker holds core.mutex for its whole loop body and nobody else     *)
(* takes it, so it is not a variable.  core.paused is never set (pause()   *)
(* and resume() are declared but not defined) and is left out.  The        *)
(* queues, the engine and the state managers are external types: each   *)
(* pop and drain is atomic (the worker's empty() test is a separate read), *)
(* validation, processing, commit and the integrity and recovery outcomes *)
(* are nondeterministic, and initialize_core leaves the                    *)
(* queues' contents as they were.  Nothing in the repository defines a    *)
(* way to queue work (submit_transaction and submit_task are called by the *)
(* tests and by LoadBalancer but defined nowhere); Submit follows section  *)
(* 4.3 of the spec: push onto the core's queue and notify core.cv.        *)
(***************************************************************************)
EXTENDS Integers, Sequences, FiniteSets, Functions

CONSTANTS
    NumCores,       \* num_cores_
    Txs,            \* transactions that may be submitted
    Blocks,         \* blocks that may be submitted
    Clients,        \* threads calling start, stop and submit
    Ops,            \* which of those the clients call
    MaxCalls,       \* bound: calls per client
    MaxFailures,    \* bound: failures (a throw or a failed integrity check)
    NoItem, NoCore

Cores == 0 .. NumCores - 1
Items == Txs \cup Blocks

ASSUME NumCores \in Nat \ {0} /\ MaxCalls \in Nat /\ MaxFailures \in Nat
ASSUME Ops \subseteq {"start", "stop", "submit"} /\ Txs \cap Blocks = {}

VARIABLES
    sysRunning,     \* running_
    running,        \* core.running
    joinable,       \* core.worker holds a thread nobody has joined
    txq, blkq,      \* core.tx_queue, core.block_queue
    wpc,            \* worker pc; "none" while core.worker holds no thread
    cur,            \* the transaction or block a worker has popped
    ret,            \* where handle_core_failure returns to
    stateHolder,    \* the worker holding state_mutex_ (at most one)
    bufTx, bufBlk,  \* redistribute_work's failed_txs and failed_blocks
    idx,            \* redistribute_work's collection loop index
    failures,       \* failures so far
    cpc,            \* client pc
    cidx,           \* start()'s and stop()'s loop index
    calls,          \* calls made by each client
    submitted,      \* items handed to the engine
    done,           \* done[t]: how many times t was processed or rejected
    metrics,        \* the block ids block_metrics_ holds
    failed          \* std::terminate was called

vars == <<sysRunning, running, joinable, txq, blkq, wpc, cur, ret, stateHolder,
          bufTx, bufBlk, idx, failures, cpc, cidx, calls, submitted, done, metrics, failed>>

workerVars == <<txq, blkq, wpc, cur, ret, stateHolder, bufTx, bufBlk, idx,
                failures, done, metrics>>
clientVars == <<sysRunning, running, joinable, cpc, cidx, calls, submitted, failed>>

Pending(i) == txq[i] # <<>> \/ blkq[i] # <<>>

\* core.cv.notify_all() on core i: a worker asleep on the cv wakes and
\* retests its predicate; a worker not yet asleep misses it.
Woken(pcs, i) == [pcs EXCEPT ![i] = IF @ = "wait" THEN "check" ELSE @]

\* find_least_loaded_core: the first running core, by index, whose
\* tx_queue.size() + block_queue.size() is strictly below every earlier one.
LeastLoadedCore(tq, bq) ==
    LET R == {j \in Cores : running[j]}
        load(j) == Len(tq[j]) + Len(bq[j])
    IN  IF R = {} THEN NoCore
        ELSE CHOOSE j \in R : \A k \in R : load(j) < load(k) \/ (load(j) = load(k) /\ j <= k)

Occurrences(s, t) == Len(SelectSeq(s, LAMBDA x : x = t))

\* Where an item can be: queued, collected for redistribution, in a
\* worker's hands, or already dealt with.
Copies(t) ==
    SumFunction([i \in Cores |-> Occurrences(txq[i], t) + Occurrences(blkq[i], t)
                                  + Occurrences(bufTx[i], t) + Occurrences(bufBlk[i], t)
                                  + (IF cur[i] = t THEN 1 ELSE 0)])
    + done[t]

-----------------------------------------------------------------------------
(* worker_thread(core_id)                                                  *)

\* while (core.running), lock core.mutex, and cv.wait's test of
\* !core.running || (!core.paused && (!tx_queue.empty() || !block_queue.empty())).
WCheck(i) ==
    /\ wpc[i] = "check"
    /\ wpc' = [wpc EXCEPT ![i] = IF ~running[i] THEN "exited"
                                 ELSE IF Pending(i) THEN "after" ELSE "blocking"]
    /\ UNCHANGED <<txq, blkq, cur, ret, stateHolder, bufTx, bufBlk, idx, failures, done, metrics>>
    /\ UNCHANGED clientVars

\* The predicate was false: cv.wait releases core.mutex and sleeps.
WBlock(i) ==
    /\ wpc[i] = "blocking"
    /\ wpc' = [wpc EXCEPT ![i] = "wait"]
    /\ UNCHANGED <<txq, blkq, cur, ret, stateHolder, bufTx, bufBlk, idx, failures, done, metrics>>
    /\ UNCHANGED clientVars

\* if (!core.running) break; then process_core_transactions.
WAfter(i) ==
    /\ wpc[i] = "after"
    /\ wpc' = [wpc EXCEPT ![i] = IF ~running[i] THEN "exited" ELSE "txs"]
    /\ UNCHANGED <<txq, blkq, cur, ret, stateHolder, bufTx, bufBlk, idx, failures, done, metrics>>
    /\ UNCHANGED clientVars

\* while (!core.tx_queue.empty()): the test; on an empty queue,
\* validate_core_blocks.
WTxs(i) ==
    /\ wpc[i] = "txs"
    /\ wpc' = [wpc EXCEPT ![i] = IF txq[i] = <<>> THEN "blocks" ELSE "txpop"]
    /\ UNCHANGED <<txq, blkq, cur, ret, stateHolder, bufTx, bufBlk, idx, failures, done, metrics>>
    /\ UNCHANGED clientVars

\* auto tx = core.tx_queue.pop(): on a queue emptied since the test, pop()
\* returns no transaction (section 4.1) and *tx dereferences it: the worker
\* ends in "fault".
WTxPop(i) ==
    /\ wpc[i] = "txpop"
    /\ IF txq[i] = <<>>
         THEN wpc' = [wpc EXCEPT ![i] = "fault"] /\ UNCHANGED <<txq, cur>>
         ELSE /\ cur' = [cur EXCEPT ![i] = Head(txq[i])]
              /\ txq' = [txq EXCEPT ![i] = Tail(@)]
              /\ wpc' = [wpc EXCEPT ![i] = "txproc"]
    /\ UNCHANGED <<blkq, ret, stateHolder, bufTx, bufBlk, idx, failures, done, metrics>>
    /\ UNCHANGED clientVars

\* validate_transaction false (continue) or process_transaction done; or
\* either throws: handle_core_failure, and break to validate_core_blocks.
\* The popped transaction is in no queue any more.
WTxProc(i) ==
    /\ wpc[i] = "txproc"
    /\ \/ /\ done' = [done EXCEPT ![cur[i]] = @ + 1]
          /\ wpc' = [wpc EXCEPT ![i] = "txs"]
          /\ UNCHANGED <<ret, failures>>
       \/ /\ failures < MaxFailures /\ failures' = failures + 1
          /\ wpc' = [wpc EXCEPT ![i] = "fail"]
          /\ ret' = [ret EXCEPT ![i] = "blocks"]
          /\ UNCHANGED done
    /\ cur' = [cur EXCEPT ![i] = NoItem]
    /\ UNCHANGED <<txq, blkq, stateHolder, bufTx, bufBlk, idx, metrics>> /\ UNCHANGED clientVars

\* while (!core.block_queue.empty()): the test; on an empty queue,
\* sync_core_state.
WBlocks(i) ==
    /\ wpc[i] = "blocks"
    /\ wpc' = [wpc EXCEPT ![i] = IF blkq[i] = <<>> THEN "sync" ELSE "blkpop"]
    /\ UNCHANGED <<txq, blkq, cur, ret, stateHolder, bufTx, bufBlk, idx, failures, done, metrics>>
    /\ UNCHANGED clientVars

\* auto block = core.block_queue.pop(), and *block, as WTxPop.
WBlkPop(i) ==
    /\ wpc[i] = "blkpop"
    /\ IF blkq[i] = <<>>
         THEN wpc' = [wpc EXCEPT ![i] = "fault"] /\ UNCHANGED <<blkq, cur>>
         ELSE /\ cur' = [cur EXCEPT ![i] = Head(blkq[i])]
              /\ blkq' = [blkq EXCEPT ![i] = Tail(@)]
              /\ wpc' = [wpc EXCEPT ![i] = "blkproc"]
    /\ UNCHANGED <<txq, ret, stateHolder, bufTx, bufBlk, idx, failures, done, metrics>>
    /\ UNCHANGED clientVars

\* validate_block false (continue), or commit_block and on to the write of
\* block_metrics_, or a throw: handle_core_failure, and break to
\* sync_core_state.
WBlkProc(i) ==
    /\ wpc[i] = "blkproc"
    /\ \/ /\ done' = [done EXCEPT ![cur[i]] = @ + 1]
          /\ cur' = [cur EXCEPT ![i] = NoItem]
          /\ wpc' = [wpc EXCEPT ![i] = "blocks"]
          /\ UNCHANGED <<ret, failures>>
       \/ /\ wpc' = [wpc EXCEPT ![i] = "blkmetrics"]
          /\ UNCHANGED <<cur, ret, failures, done>>
       \/ /\ failures < MaxFailures /\ failures' = failures + 1
          /\ cur' = [cur EXCEPT ![i] = NoItem]
          /\ wpc' = [wpc EXCEPT ![i] = "fail"]
          /\ ret' = [ret EXCEPT ![i] = "sync"]
          /\ UNCHANGED done
    /\ UNCHANGED <<txq, blkq, stateHolder, bufTx, bufBlk, idx, metrics>> /\ UNCHANGED clientVars

\* block_metrics_[block->id] = metrics, into the unordered_map shared by
\* every worker, with no lock held but the core's own mutex.
WBlkMetrics(i) ==
    /\ wpc[i] = "blkmetrics"
    /\ metrics' = metrics \cup {cur[i]}
    /\ done' = [done EXCEPT ![cur[i]] = @ + 1]
    /\ cur' = [cur EXCEPT ![i] = NoItem]
    /\ wpc' = [wpc EXCEPT ![i] = "blocks"]
    /\ UNCHANGED <<txq, blkq, ret, stateHolder, bufTx, bufBlk, idx, failures>>
    /\ UNCHANGED clientVars

\* sync_core_state under state_mutex_: the integrity check passes and
\* optimize_core_performance (external calls only) ends the loop body; or
\* it fails and handle_core_failure runs with state_mutex_ still held.
WSync(i) ==
    /\ wpc[i] = "sync" /\ stateHolder = {}
    /\ \/ /\ wpc' = [wpc EXCEPT ![i] = "check"]
          /\ UNCHANGED <<ret, stateHolder, failures>>
       \/ /\ failures < MaxFailures /\ failures' = failures + 1
          /\ stateHolder' = {i}
          /\ wpc' = [wpc EXCEPT ![i] = "fail"]
          /\ ret' = [ret EXCEPT ![i] = "check"]
    /\ UNCHANGED <<txq, blkq, cur, bufTx, bufBlk, idx, done, metrics>> /\ UNCHANGED clientVars

\* The return of handle_core_failure to its caller, which releases
\* state_mutex_ when the caller was sync_core_state.
Return(i) == /\ wpc' = [wpc EXCEPT ![i] = ret[i]]
             /\ stateHolder' = stateHolder \ {i}

\* handle_core_failure: the recovery (emergency_stop, rollback, reset,
\* initialize_core, restore) succeeds, or throws and redistribute_work runs.
WFail(i) ==
    /\ wpc[i] = "fail"
    /\ \/ Return(i) /\ UNCHANGED <<bufTx, bufBlk, idx>>
       \/ /\ wpc' = [wpc EXCEPT ![i] = "redist"]
          /\ bufTx' = [bufTx EXCEPT ![i] = <<>>]
          /\ bufBlk' = [bufBlk EXCEPT ![i] = <<>>]
          /\ idx' = [idx EXCEPT ![i] = 0]
          /\ UNCHANGED stateHolder
    /\ UNCHANGED <<txq, blkq, cur, ret, failures, done, metrics>> /\ UNCHANGED clientVars

\* redistribute_work: drain both queues of every core whose running flag
\* is false, one core per step.
WRedistCollect(i) ==
    /\ wpc[i] = "redist"
    /\ IF ~running[idx[i]]
         THEN /\ bufTx' = [bufTx EXCEPT ![i] = @ \o txq[idx[i]]]
              /\ bufBlk' = [bufBlk EXCEPT ![i] = @ \o blkq[idx[i]]]
              /\ txq' = [txq EXCEPT ![idx[i]] = <<>>]
              /\ blkq' = [blkq EXCEPT ![idx[i]] = <<>>]
         ELSE UNCHANGED <<bufTx, bufBlk, txq, blkq>>
    /\ idx' = [idx EXCEPT ![i] = @ + 1]
    /\ wpc' = [wpc EXCEPT ![i] = IF idx[i] = NumCores - 1 THEN "resubmit" ELSE "redist"]
    /\ UNCHANGED <<cur, ret, stateHolder, failures, done, metrics>> /\ UNCHANGED clientVars

\* Each collected transaction, then each collected block, is pushed onto
\* find_least_loaded_core's queue, with no notify, or dropped when that is
\* -1.  Then handle_core_failure returns.
WResubmit(i) ==
    /\ wpc[i] = "resubmit"
    /\ LET target == LeastLoadedCore(txq, blkq) IN
       IF bufTx[i] # <<>>
         THEN /\ bufTx' = [bufTx EXCEPT ![i] = Tail(@)]
              /\ IF target = NoCore THEN UNCHANGED txq
                 ELSE txq' = [txq EXCEPT ![target] = Append(@, Head(bufTx[i]))]
              /\ UNCHANGED <<wpc, stateHolder, bufBlk, blkq>>
       ELSE IF bufBlk[i] # <<>>
         THEN /\ bufBlk' = [bufBlk EXCEPT ![i] = Tail(@)]
              /\ IF target = NoCore THEN UNCHANGED blkq
                 ELSE blkq' = [blkq EXCEPT ![target] = Append(@, Head(bufBlk[i]))]
              /\ UNCHANGED <<wpc, stateHolder, bufTx, txq>>
       ELSE Return(i) /\ UNCHANGED <<bufTx, bufBlk, txq, blkq>>
    /\ UNCHANGED <<cur, ret, idx, failures, done, metrics>> /\ UNCHANGED clientVars

-----------------------------------------------------------------------------
(* The public calls.                                                       *)

Call(c) == /\ cpc[c] = "idle" /\ calls[c] < MaxCalls
           /\ calls' = [calls EXCEPT ![c] = @ + 1]

\* start(): if (running_.exchange(true)) return;
StartBegin(c) ==
    /\ Call(c) /\ "start" \in Ops
    /\ sysRunning' = TRUE
    /\ IF sysRunning THEN UNCHANGED <<cpc, cidx>>
       ELSE cpc' = [cpc EXCEPT ![c] = "start_core"] /\ cidx' = [cidx EXCEPT ![c] = 0]
    /\ UNCHANGED workerVars /\ UNCHANGED <<running, joinable, submitted, failed>>

\* cores_[i].running = true; cores_[i].worker = std::thread(...): the move
\* assignment calls std::terminate when core.worker is still joinable,
\* which ends every thread of the process.
StartCore(c) ==
    /\ cpc[c] = "start_core"
    /\ LET i == cidx[c] IN
       /\ running' = [running EXCEPT ![i] = TRUE]
       /\ IF joinable[i]
            THEN /\ failed' = TRUE
                 /\ wpc' = [j \in Cores |-> "none"]
                 /\ cpc' = [d \in Clients |-> "dead"]
                 /\ UNCHANGED <<joinable, cidx>>
            ELSE /\ joinable' = [joinable EXCEPT ![i] = TRUE]
                 /\ wpc' = [wpc EXCEPT ![i] = "check"]
                 /\ UNCHANGED failed
                 /\ IF i = NumCores - 1 THEN cpc' = [cpc EXCEPT ![c] = "idle"] /\ UNCHANGED cidx
                    ELSE cidx' = [cidx EXCEPT ![c] = @ + 1] /\ UNCHANGED cpc
    /\ UNCHANGED <<txq, blkq, cur, ret, stateHolder, bufTx, bufBlk, idx, failures, done, metrics>>
    /\ UNCHANGED <<sysRunning, calls, submitted>>

\* stop(): if (!running_.exchange(false)) return;
StopBegin(c) ==
    /\ Call(c) /\ "stop" \in Ops
    /\ sysRunning' = FALSE
    /\ IF sysRunning
         THEN cpc' = [cpc EXCEPT ![c] = "stop_clear"] /\ cidx' = [cidx EXCEPT ![c] = 0]
         ELSE UNCHANGED <<cpc, cidx>>
    /\ UNCHANGED workerVars /\ UNCHANGED <<running, joinable, submitted, failed>>

\* core.running = false; core.cv.notify_all();
StopClear(c) ==
    /\ cpc[c] = "stop_clear"
    /\ running' = [running EXCEPT ![cidx[c]] = FALSE]
    /\ wpc' = Woken(wpc, cidx[c])
    /\ cpc' = [cpc EXCEPT ![c] = "stop_join"]
    /\ UNCHANGED <<txq, blkq, cur, ret, stateHolder, bufTx, bufBlk, idx, failures, done, metrics>>
    /\ UNCHANGED <<sysRunning, joinable, cidx, calls, submitted, failed>>

\* if (core.worker.joinable()) core.worker.join(); then the next core.
StopJoin(c) ==
    /\ cpc[c] = "stop_join"
    /\ LET i == cidx[c] IN
       /\ joinable[i] => wpc[i] = "exited"
       /\ joinable' = [joinable EXCEPT ![i] = FALSE]
       /\ wpc' = [wpc EXCEPT ![i] = IF joinable[i] THEN "none" ELSE @]
       /\ IF i = NumCores - 1 THEN cpc' = [cpc EXCEPT ![c] = "idle"] /\ UNCHANGED cidx
          ELSE cpc' = [cpc EXCEPT ![c] = "stop_clear"] /\ cidx' = [cidx EXCEPT ![c] = @ + 1]
    /\ UNCHANGED <<txq, blkq, cur, ret, stateHolder, bufTx, bufBlk, idx, failures, done, metrics>>
    /\ UNCHANGED <<sysRunning, running, calls, submitted, failed>>

\* Section 4.3: push the item onto core i's transaction or block queue and
\* notify its cv.
Submit(c) ==
    /\ Call(c) /\ "submit" \in Ops
    /\ \E i \in Cores, t \in Items \ submitted :
         /\ IF t \in Txs THEN txq' = [txq EXCEPT ![i] = Append(@, t)] /\ UNCHANGED blkq
            ELSE blkq' = [blkq EXCEPT ![i] = Append(@, t)] /\ UNCHANGED txq
         /\ wpc' = Woken(wpc, i)
         /\ submitted' = submitted \cup {t}
    /\ UNCHANGED <<cur, ret, stateHolder, bufTx, bufBlk, idx, failures, done, metrics>>
    /\ UNCHANGED <<sysRunning, running, joinable, cpc, cidx, failed>>

-----------------------------------------------------------------------------

\* After the constructor and initialize(): no worker thread, empty queues.
Init ==
    /\ sysRunning = FALSE
    /\ running = [i \in Cores |-> FALSE]
    /\ joinable = [i \in Cores |-> FALSE]
    /\ txq = [i \in Cores |-> <<>>] /\ blkq = [i \in Cores |-> <<>>]
    /\ wpc = [i \in Cores |-> "none"]
    /\ cur = [i \in Cores |-> NoItem]
    /\ ret = [i \in Cores |-> "check"]
    /\ stateHolder = {}
    /\ bufTx = [i \in Cores |-> <<>>] /\ bufBlk = [i \in Cores |-> <<>>]
    /\ idx = [i \in Cores |-> 0]
    /\ failures = 0
    /\ cpc = [c \in Clients |-> "idle"]
    /\ cidx = [c \in Clients |-> 0]
    /\ calls = [c \in Clients |-> 0]
    /\ submitted = {}
    /\ done = [t \in Items |-> 0]
    /\ metrics = {}
    /\ failed = FALSE

Worker(i) ==
    \/ WCheck(i) \/ WBlock(i) \/ WAfter(i) \/ WTxs(i) \/ WTxPop(i) \/ WTxProc(i)
    \/ WBlocks(i) \/ WBlkPop(i) \/ WBlkProc(i) \/ WBlkMetrics(i) \/ WSync(i) \/ WFail(i)
    \/ WRedistCollect(i) \/ WResubmit(i)

Client(c) ==
    \/ StartBegin(c) \/ StartCore(c) \/ StopBegin(c) \/ StopClear(c)
    \/ StopJoin(c) \/ Submit(c)

Next == (\E i \in Cores : Worker(i)) \/ (\E c \in Clients : Client(c))

\* Every worker is its own OS thread, and so is a client inside start() or
\* stop(); a client is not obliged to make a call.
Fairness ==
    /\ \A i \in Cores : WF_vars(Worker(i))
    /\ \A c \in Clients : WF_vars(StartCore(c) \/ StopClear(c) \/ StopJoin(c))

Spec == Init /\ [][Next]_vars /\ Fairness

-----------------------------------------------------------------------------

TypeOK ==
    /\ sysRunning \in BOOLEAN /\ failed \in BOOLEAN
    /\ running \in [Cores -> BOOLEAN] /\ joinable \in [Cores -> BOOLEAN]
    /\ txq \in [Cores -> Seq(Txs)] /\ bufTx \in [Cores -> Seq(Txs)]
    /\ blkq \in [Cores -> Seq(Blocks)] /\ bufBlk \in [Cores -> Seq(Blocks)]
    /\ wpc \in [Cores -> {"none", "check", "blocking", "wait", "after", "txs", "txpop",
                          "txproc", "blocks", "blkpop", "blkproc", "fault", "blkmetrics", "sync", "fail", "redist",
                          "resubmit", "exited"}]
    /\ cur \in [Cores -> Items \cup {NoItem}]
    /\ ret \in [Cores -> {"blocks", "sync", "check"}]
    /\ stateHolder \subseteq Cores /\ Cardinality(stateHolder) <= 1
    /\ idx \in [Cores -> 0 .. NumCores]
    /\ failures \in 0 .. MaxFailures
    /\ cpc \in [Clients -> {"idle", "start_core", "stop_clear", "stop_join", "dead"}]
    /\ cidx \in [Clients -> Cores] /\ calls \in [Clients -> 0 .. MaxCalls]
    /\ submitted \subseteq Items /\ done \in [Items -> Nat]
    /\ metrics \subseteq Blocks

\* The drain loops' tests and their pops see the same queue: a worker that
\* found its transaction or block queue non-empty still finds an item when
\* it pops.  redistribute_work, run by another core's worker after a
\* failure, drains the queues of every core whose running flag is false,
\* and stop() clears that flag while the core's worker may be inside
\* process_core_transactions or validate_core_blocks.
NoEmptyPop ==
    \A i \in Cores : /\ wpc[i] = "txpop" => txq[i] # <<>>
                   /\ wpc[i] = "blkpop" => blkq[i] # <<>>

\* start() never move-assigns a thread into a core.worker that still holds
\* one: every start follows a stop that joined every worker it started.
NoTerminate == ~failed

\* Sections 4.5 and 5: no submitted item is silently lost; each is queued,
\* collected, in a worker's hands or dealt with.  A transaction or block
\* whose processing threw is gone, and redistribute_work drops what it
\* finds no running core for.
NothingLost == \A t \in submitted : Copies(t) >= 1
=============================================================================
