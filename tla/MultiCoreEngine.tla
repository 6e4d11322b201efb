--------------------------- MODULE MultiCoreEngine ---------------------------
(***************************************************************************)
(* core::MultiCoreEngine (src/src/core/MultiCoreEngine.cpp): one worker    *)
(* thread per core draining that core's task queue, pause/resume/stop of   *)
(* the fleet, and the failure path verify_core_integrity ->               *)
(* handle_core_failure -> redistribute_tasks that a worker runs after each *)
(* drain.  Also process_blockchain_transaction, whose blockchain_mutex_  *)
(* is locked again by sync_blockchain_state.                               *)
(*                                                                         *)
(* core.mutex is only ever taken by the core's own worker (pause, resume   *)
(* and stop change the atomics and notify core.cv without it), so it       *)
(* excludes nothing and is not a variable; what it leaves open is the      *)
(* window between the worker's test of its wait predicate and its going to *)
(* sleep on core.cv, where a notify_all finds no waiter.  A worker asleep  *)
(* on the cv wakes only by a notify; spurious wakeups are allowed by the   *)
(* standard but never guaranteed, so none is assumed.                      *)
(*                                                                         *)
(* submit_task(core_id, task) and TaskQueue are declared but not defined   *)
(* in the repository; following section 5 of the spec, submit_task pushes  *)
(* onto the core's lock-free queue and notifies core.cv, and drain() takes *)
(* the whole queue in one atomic swap.  Task execution, the integrity      *)
(* checks and the recovery attempt are external: their outcomes are        *)
(* nondeterministic.                                                       *)
(***************************************************************************)
EXTENDS Integers, Sequences, FiniteSets, Functions

CONSTANTS
    NumCores,       \* cores_.size()
    Tasks,          \* the tasks that may be submitted
    Preloaded,      \* Preloaded[i]: tasks queued on core i before start()
    Clients,        \* threads calling submit_task, pause, resume, stop and
                    \* process_blockchain_transaction
    Ops,            \* which of those the clients call
    MaxCalls,       \* bound: calls per client
    MaxFailures,    \* bound: failed integrity checks in a behaviour
    NoTask, NoCore

Cores == 0 .. NumCores - 1

ASSUME NumCores \in Nat \ {0} /\ MaxCalls \in Nat /\ MaxFailures \in Nat
ASSUME Preloaded \in [Cores -> Seq(Tasks)]
ASSUME Ops \subseteq {"submit", "pause", "resume", "stop", "tx"}

\* Queues before start() given to Preloaded by the cfgs: nothing queued, or
\* every task queued on core 0.
NoPreload == [i \in Cores |-> <<>>]
PreloadOnFirst ==
    [i \in Cores |-> IF i = 0 THEN CHOOSE s \in [1 .. Cardinality(Tasks) -> Tasks] : Range(s) = Tasks
                     ELSE <<>>]

PreloadedTasks == UNION {{Preloaded[i][k] : k \in DOMAIN Preloaded[i]} : i \in Cores}

VARIABLES
    sysRunning,     \* system_running_
    running,        \* core.running
    paused,         \* core.paused
    queue,          \* core.task_queue
    wpc,            \* worker pc
    cur,            \* the task a worker is executing
    buf,            \* redistribute_tasks' failed_tasks of the worker running it
    idx,            \* redistribute_tasks' collection loop index
    failures,       \* failed integrity checks so far
    cpc,            \* client pc
    cidx,           \* stop()'s loop index
    calls,          \* calls made by each client
    submitted,      \* tasks handed to the engine (preloaded ones included)
    executed,       \* executed[t]: how many times t has run
    stopReturned,   \* a stop() that did the work has returned
    bcHolder        \* the clients holding blockchain_mutex_ (at most one)

vars == <<sysRunning, running, paused, queue, wpc, cur, buf, idx, failures,
          cpc, cidx, calls, submitted, executed, stopReturned, bcHolder>>

workerVars == <<queue, wpc, cur, buf, idx, failures, executed>>
clientVars == <<cpc, cidx, calls, submitted, stopReturned, bcHolder>>

\* core.cv.notify_all() on core i: a worker asleep on the cv wakes and
\* retests its predicate; a worker not yet asleep misses it.
Woken(pcs, i) == [pcs EXCEPT ![i] = IF @ = "wait" THEN "check" ELSE @]

\* find_least_loaded_core: the running core with the shortest queue, the
\* lowest index among equals (the loop runs by index with a strict <).
LeastLoadedCore(q) ==
    LET R == {j \in Cores : running[j]}
    IN  IF R = {} THEN NoCore
        ELSE CHOOSE j \in R : \A k \in R :
                 Len(q[j]) < Len(q[k]) \/ (Len(q[j]) = Len(q[k]) /\ j <= k)

-----------------------------------------------------------------------------
(* worker_thread(core_id)                                                  *)

\* while (core.running), lock core.mutex, and cv.wait's test of
\* !core.running || (!core.paused && !core.task_queue.empty()).
WCheck(i) ==
    /\ wpc[i] = "check"
    /\ wpc' = [wpc EXCEPT ![i] =
                 IF ~running[i] THEN "exited"
                 ELSE IF ~paused[i] /\ queue[i] # <<>> THEN "after"
                 ELSE "blocking"]
    /\ UNCHANGED <<queue, cur, buf, idx, failures, executed>>
    /\ UNCHANGED <<sysRunning, running, paused>> /\ UNCHANGED clientVars

\* The predicate was false: cv.wait releases core.mutex and sleeps.
WBlock(i) ==
    /\ wpc[i] = "blocking"
    /\ wpc' = [wpc EXCEPT ![i] = "wait"]
    /\ UNCHANGED <<queue, cur, buf, idx, failures, executed>>
    /\ UNCHANGED <<sysRunning, running, paused>> /\ UNCHANGED clientVars

\* if (!core.running) break; if (core.paused) continue;
WAfter(i) ==
    /\ wpc[i] = "after"
    /\ wpc' = [wpc EXCEPT ![i] = IF ~running[i] THEN "exited"
                                 ELSE IF paused[i] THEN "check" ELSE "drain"]
    /\ UNCHANGED <<queue, cur, buf, idx, failures, executed>>
    /\ UNCHANGED <<sysRunning, running, paused>> /\ UNCHANGED clientVars

\* while (!core.task_queue.empty()): the test, one read of the queue.
WDrain(i) ==
    /\ wpc[i] = "drain"
    /\ wpc' = [wpc EXCEPT ![i] = IF queue[i] = <<>> THEN "optimize" ELSE "pop"]
    /\ UNCHANGED <<queue, cur, buf, idx, failures, executed>>
    /\ UNCHANGED <<sysRunning, running, paused>> /\ UNCHANGED clientVars

\* auto task = core.task_queue.pop(), a second read.  On a queue emptied
\* since the test, pop() returns no task (section 4.1) and task->execute()
\* dereferences it: the worker ends in "fault".
WPop(i) ==
    /\ wpc[i] = "pop"
    /\ IF queue[i] = <<>>
         THEN /\ wpc' = [wpc EXCEPT ![i] = "fault"]
              /\ UNCHANGED <<queue, cur>>
         ELSE /\ cur' = [cur EXCEPT ![i] = Head(queue[i])]
              /\ queue' = [queue EXCEPT ![i] = Tail(@)]
              /\ wpc' = [wpc EXCEPT ![i] = "exec"]
    /\ UNCHANGED <<buf, idx, failures, executed>>
    /\ UNCHANGED <<sysRunning, running, paused>> /\ UNCHANGED clientVars

\* task->execute(); an exception goes to handle_core_exception and the
\* loop goes on.
WExec(i) ==
    /\ wpc[i] = "exec"
    /\ executed' = [executed EXCEPT ![cur[i]] = @ + 1]
    /\ cur' = [cur EXCEPT ![i] = NoTask]
    /\ wpc' = [wpc EXCEPT ![i] = "drain"]
    /\ UNCHANGED <<queue, buf, idx, failures>>
    /\ UNCHANGED <<sysRunning, running, paused>> /\ UNCHANGED clientVars

\* optimize_core_performance -> verify_core_integrity: the checks pass, or
\* one fails and handle_core_failure's recovery either succeeds or throws,
\* in which case redistribute_tasks runs.  Then the loop goes round.
WOptimize(i) ==
    /\ wpc[i] = "optimize"
    /\ \/ /\ wpc' = [wpc EXCEPT ![i] = "check"]
          /\ UNCHANGED <<failures, buf, idx>>
       \/ /\ failures < MaxFailures
          /\ failures' = failures + 1
          /\ \/ /\ wpc' = [wpc EXCEPT ![i] = "check"]
                /\ UNCHANGED <<buf, idx>>
             \/ /\ wpc' = [wpc EXCEPT ![i] = "redist"]
                /\ buf' = [buf EXCEPT ![i] = <<>>]
                /\ idx' = [idx EXCEPT ![i] = 0]
    /\ UNCHANGED <<queue, cur, executed>>
    /\ UNCHANGED <<sysRunning, running, paused>> /\ UNCHANGED clientVars

\* redistribute_tasks: drain the queue of every core whose running flag is
\* false, one core per step.
WRedistCollect(i) ==
    /\ wpc[i] = "redist"
    /\ IF ~running[idx[i]]
         THEN /\ buf' = [buf EXCEPT ![i] = @ \o queue[idx[i]]]
              /\ queue' = [queue EXCEPT ![idx[i]] = <<>>]
         ELSE UNCHANGED <<buf, queue>>
    /\ idx' = [idx EXCEPT ![i] = @ + 1]
    /\ wpc' = [wpc EXCEPT ![i] = IF idx[i] = NumCores - 1 THEN "resubmit"
                                                          ELSE "redist"]
    /\ UNCHANGED <<cur, failures, executed>>
    /\ UNCHANGED <<sysRunning, running, paused>> /\ UNCHANGED clientVars

\* For each collected task: find_least_loaded_core and submit_task to it;
\* when no core is running the task is not submitted anywhere.
WResubmit(i) ==
    /\ wpc[i] = "resubmit"
    /\ IF buf[i] = <<>>
         THEN /\ wpc' = [wpc EXCEPT ![i] = "check"]
              /\ UNCHANGED <<buf, queue>>
         ELSE LET target == LeastLoadedCore(queue) IN
              /\ buf' = [buf EXCEPT ![i] = Tail(@)]
              /\ IF target = NoCore
                   THEN UNCHANGED <<queue, wpc>>
                   ELSE /\ queue' = [queue EXCEPT ![target] = Append(@, Head(buf[i]))]
                        /\ wpc' = Woken(wpc, target)
    /\ UNCHANGED <<cur, idx, failures, executed>>
    /\ UNCHANGED <<sysRunning, running, paused>> /\ UNCHANGED clientVars

-----------------------------------------------------------------------------
(* The public calls.                                                       *)

Call(c) == /\ cpc[c] = "idle" /\ calls[c] < MaxCalls
           /\ calls' = [calls EXCEPT ![c] = @ + 1]

\* submit_task(core_id, task): push onto the core's queue, notify its cv.
SubmitTask(c) ==
    /\ Call(c) /\ "submit" \in Ops
    /\ \E i \in Cores, t \in Tasks \ submitted :
         /\ queue' = [queue EXCEPT ![i] = Append(@, t)]
         /\ wpc' = Woken(wpc, i)
         /\ submitted' = submitted \cup {t}
    /\ UNCHANGED <<cur, buf, idx, failures, executed>>
    /\ UNCHANGED <<sysRunning, running, paused, cpc, cidx, stopReturned, bcHolder>>

\* pause(): every core.paused = true, under system_mutex_, no notify.
Pause(c) ==
    /\ Call(c) /\ "pause" \in Ops
    /\ paused' = [i \in Cores |-> TRUE]
    /\ UNCHANGED workerVars
    /\ UNCHANGED <<sysRunning, running, cpc, cidx, submitted, stopReturned, bcHolder>>

\* resume(): every core.paused = false and core.cv.notify_all(), under
\* system_mutex_ but not under core.mutex.
Resume(c) ==
    /\ Call(c) /\ "resume" \in Ops
    /\ paused' = [i \in Cores |-> FALSE]
    /\ wpc' = [i \in Cores |-> IF wpc[i] = "wait" THEN "check" ELSE wpc[i]]
    /\ UNCHANGED <<queue, cur, buf, idx, failures, executed>>
    /\ UNCHANGED <<sysRunning, running, cpc, cidx, submitted, stopReturned, bcHolder>>

\* stop(): if (!system_running_.exchange(false)) return;
StopBegin(c) ==
    /\ Call(c) /\ "stop" \in Ops
    /\ sysRunning' = FALSE
    /\ IF sysRunning
         THEN /\ cpc' = [cpc EXCEPT ![c] = "stop_clear"]
              /\ cidx' = [cidx EXCEPT ![c] = 0]
         ELSE UNCHANGED <<cpc, cidx>>
    /\ UNCHANGED workerVars
    /\ UNCHANGED <<running, paused, submitted, stopReturned, bcHolder>>

\* core.running = false; core.cv.notify_all();
StopClear(c) ==
    /\ cpc[c] = "stop_clear"
    /\ running' = [running EXCEPT ![cidx[c]] = FALSE]
    /\ wpc' = Woken(wpc, cidx[c])
    /\ cpc' = [cpc EXCEPT ![c] = "stop_join"]
    /\ UNCHANGED <<queue, cur, buf, idx, failures, executed>>
    /\ UNCHANGED <<sysRunning, paused, cidx, calls, submitted, stopReturned, bcHolder>>

\* core.worker.join(), then the next core; the monitoring thread is not
\* started (monitoring_enabled_ is false unless enable_monitoring is
\* called, and monitor_system only reads metrics).
StopJoin(c) ==
    /\ cpc[c] = "stop_join"
    /\ wpc[cidx[c]] = "exited"
    /\ IF cidx[c] = NumCores - 1
         THEN /\ cpc' = [cpc EXCEPT ![c] = "idle"]
              /\ stopReturned' = TRUE
              /\ UNCHANGED cidx
         ELSE /\ cpc' = [cpc EXCEPT ![c] = "stop_clear"]
              /\ cidx' = [cidx EXCEPT ![c] = @ + 1]
              /\ UNCHANGED stopReturned
    /\ UNCHANGED workerVars
    /\ UNCHANGED <<sysRunning, running, paused, calls, submitted, bcHolder>>

\* process_blockchain_transaction(tx), first step: lock_guard on
\* blockchain_mutex_.
TxBegin(c) ==
    /\ Call(c) /\ "tx" \in Ops
    /\ cpc' = [cpc EXCEPT ![c] = "tx_lock"]
    /\ UNCHANGED workerVars
    /\ UNCHANGED <<sysRunning, running, paused, cidx, submitted, stopReturned, bcHolder>>

\* The lock is taken; blockchain_->validate_transaction(tx) (external) is
\* false, and the throw unlocks it, or true, and the transaction goes to
\* the round-robin core (external, and the static counter is read by
\* nothing else), then sync_blockchain_state() locks blockchain_mutex_
\* again.  That lock is held by this thread: std::mutex is not recursive,
\* so the thread stays at "tx_relock" and keeps the mutex for ever.
TxLock(c) ==
    /\ cpc[c] = "tx_lock" /\ bcHolder = {}
    /\ \/ /\ cpc' = [cpc EXCEPT ![c] = "idle"]
          /\ UNCHANGED bcHolder
       \/ /\ cpc' = [cpc EXCEPT ![c] = "tx_relock"]
          /\ bcHolder' = {c}
    /\ UNCHANGED workerVars
    /\ UNCHANGED <<sysRunning, running, paused, cidx, calls, submitted, stopReturned>>

-----------------------------------------------------------------------------

\* After the constructor, initialize() and start(): every core running,
\* its worker at the top of its loop, with whatever was queued before.
Init ==
    /\ sysRunning = TRUE
    /\ running = [i \in Cores |-> TRUE]
    /\ paused = [i \in Cores |-> FALSE]
    /\ queue = Preloaded
    /\ wpc = [i \in Cores |-> "check"]
    /\ cur = [i \in Cores |-> NoTask]
    /\ buf = [i \in Cores |-> <<>>]
    /\ idx = [i \in Cores |-> 0]
    /\ failures = 0
    /\ cpc = [c \in Clients |-> "idle"]
    /\ cidx = [c \in Clients |-> 0]
    /\ calls = [c \in Clients |-> 0]
    /\ submitted = PreloadedTasks
    /\ executed = [t \in Tasks |-> 0]
    /\ stopReturned = FALSE
    /\ bcHolder = {}

Worker(i) ==
    \/ WCheck(i) \/ WBlock(i) \/ WAfter(i) \/ WDrain(i) \/ WPop(i) \/ WExec(i)
    \/ WOptimize(i) \/ WRedistCollect(i) \/ WResubmit(i)

Client(c) ==
    \/ SubmitTask(c) \/ Pause(c) \/ Resume(c)
    \/ StopBegin(c) \/ StopClear(c) \/ StopJoin(c)
    \/ TxBegin(c) \/ TxLock(c)

Next == (\E i \in Cores : Worker(i)) \/ (\E c \in Clients : Client(c))

\* Every worker is its own OS thread, and so is a client inside stop() or
\* process_blockchain_transaction; a client is not obliged to make a call.
Fairness ==
    /\ \A i \in Cores : WF_vars(Worker(i))
    /\ \A c \in Clients : WF_vars(StopClear(c) \/ StopJoin(c) \/ TxLock(c))

Spec == Init /\ [][Next]_vars /\ Fairness

-----------------------------------------------------------------------------

TypeOK ==
    /\ sysRunning \in BOOLEAN
    /\ running \in [Cores -> BOOLEAN] /\ paused \in [Cores -> BOOLEAN]
    /\ queue \in [Cores -> Seq(Tasks)] /\ buf \in [Cores -> Seq(Tasks)]
    /\ wpc \in [Cores -> {"check", "blocking", "wait", "after", "drain",
                          "pop", "fault", "exec", "optimize", "redist", "resubmit", "exited"}]
    /\ cur \in [Cores -> Tasks \cup {NoTask}]
    /\ idx \in [Cores -> 0 .. NumCores]
    /\ failures \in 0 .. MaxFailures
    /\ cpc \in [Clients -> {"idle", "stop_clear", "stop_join", "tx_lock", "tx_relock"}]
    /\ bcHolder \subseteq Clients /\ Cardinality(bcHolder) <= 1
    /\ cidx \in [Clients -> Cores]
    /\ submitted \subseteq Tasks
    /\ executed \in [Tasks -> Nat]

\* The drain loop's test and its pop see the same queue: a worker that
\* found its queue non-empty still finds a task when it pops.  No other
\* thread pops from a core's queue, but redistribute_tasks, run by another
\* core's worker after a failed integrity check, drains every queue whose
\* core has running false, without core.mutex, and stop() clears running
\* while the core's worker may be inside its drain loop.
NoEmptyPop == \A i \in Cores : wpc[i] = "pop" => queue[i] # <<>>

\* Scenario C and section 4.3: once pause() has set core.paused, that
\* core's worker starts no further task until resume().
PauseStopsNewTasks ==
    [][\A i \in Cores : wpc[i] = "pop" /\ wpc'[i] = "exec" => ~paused[i]]_vars

\* No lost wakeup: a worker asleep on core.cv never has a true wait
\* predicate.  resume() and stop() change paused and running and call
\* notify_all without taking core.mutex, so the notify can fall between
\* the worker's predicate test and its sleep.
NoLostWakeup ==
    \A i \in Cores :
        wpc[i] = "wait" => ~(~running[i] \/ (~paused[i] /\ queue[i] # <<>>))

\* process_blockchain_transaction holds blockchain_mutex_ in a lock_guard,
\* which the return or the throw releases: a client that holds the mutex
\* eventually releases it.  sync_blockchain_state's second lock_guard on
\* the same mutex keeps the caller from ever returning.
BlockchainMutexReleased == \A c \in Clients : c \in bcHolder ~> c \notin bcHolder

\* Section 5: shutdown loses no task; every task queued when stop() was
\* called has run, or been returned or marked cancelled, by the time stop()
\* returns (the code has no way to return or cancel one).  A task that a
\* redistributing worker drained and found no running core for breaks it
\* the same way as a task left in a queue.
StopAccountsForTasks ==
    stopReturned => \A t \in submitted : executed[t] > 0

=============================================================================
