---------------------------- MODULE NetworkManager ----------------------------
(***************************************************************************)
(* core::NetworkManager (src/src/core/NetworkManager.cpp): the connection  *)
(* table connections_ behind connection_mutex_, the task tables behind     *)
(* task_mutex_, metrics_ behind metrics_mutex_, the running_/paused_ flags *)
(* with state_mutex_ and state_cv_, and the detached monitor thread that   *)
(* start() spawns.  core::StorageManager (StorageManager.cpp) repeats the  *)
(* same code with files for connections and file_mutex_ for              *)
(* connection_mutex_; it is not modelled separately and has the same      *)
(* relocks and monitor start/stop.                                         *)
(*                                                                         *)
(* As in LoadBalancer, a step is one critical section or the part of a    *)
(* call between two lock acquisitions, and a thread whose pc needs a mutex *)
(* it already holds has no enabled step: std::mutex is not recursive.     *)
(* The socket calls of connect() may fail (it then throws before taking   *)
(* the lock); the Connection and NetworkCore objects are external, so a   *)
(* connection is an object number and the calls made on it (send,        *)
(* receive, is_healthy, recover) are nondeterministic or left out.  The   *)
(* monitor's one-second sleep is left out.                                 *)
(***************************************************************************)
EXTENDS Integers, FiniteSets

CONSTANTS
    Clients,        \* threads calling the public API
    NoOwner,        \* no thread holds the mutex
    NumCores,       \* cores_.size(), as ParentCore::initialize_cores leaves it
    TaskIds,        \* task ids given to submit_task / cancel_task
    Ops,            \* which public operations the clients call
    MaxCalls,       \* bound: calls per client
    MaxStarts       \* bound: monitor threads spawned

\* task_id % cores_.size() divides by zero when no core was initialized;
\* the model covers configurations with at least one core (see README).
ASSUME NumCores \in Nat \ {0} /\ MaxCalls \in Nat /\ MaxStarts \in Nat
ASSUME Ops \subseteq {"start", "stop", "pause", "resume", "connect",
                      "disconnect", "transfer", "submit", "cancel"}

Monitors == 1 .. MaxStarts
Threads  == Clients \cup Monitors
Locks    == {"state", "conn", "task", "metrics"}
MaxConns == Cardinality(Clients) * MaxCalls
Ids      == 1 .. MaxConns + 1

VARIABLES
    owner,      \* holder of each mutex
    running,    \* running_
    paused,     \* paused_
    conns,      \* connections_: id -> object number, 0 when absent
    made,       \* Connection objects created so far
    tasks,      \* task_status_: task id -> "none", "PENDING", "CANCELLED"
    metrics,    \* metrics_.active_connections
    mcount,     \* the monitor's new_metrics.active_connections
    spawned,    \* monitor threads started so far
    pc,         \* each thread's place
    calls       \* calls made so far by each client

vars == <<owner, running, paused, conns, made, tasks, metrics, mcount,
          spawned, pc, calls>>

Free(l) == owner[l] = NoOwner
Take(l, t) == owner' = [owner EXCEPT ![l] = t]
Release(l) == owner' = [owner EXCEPT ![l] = NoOwner]
Live == {i \in Ids : conns[i] # 0}

CPc == {"idle", "stop_lock", "stop_wait", "stop_conn", "stop_relock",
        "disc_relock"}
MPc == {"unborn", "top", "lock_state", "cv_wait", "collect", "update",
        "health", "relock", "exited"}

TypeOK ==
    /\ owner \in [Locks -> Threads \cup {NoOwner}]
    /\ running \in BOOLEAN /\ paused \in BOOLEAN
    /\ conns \in [Ids -> 0 .. MaxConns]
    /\ made \in 0 .. MaxConns
    /\ tasks \in [TaskIds -> {"none", "PENDING", "CANCELLED"}]
    /\ metrics \in 0 .. MaxConns /\ mcount \in [Monitors -> 0 .. MaxConns]
    /\ spawned \in 0 .. MaxStarts
    /\ DOMAIN pc = Threads
    /\ \A c \in Clients : pc[c] \in CPc
    /\ \A g \in Monitors : pc[g] \in MPc
    /\ calls \in [Clients -> 0 .. MaxCalls]

\* After the constructor and ParentCore::initialize_cores: not running,
\* no connection, no monitor.
Init ==
    /\ owner = [l \in Locks |-> NoOwner]
    /\ running = FALSE /\ paused = FALSE
    /\ conns = [i \in Ids |-> 0] /\ made = 0
    /\ tasks = [t \in TaskIds |-> "none"]
    /\ metrics = 0 /\ mcount = [g \in Monitors |-> 0]
    /\ spawned = 0
    /\ pc = [t \in Threads |-> IF t \in Clients THEN "idle" ELSE "unborn"]
    /\ calls = [c \in Clients |-> 0]

Call(c, op) ==
    /\ op \in Ops /\ pc[c] = "idle" /\ calls[c] < MaxCalls
    /\ calls' = [calls EXCEPT ![c] = @ + 1]

Goto(t, where) == pc' = [pc EXCEPT ![t] = where]

-----------------------------------------------------------------------------
(* Client calls.                                                           *)

\* start(): running_.exchange(true); a new detached monitor thread unless
\* running_ was already true.
Start(c) ==
    /\ Call(c, "start")
    /\ IF running
       THEN UNCHANGED <<pc, spawned>>
       ELSE /\ spawned < MaxStarts
            /\ spawned' = spawned + 1
            /\ pc' = [pc EXCEPT ![spawned + 1] = "top"]
    /\ running' = TRUE
    /\ UNCHANGED <<owner, paused, conns, made, tasks, metrics, mcount>>

\* stop(): running_.exchange(false), returning if it was already false.
StopBegin(c) ==
    /\ Call(c, "stop")
    /\ running' = FALSE
    /\ Goto(c, IF running THEN "stop_lock" ELSE "idle")
    /\ UNCHANGED <<owner, paused, conns, made, tasks, metrics, mcount,
                   spawned>>

\* unique_lock(state_mutex_) and state_cv_.wait(lock, !running_): the
\* predicate is tested under the mutex; false (a start() came in between)
\* puts the thread to sleep on state_cv_ and releases the mutex.
StopLock(c) ==
    /\ pc[c] = "stop_lock" /\ Free("state")
    /\ IF running
       THEN Goto(c, "stop_wait") /\ UNCHANGED owner
       ELSE Goto(c, "stop_conn") /\ Take("state", c)
    /\ UNCHANGED <<running, paused, conns, made, tasks, metrics, mcount,
                   spawned, calls>>

\* Still holding state_mutex_, lock connection_mutex_; for each connection
\* cleanup_connection(id) locks connection_mutex_ again, so with any
\* connection the thread blocks for ever holding both.  With none,
\* connections_.clear() and both mutexes are released.
StopConn(c) ==
    /\ pc[c] = "stop_conn" /\ Free("conn")
    /\ IF Live = {}
       THEN Goto(c, "idle") /\ Release("state")
       ELSE Goto(c, "stop_relock") /\ Take("conn", c)
    /\ UNCHANGED <<running, paused, conns, made, tasks, metrics, mcount,
                   spawned, calls>>

\* pause(): paused_ = true under state_mutex_.
Pause(c) ==
    /\ Call(c, "pause") /\ Free("state")
    /\ paused' = TRUE
    /\ UNCHANGED <<owner, running, conns, made, tasks, metrics, mcount,
                   spawned, pc>>

\* resume(): paused_ = false and state_cv_.notify_all() under state_mutex_:
\* every thread asleep on state_cv_ goes back to re-locking the mutex.
Resume(c) ==
    /\ Call(c, "resume") /\ Free("state")
    /\ paused' = FALSE
    /\ pc' = [t \in Threads |->
                CASE pc[t] = "stop_wait" -> "stop_lock"
                  [] pc[t] = "cv_wait"   -> "lock_state"
                  [] OTHER               -> pc[t]]
    /\ UNCHANGED <<owner, running, conns, made, tasks, metrics, mcount,
                   spawned>>

\* connect(): the socket calls fail and throw, or the connection is stored
\* under connection_mutex_ as id connections_.size() + 1.
Connect(c) ==
    /\ Call(c, "connect")
    /\ \/ UNCHANGED <<conns, made>>
       \/ /\ Free("conn")
          /\ LET id == Cardinality(Live) + 1 IN
             conns' = [conns EXCEPT ![id] = made + 1]
          /\ made' = made + 1
    /\ UNCHANGED <<owner, running, paused, tasks, metrics, mcount, spawned, pc>>

\* disconnect(id): under connection_mutex_, an unknown id returns; a known
\* one goes to cleanup_connection(id), which locks connection_mutex_ again
\* and blocks for ever.
Disconnect(c, id) ==
    /\ Call(c, "disconnect") /\ Free("conn")
    /\ IF conns[id] = 0
       THEN UNCHANGED <<owner, pc>>
       ELSE Take("conn", c) /\ Goto(c, "disc_relock")
    /\ UNCHANGED <<running, paused, conns, made, tasks, metrics, mcount,
                   spawned>>

\* send, receive and broadcast: one critical section on connection_mutex_
\* that changes no table.
Transfer(c) ==
    /\ Call(c, "transfer") /\ Free("conn")
    /\ UNCHANGED <<owner, running, paused, conns, made, tasks, metrics,
                   mcount, spawned, pc>>

\* submit_task(id, task): stored as PENDING under task_mutex_ and passed to
\* cores_[id % cores_.size()].
SubmitTask(c, t) ==
    /\ Call(c, "submit") /\ Free("task")
    /\ tasks' = [tasks EXCEPT ![t] = "PENDING"]
    /\ UNCHANGED <<owner, running, paused, conns, made, metrics, mcount,
                   spawned, pc>>

\* cancel_task(id): an unknown id returns; otherwise the core is told and
\* the status becomes CANCELLED.
CancelTask(c, t) ==
    /\ Call(c, "cancel") /\ Free("task")
    /\ tasks' = IF tasks[t] = "none" THEN tasks ELSE [tasks EXCEPT ![t] = "CANCELLED"]
    /\ UNCHANGED <<owner, running, paused, conns, made, metrics, mcount,
                   spawned, pc>>

-----------------------------------------------------------------------------
(* The monitor thread, monitor_connections().                              *)

\* while (running_): the loop test.
MTop(g) ==
    /\ pc[g] = "top"
    /\ Goto(g, IF running THEN "lock_state" ELSE "exited")
    /\ UNCHANGED <<owner, running, paused, conns, made, tasks, metrics, mcount,
                   spawned, calls>>

\* Under state_mutex_, wait until !paused_ || !running_ (sleeping on
\* state_cv_ otherwise), then break out if !running_.
MLockState(g) ==
    /\ pc[g] = "lock_state" /\ Free("state")
    /\ Goto(g, IF paused /\ running THEN "cv_wait"
               ELSE IF running THEN "collect" ELSE "exited")
    /\ UNCHANGED <<owner, running, paused, conns, made, tasks, metrics, mcount,
                   spawned, calls>>

\* new_metrics summed over connections_ under connection_mutex_.
MCollect(g) ==
    /\ pc[g] = "collect" /\ Free("conn")
    /\ mcount' = [mcount EXCEPT ![g] = Cardinality(Live)]
    /\ Goto(g, "update")
    /\ UNCHANGED <<owner, running, paused, conns, made, tasks, metrics,
                   spawned, calls>>

\* update_metrics(new_metrics): metrics_ = metrics under metrics_mutex_.
MUpdate(g) ==
    /\ pc[g] = "update" /\ Free("metrics")
    /\ metrics' = mcount[g]
    /\ Goto(g, "health")
    /\ UNCHANGED <<owner, running, paused, conns, made, tasks, mcount,
                   spawned, calls>>

\* The health sweep holds connection_mutex_ and calls, for each connection,
\* handle_connection_failure or optimize_connection, both of which lock
\* connection_mutex_ again: with any connection the monitor blocks for
\* ever holding it.  With none it goes round the loop.
MHealth(g) ==
    /\ pc[g] = "health" /\ Free("conn")
    /\ IF Live = {}
       THEN Goto(g, "top") /\ UNCHANGED owner
       ELSE Goto(g, "relock") /\ Take("conn", g)
    /\ UNCHANGED <<running, paused, conns, made, tasks, metrics, mcount,
                   spawned, calls>>

Client(c) ==
    \/ Start(c) \/ StopBegin(c) \/ StopLock(c) \/ StopConn(c)
    \/ Pause(c) \/ Resume(c) \/ Connect(c) \/ Transfer(c)
    \/ \E id \in Ids : Disconnect(c, id)
    \/ \E t \in TaskIds : SubmitTask(c, t) \/ CancelTask(c, t)
Monitor(g) == MTop(g) \/ MLockState(g) \/ MCollect(g) \/ MUpdate(g) \/ MHealth(g)

Next == (\E c \in Clients : Client(c)) \/ (\E g \in Monitors : Monitor(g))

Spec == Init /\ [][Next]_vars

-----------------------------------------------------------------------------
(* Properties.                                                             *)

\* The monitor is a detached thread that start() spawns whenever running_
\* was false, and stop()'s comment says it waits for the monitoring thread
\* to stop: at most one monitor is ever inside monitor_connections().  The
\* wait is on !running_, which stop()'s own exchange has made true, so a
\* start() after a stop() spawns a second monitor while the first may still
\* be between its loop test and its next read of running_.
AtMostOneMonitor ==
    \A g, h \in Monitors : pc[g] \notin {"unborn", "exited"}
                          /\ pc[h] \notin {"unborn", "exited"} => g = h
=============================================================================
