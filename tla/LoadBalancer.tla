---------------------------- MODULE LoadBalancer ----------------------------
(***************************************************************************)
(* core::LoadBalancer (src/src/core/LoadBalancer.cpp): the metrics table   *)
(* core_metrics_ behind metrics_mutex_, the task tables tasks_ and         *)
(* task_status_ behind task_mutex_, the run/pause flags, and the detached  *)
(* monitor thread.  Client threads call the public operations; the         *)
(* monitor runs monitor_cores().                                           *)
(*                                                                         *)
(* A step is one critical section, or the part of a call between two lock *)
(* acquisitions.  A call whose first act is to take a free mutex starts    *)
(* with that step: a thread waiting to enter a call holds nothing, so it   *)
(* can never close a wait-for cycle.  A thread whose pc needs a mutex that *)
(* is held (by anyone, itself included: std::mutex is not recursive and    *)
(* glibc blocks a relocking thread forever) has no enabled step.           *)
(* state_mutex_ is never held across a step, so it is not a variable.      *)
(* The calls made into the engines (submit_task, cancel_task,              *)
(* optimize_core_performance, ...) change no state of the balancer and are *)
(* left out.                                                               *)
(***************************************************************************)
EXTENDS Integers, FiniteSets, TLC, Relation

CONSTANTS
    Clients,        \* threads calling the public API
    Monitor,        \* the thread running monitor_cores()
    WithMonitor,    \* whether start() has spawned the monitor
    NumCores,       \* compute_engine_->get_system_metrics().size()
    Usage,          \* usage levels in percent, e.g. {0, 90}
    Payloads,       \* what tells two submitted tasks apart
    AssignedCores,  \* assigned_core values a caller's Task may carry
    Ops,            \* which public operations the clients call
    MaxCalls,       \* bound: calls per client
    NoOwner, NoCore

ASSUME NumCores \in Nat \ {0} /\ MaxCalls \in Nat
ASSUME Ops \subseteq {"submit", "cancel", "update", "mark", "adjust",
                      "rebalance", "optimize", "pause", "resume", "stop"}

Cores == 0 .. NumCores - 1
Threads == Clients \cup (IF WithMonitor THEN {Monitor} ELSE {})
Locks == {"metrics", "task"}
MaxId == Cardinality(Clients) * MaxCalls

\* CoreMetrics: the three usage figures and is_healthy.
Metric == [cpu : Usage, mem : Usage, net : Usage, healthy : BOOLEAN]
\* "usage > 0.8" on any of the three figures (rebalance_load, adjust_resources).
Over(u) == u > 80
Overloaded(m) == Over(m.cpu) \/ Over(m.mem) \/ Over(m.net)

VARIABLES
    owner,          \* holder of metrics_mutex_ and task_mutex_
    running,        \* running_
    paused,         \* paused_
    core_metrics,   \* core_metrics_: core id -> Metric (partial)
    tasks,          \* tasks_: task id -> [payload, assigned]
    status,         \* task_status_: task id -> status
    pc,
    calls,          \* calls made so far by each client
    item,           \* the Task a client is submitting
    core,           \* the core a thread is working on (loop index, argument)
    overloaded      \* rebalance_load's overloaded_cores still to visit

vars == <<owner, running, paused, core_metrics, tasks, status, pc, calls,
          item, core, overloaded>>

Free(l) == owner[l] = NoOwner
Take(l, t) == owner' = [owner EXCEPT ![l] = t]
Release(l) == owner' = [owner EXCEPT ![l] = NoOwner]

\* A client starting a public call whose first act is a critical section.
Call(t) == /\ t \in Clients
           /\ pc[t] = "idle"
           /\ calls[t] < MaxCalls
           /\ calls' = [calls EXCEPT ![t] = @ + 1]

Healthy == {c \in DOMAIN core_metrics : core_metrics[c].healthy}
Score(m) == 4 * m.cpu + 3 * m.mem + 3 * m.net
\* The cores find_least_loaded_core may return: a healthy core of minimal
\* score.  Which one of several ties it returns depends on the iteration
\* order of the unordered_map, so any of them.
LeastLoaded == {c \in Healthy : \A d \in Healthy :
                    Score(core_metrics[c]) <= Score(core_metrics[d])}
\* The loop of find_least_loaded_core itself, over the table in a given
\* iteration order.
CS == INSTANCE CoreSelection WITH order <- <<>>

-----------------------------------------------------------------------------
(* Mutants: plausible bugs in the code, used to show that the properties  *)
(* below can fail.                                                         *)

\* The monitor's collection loop running to i <= metrics.size().
MonUpdateOffByOne(t) ==
    /\ t = Monitor /\ pc[t] = "mon_update" /\ Free("metrics")
    /\ \E m \in Metric :
         /\ m.healthy
         /\ core_metrics' = (core[t] :> m) @@ core_metrics
    /\ core' = [core EXCEPT ![t] = @ + 1]
    /\ pc' = [pc EXCEPT ![t] = IF core[t] = NumCores THEN "mon_lock"
                                                     ELSE "mon_update"]
    /\ UNCHANGED <<owner, running, paused, tasks, status, calls, item,
                   overloaded>>

-----------------------------------------------------------------------------
(* Task table: submit_task, cancel_task.                                   *)

\* submit_task: lock_guard on task_mutex_.
SubmitTask(t) ==
    /\ Call(t) /\ "submit" \in Ops /\ Free("task")
    /\ Take("task", t)
    /\ \E p \in Payloads, a \in AssignedCores :
         item' = [item EXCEPT ![t] = [payload |-> p, assigned |-> a]]
    /\ pc' = [pc EXCEPT ![t] = "sub_find"]
    /\ UNCHANGED <<running, paused, core_metrics, tasks, status, core,
                   overloaded>>

\* find_least_loaded_core() under metrics_mutex_, with task_mutex_ still
\* held; then either the NoAvailableCore throw or the store of the task
\* under id tasks_.size() + 1.  The chosen core is not recorded anywhere:
\* the stored Task keeps the caller's assigned_core.  Both ways out release
\* task_mutex_.
SubFind(t) ==
    /\ pc[t] = "sub_find" /\ Free("metrics")
    /\ Release("task")
    /\ pc' = [pc EXCEPT ![t] = "idle"]
    /\ IF LeastLoaded = {}
         THEN UNCHANGED <<tasks, status>>
         ELSE LET id == Cardinality(DOMAIN tasks) + 1 IN
              /\ tasks' = (id :> item[t]) @@ tasks
              /\ status' = (id :> "PENDING") @@ status
    /\ UNCHANGED <<running, paused, core_metrics, calls, item, core,
                   overloaded>>

\* cancel_task(task_id): a known id becomes CANCELLED whatever its status.
CancelTask(t) ==
    /\ Call(t) /\ "cancel" \in Ops /\ Free("task")
    /\ \E id \in 1 .. MaxId :
         status' = IF id \in DOMAIN tasks
                     THEN [status EXCEPT ![id] = "CANCELLED"] ELSE status
    /\ UNCHANGED <<owner, running, paused, core_metrics, tasks, pc, item,
                   core, overloaded>>

-----------------------------------------------------------------------------
(* Metrics table: update_core_metrics, mark_core_unhealthy,               *)
(* adjust_resources, rebalance_load (with redistribute_tasks),            *)
(* optimize_distribution.                                                  *)

\* update_core_metrics(core_id, metrics): last write wins; the caller's
\* CoreMetrics carries is_healthy.
UpdateCoreMetrics(t) ==
    /\ Call(t) /\ "update" \in Ops /\ Free("metrics")
    /\ \E c \in Cores, m \in Metric : core_metrics' = (c :> m) @@ core_metrics
    /\ UNCHANGED <<owner, running, paused, tasks, status, pc, item, core,
                   overloaded>>

\* mark_core_unhealthy(core_id): with metrics_mutex_ held, a known core is
\* marked unhealthy and handle_core_failure calls mark_core_unhealthy
\* again, whose lock_guard needs metrics_mutex_ once more.
MarkCoreUnhealthy(t) ==
    /\ Call(t) /\ "mark" \in Ops /\ Free("metrics")
    /\ \E c \in Cores :
         IF c \in DOMAIN core_metrics
           THEN /\ core_metrics' = [core_metrics EXCEPT ![c].healthy = FALSE]
                /\ Take("metrics", t)
                /\ pc' = [pc EXCEPT ![t] = "mark_relock"]
                /\ core' = [core EXCEPT ![t] = c]
           ELSE UNCHANGED <<core_metrics, owner, pc, core>>
    /\ UNCHANGED <<running, paused, tasks, status, item, overloaded>>

\* adjust_resources(core_id): copy the metrics under the lock, release it,
\* then call rebalance_load() when network usage is over 0.8 (the cpu and
\* memory branches call into the engines only).
AdjustResources(t) ==
    /\ Call(t) /\ "adjust" \in Ops /\ Free("metrics")
    /\ \E c \in Cores :
         pc' = [pc EXCEPT ![t] = IF c \in DOMAIN core_metrics
                                      /\ Over(core_metrics[c].net)
                                   THEN "reb_lock" ELSE "idle"]
    /\ UNCHANGED <<owner, running, paused, core_metrics, tasks, status, item,
                   core, overloaded>>

\* A client calling rebalance_load() directly.
CallRebalance(t) ==
    /\ Call(t) /\ "rebalance" \in Ops
    /\ pc' = [pc EXCEPT ![t] = "reb_lock"]
    /\ UNCHANGED <<owner, running, paused, core_metrics, tasks, status, item,
                   core, overloaded>>

\* rebalance_load: lock metrics_mutex_ (held to the end) and collect the
\* cores with some usage over 0.8.
RebLock(t) ==
    /\ pc[t] = "reb_lock" /\ Free("metrics")
    /\ Take("metrics", t)
    /\ overloaded' = [overloaded EXCEPT ![t] =
                        {c \in DOMAIN core_metrics : Overloaded(core_metrics[c])}]
    /\ pc' = [pc EXCEPT ![t] = "reb_next"]
    /\ UNCHANGED <<running, paused, core_metrics, tasks, status, calls, item,
                   core>>

\* The loop over overloaded_cores, in the map's iteration order; at its end
\* the lock_guard releases metrics_mutex_.
RebNext(t) ==
    /\ pc[t] = "reb_next"
    /\ IF overloaded[t] = {}
         THEN /\ Release("metrics")
              /\ pc' = [pc EXCEPT ![t] = "idle"]
              /\ UNCHANGED <<core, overloaded>>
         ELSE \E c \in overloaded[t] :
              /\ core' = [core EXCEPT ![t] = c]
              /\ overloaded' = [overloaded EXCEPT ![t] = @ \ {c}]
              /\ pc' = [pc EXCEPT ![t] = "redist_lock"]
              /\ UNCHANGED owner
    /\ UNCHANGED <<running, paused, core_metrics, tasks, status, calls, item>>

\* redistribute_tasks(core_id), entered with metrics_mutex_ held: lock
\* task_mutex_ and collect the tasks whose assigned_core is core_id.  With
\* none, it releases task_mutex_ and returns; with some, the first
\* find_least_loaded_core() needs metrics_mutex_, which this thread holds.
RedistLock(t) ==
    /\ pc[t] = "redist_lock" /\ Free("task")
    /\ IF \E id \in DOMAIN tasks : tasks[id].assigned = core[t]
         THEN /\ Take("task", t)
              /\ pc' = [pc EXCEPT ![t] = "redist_find"]
         ELSE /\ pc' = [pc EXCEPT ![t] = "reb_next"]
              /\ UNCHANGED owner
    /\ UNCHANGED <<running, paused, core_metrics, tasks, status, calls, item,
                   core, overloaded>>

\* optimize_distribution(): reads the table under metrics_mutex_ and calls
\* into the engines only.
OptimizeDistribution(t) ==
    /\ Call(t) /\ "optimize" \in Ops /\ Free("metrics")
    /\ UNCHANGED <<owner, running, paused, core_metrics, tasks, status, pc,
                   item, core, overloaded>>

-----------------------------------------------------------------------------
(* Run state: pause, resume, stop (each one state_mutex_ section).        *)

Pause(t) ==
    /\ Call(t) /\ "pause" \in Ops
    /\ paused' = TRUE
    /\ UNCHANGED <<owner, running, core_metrics, tasks, status, pc, item, core,
                   overloaded>>

\* resume(): paused_ = false and state_cv_.notify_all() under state_mutex_,
\* so a monitor asleep on state_cv_ retests its predicate.
Resume(t) ==
    /\ Call(t) /\ "resume" \in Ops
    /\ paused' = FALSE
    /\ pc' = IF WithMonitor /\ pc[Monitor] = "mon_sleep"
             THEN [pc EXCEPT ![Monitor] = "mon_wait"] ELSE pc
    /\ UNCHANGED <<owner, running, core_metrics, tasks, status, item, core,
                   overloaded>>

\* stop(): running_.exchange(false), then wait on state_cv_ for !running_,
\* which already holds, so it returns at once.
Stop(t) ==
    /\ Call(t) /\ "stop" \in Ops
    /\ running' = FALSE
    /\ UNCHANGED <<owner, paused, core_metrics, tasks, status, pc, item, core,
                   overloaded>>

-----------------------------------------------------------------------------
(* The monitor thread, monitor_cores().                                    *)

\* while (running_), then under state_mutex_ the test of state_cv_'s
\* predicate !paused_ || !running_: true leaves the loop when running_ is
\* false and goes on to the metrics otherwise; false puts the monitor to
\* sleep on state_cv_, from which only resume()'s notify_all wakes it
\* (stop() and start() do not notify).
MonWait(t) ==
    /\ t = Monitor /\ pc[t] = "mon_wait"
    /\ pc' = [pc EXCEPT ![t] = IF ~running THEN "mon_exited"
                               ELSE IF paused THEN "mon_sleep" ELSE "mon_update"]
    /\ core' = [core EXCEPT ![t] = 0]
    /\ UNCHANGED <<owner, running, paused, core_metrics, tasks, status, calls,
                   item, overloaded>>

\* update_core_metrics(i, ...) for i < metrics.size(), with whatever usage
\* the engine reports and is_healthy = true.
MonUpdate(t) ==
    /\ t = Monitor /\ pc[t] = "mon_update" /\ Free("metrics")
    /\ \E m \in Metric :
         /\ m.healthy
         /\ core_metrics' = (core[t] :> m) @@ core_metrics
    /\ core' = [core EXCEPT ![t] = @ + 1]
    /\ pc' = [pc EXCEPT ![t] = IF core[t] = NumCores - 1 THEN "mon_lock"
                                                         ELSE "mon_update"]
    /\ UNCHANGED <<owner, running, paused, tasks, status, calls, item,
                   overloaded>>

\* The lock_guard on metrics_mutex_ before the health loop.  Every way on
\* from here (handle_core_failure -> mark_core_unhealthy, adjust_resources,
\* optimize_distribution) locks metrics_mutex_ again.
MonLock(t) ==
    /\ t = Monitor /\ pc[t] = "mon_lock" /\ Free("metrics")
    /\ Take("metrics", t)
    /\ pc' = [pc EXCEPT ![t] = "mon_relock"]
    /\ UNCHANGED <<running, paused, core_metrics, tasks, status, calls, item,
                   core, overloaded>>

-----------------------------------------------------------------------------

Init ==
    /\ owner = [l \in Locks |-> NoOwner]
    /\ running = TRUE
    /\ paused = FALSE
    /\ core_metrics = <<>>
    /\ tasks = <<>>
    /\ status = <<>>
    /\ pc = [t \in Threads |-> IF t = Monitor THEN "mon_wait" ELSE "idle"]
    /\ calls = [t \in Clients |-> 0]
    /\ item = [t \in Threads |-> [payload |-> CHOOSE p \in Payloads : TRUE,
                                  assigned |-> NoCore]]
    /\ core = [t \in Threads |-> 0]
    /\ overloaded = [t \in Threads |-> {}]

Client(t) ==
    \/ SubmitTask(t) \/ SubFind(t) \/ CancelTask(t)
    \/ UpdateCoreMetrics(t) \/ MarkCoreUnhealthy(t) \/ AdjustResources(t)
    \/ CallRebalance(t) \/ RebLock(t) \/ RebNext(t) \/ RedistLock(t)
    \/ OptimizeDistribution(t) \/ Pause(t) \/ Resume(t) \/ Stop(t)

MonitorStep(t) == MonWait(t) \/ MonUpdate(t) \/ MonLock(t)

Next == \E t \in Threads : Client(t) \/ MonitorStep(t)

Spec == Init /\ [][Next]_vars

-----------------------------------------------------------------------------

TypeOK ==
    /\ owner \in [Locks -> Threads \cup {NoOwner}]
    /\ running \in BOOLEAN /\ paused \in BOOLEAN
    /\ DOMAIN core_metrics \subseteq Cores
    /\ \A c \in DOMAIN core_metrics : core_metrics[c] \in Metric
    /\ DOMAIN tasks \subseteq 1 .. MaxId
    /\ DOMAIN status = DOMAIN tasks
    /\ \A id \in DOMAIN tasks :
         /\ tasks[id] \in [payload : Payloads, assigned : AssignedCores]
         /\ status[id] \in {"PENDING", "CANCELLED"}
    /\ calls \in [Clients -> 0 .. MaxCalls]
    /\ core \in [Threads -> 0 .. NumCores]
    /\ overloaded \in [Threads -> SUBSET Cores]

\* The mutex each pc waits for next, or "none".
Needs(t) ==
    CASE pc[t] \in {"sub_find", "reb_lock", "mark_relock", "redist_find",
                    "mon_update", "mon_lock", "mon_relock"} -> "metrics"
      [] pc[t] = "redist_lock" -> "task"
      [] OTHER -> "none"

\* a waits for b: a needs a mutex that b holds.
WaitsFor == [p \in Threads \X Threads |->
                /\ Needs(p[1]) \in Locks
                /\ owner[Needs(p[1])] = p[2]]

\* No set of threads waits in a cycle on metrics_mutex_ and task_mutex_ (a
\* thread relocking a mutex it holds is a cycle of one).  This is what
\* section 5 of the spec asks of the two tables' locks: they are never
\* nested, so lock-order inversion cannot happen during failure handling.
NoDeadlock == IsIrreflexive(TransitiveClosure(WaitsFor, Threads), Threads)

\* find_least_loaded_core's loop, whatever the order in which the
\* unordered_map is iterated, returns a healthy core of least composite
\* score, and -1 (the NoAvailableCore throw of submit_task and
\* redistribute_tasks) only when no core is healthy: the choice the
\* actions above make from LeastLoaded is the choice the code's loop makes,
\* in every metrics table the monitor and update_core_metrics produce.
SelectionIsLeastLoaded ==
    \A ord \in CS!SetToSeqs(DOMAIN core_metrics) :
        LET s == CS!FindLeastLoadedCore(core_metrics, ord) IN
        IF LeastLoaded = {} THEN s = NoCore ELSE s \in LeastLoaded

\* The comment in stop() says it waits for the monitoring thread to stop:
\* once running_ is false, the monitor has left monitor_cores().
StopJoinsMonitor ==
    WithMonitor /\ ~running => pc[Monitor] = "mon_exited"

=============================================================================
