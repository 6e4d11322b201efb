------------------------------ MODULE ServerPool ------------------------------
(***************************************************************************)
(* loadbalancer::LoadBalancer (src/src/load_balancer/load_balancer.cpp and *)
(* src/include/load_balancer/load_balancer.h): the server table keyed by   *)
(* address, the four selection algorithms and the health-check thread.     *)
(*                                                                         *)
(* Every public call holds servers_mutex_ for its whole body, so a call is *)
(* one atomic step on the table: the calls are operators on a table        *)
(* record, and what sequences of calls reach is a set of tables.  The      *)
(* iteration order of the unordered_map is unspecified, so the selection   *)
(* operators take it as an argument (a sequence listing the addresses) and *)
(* the checks range over every order.  Time stamps (last_used,             *)
(* last_health_check) are written and never read; they are left out.      *)
(***************************************************************************)
EXTENDS Integers, Sequences, FiniteSets, TLC

\* The algorithms of load_balancer.h:16-23; the last two have no case in
\* get_next_server and take its default.
Algorithms == {"ROUND_ROBIN", "LEAST_CONNECTIONS", "WEIGHTED_ROUND_ROBIN",
               "LEAST_RESPONSE_TIME", "IP_HASH", "CONSISTENT_HASH"}

\* A Server as add_server builds it: config copied, stats at their defaults
\* (load_balancer.h:25-33), so stats.weight is 1 whatever config.weight is.
\* response_time_ms is a double, kept as the exact fraction rt[1] / rt[2].
NewServer(cw) == [cw |-> cw, w |-> 1, conns |-> 0, total |-> 0, failed |-> 0,
                  rt |-> <<0, 1>>, healthy |-> TRUE]

\* A balancer just constructed: no servers, current_server_index_ 0.
PoolEmpty == [servers |-> [a \in {} |-> NewServer(1)], idx |-> 0]

\* add_server: servers_[address] = server, replacing any server there.
AddServer(p, a, cw) == [p EXCEPT !.servers = (a :> NewServer(cw)) @@ @]

\* remove_server: servers_.erase(address).
RemoveServer(p, a) ==
    [p EXCEPT !.servers = [x \in DOMAIN p.servers \ {a} |-> p.servers[x]]]

\* update_server_weight: both weights, if the server is there.
UpdateServerWeight(p, a, w) ==
    IF a \in DOMAIN p.servers
    THEN [p EXCEPT !.servers[a].cw = w, !.servers[a].w = w]
    ELSE p

\* update_server_stats: one more request, one more failure unless success,
\* and response_time_ms = 0.1 * ms + 0.9 * response_time_ms.
UpdateServerStats(s, ok, ms) ==
    [s EXCEPT !.total = @ + 1,
              !.failed = IF ok THEN @ ELSE @ + 1,
              !.rt = <<ms * @[2] + 9 * @[1], 10 * @[2]>>]

\* report_server_response: the stats of a server that is there.
ReportServerResponse(p, a, ok, ms) ==
    IF a \in DOMAIN p.servers
    THEN [p EXCEPT !.servers[a] = UpdateServerStats(@, ok, ms)]
    ELSE p

\* check_server_health is a placeholder that returns true.
CheckServerHealth(s) == TRUE

\* One pass of the health thread's loop: every server checked is marked
\* healthy, every other one erased by remove_unhealthy_server.
HealthSweep(p) ==
    LET kept == {a \in DOMAIN p.servers : CheckServerHealth(p.servers[a])}
    IN  [p EXCEPT !.servers = [a \in kept |-> [p.servers[a] EXCEPT !.healthy = TRUE]]]

\* The iteration orders the unordered_map may have.
Orders(p) ==
    LET n == Cardinality(DOMAIN p.servers)
    IN  {o \in [1 .. n -> DOMAIN p.servers] : \A i, j \in 1 .. n : o[i] = o[j] => i = j}

\* std::min_element with comparator less (the set of pairs <<a, b>> with a
\* less than b): the first element no other element is less than.
FirstMin(o, less) ==
    LET least(i) == \A j \in DOMAIN o : <<o[j], o[i]>> \notin less
    IN  o[CHOOSE i \in DOMAIN o : least(i) /\ \A j \in 1 .. i - 1 : ~least(j)]

\* current_weight after the loop has added the weights of o[1..k], as a
\* uint32.  The model's weights are small, so the sum never wraps.
RECURSIVE Prefix(_, _, _)
Prefix(p, o, k) == IF k = 0 THEN 0 ELSE Prefix(p, o, k - 1) + p.servers[o[k]].w

TotalWeight(p, o) == Prefix(p, o, Len(o))

\* The draws of dis(0, total_weight - 1).  For total 0 the upper bound is
\* (0 - 1) mod 2^32; every draw then passes the loop and the pick does not
\* depend on it, so the single draw 0 stands for that whole range.
Draws(p, o) == IF TotalWeight(p, o) > 0 THEN 0 .. TotalWeight(p, o) - 1 ELSE {0}

\* The loop of get_next_server_weighted_round_robin: the first server whose
\* running weight exceeds the draw, else servers_.begin().
WeightedPick(p, o, r) ==
    LET ks == {k \in DOMAIN o : r < Prefix(p, o, k)}
    IN  IF ks = {} THEN o[1] ELSE o[CHOOSE k \in ks : \A j \in ks : k <= j]

\* The comparators given to min_element: response_time_ms of a below that
\* of b (compared exactly), and active_connections of a below that of b.
RtLess(p, a, b) == p.servers[a].rt[1] * p.servers[b].rt[2]
                    < p.servers[b].rt[1] * p.servers[a].rt[2]
ConnsLess(p, a, b) == p.servers[a].conns < p.servers[b].conns

\* get_next_server with iteration order o and draw r: the address returned
\* ("" for an empty table) and the table after the call; only round robin
\* changes it, by current_server_index_++.
GetNextServer(p, alg, o, r) ==
    LET Ord == (DOMAIN p.servers) \X (DOMAIN p.servers) IN
    IF DOMAIN p.servers = {} THEN [ret |-> "", pool |-> p]
    ELSE CASE alg = "LEAST_CONNECTIONS" -> [ret |-> FirstMin(o, {q \in Ord : ConnsLess(p, q[1], q[2])}), pool |-> p]
           [] alg = "WEIGHTED_ROUND_ROBIN" -> [ret |-> WeightedPick(p, o, r), pool |-> p]
           [] alg = "LEAST_RESPONSE_TIME" -> [ret |-> FirstMin(o, {q \in Ord : RtLess(p, q[1], q[2])}), pool |-> p]
           [] OTHER -> [ret |-> o[(p.idx % Len(o)) + 1],
                        pool |-> [p EXCEPT !.idx = @ + 1]]

\* One more call by a client, arguments drawn from the addresses as, the
\* config weights cws, the weights ws and the response times mss (the
\* weighted draw changes no state, so one draw stands for all).
Calls(P, as, cws, ws, mss) ==
    P \cup {AddServer(p, a, cw) : p \in P, a \in as, cw \in cws}
      \cup {RemoveServer(p, a) : p \in P, a \in as}
      \cup {UpdateServerWeight(p, a, w) : p \in P, a \in as, w \in ws}
      \cup {ReportServerResponse(p, a, ok, ms) : p \in P, a \in as, ok \in BOOLEAN, ms \in mss}
      \cup {HealthSweep(p) : p \in P}
      \cup UNION {{GetNextServer(p, alg, o, 0).pool :
                      alg \in Algorithms, o \in Orders(p)} : p \in P}

\* The tables k calls or fewer reach from a balancer just constructed.
RECURSIVE Tables(_, _, _, _, _)
Tables(k, as, cws, ws, mss) ==
    IF k = 0 THEN {PoolEmpty}
    ELSE Calls(Tables(k - 1, as, cws, ws, mss), as, cws, ws, mss)

\* The addresses n successive get_next_server calls return.
RECURSIVE Successive(_, _, _, _)
Successive(p, alg, o, n) ==
    IF n = 0 THEN {}
    ELSE {GetNextServer(p, alg, o, 0).ret}
           \cup Successive(GetNextServer(p, alg, o, 0).pool, alg, o, n - 1)

\* How many draws pick server a.
Share(p, o, a) == Cardinality({r \in Draws(p, o) : WeightedPick(p, o, r) = a})

\* What get_next_server promises, for table p in iteration order o: "" only
\* for an empty table; round robin returns every server once in as many
\* calls as there are servers; the least-connections and least-response-
\* time picks have no server below them; and every draw of the weighted
\* pick returns a server of positive weight, server a for weight(a) of the
\* total_weight draws.
SelectionOk(p, o) ==
    /\ \A alg \in Algorithms :
          (GetNextServer(p, alg, o, 0).ret = "") <=> (DOMAIN p.servers = {})
    /\ DOMAIN p.servers # {} =>
          /\ \A alg \in {"ROUND_ROBIN", "IP_HASH", "CONSISTENT_HASH"} :
                Successive(p, alg, o, Len(o)) = DOMAIN p.servers
          /\ \A a \in DOMAIN p.servers :
                /\ ~ConnsLess(p, a, GetNextServer(p, "LEAST_CONNECTIONS", o, 0).ret)
                /\ ~RtLess(p, a, GetNextServer(p, "LEAST_RESPONSE_TIME", o, 0).ret)
          /\ \A r \in Draws(p, o) : p.servers[WeightedPick(p, o, r)].w > 0
          /\ TotalWeight(p, o) > 0 =>
                \A a \in DOMAIN p.servers : Share(p, o, a) = p.servers[a].w

\* The health thread's life: whether the balancer is alive,
\* health_checks_running_, how many detached threads still loop, and
\* whether one of them has read the balancer after its destructor ran.
HealthIdle == [alive |-> TRUE, running |-> FALSE, threads |-> 0, stale |-> FALSE]

\* start_health_checks: exchange(true); a new detached thread unless it
\* was already true.
StartHealthChecks(h) ==
    IF h.running THEN h ELSE [h EXCEPT !.running = TRUE, !.threads = @ + 1]

StopHealthChecks(h) == [h EXCEPT !.running = FALSE]

\* ~LoadBalancer: stop_health_checks(), then the object is gone.
DestroyBalancer(h) == [StopHealthChecks(h) EXCEPT !.alive = FALSE]

\* A thread ends sleep_for(5s) and re-tests health_checks_running_ through
\* the captured this.  On a destroyed balancer the read is undefined: the
\* thread may exit or go on.  Otherwise it sweeps again or exits.
ThreadWakes(h) ==
    IF ~h.alive THEN {[h EXCEPT !.stale = TRUE], [h EXCEPT !.stale = TRUE, !.threads = @ - 1]}
    ELSE IF h.running THEN {h} ELSE {[h EXCEPT !.threads = @ - 1]}

\* The lives k steps or fewer reach: the owner calls start, stop and the
\* destructor while the balancer is alive; a live thread may wake.
RECURSIVE Lives(_)
Lives(k) ==
    IF k = 0 THEN {HealthIdle}
    ELSE LET L == Lives(k - 1)
             A == {x \in L : x.alive}
         IN  L \cup {StartHealthChecks(h) : h \in A} \cup {StopHealthChecks(h) : h \in A}
               \cup {DestroyBalancer(h) : h \in A}
               \cup UNION {ThreadWakes(h) : h \in {x \in L : x.threads > 0}}

\* The checks KernelsCorrect dispatches to: the selection promises over the
\* tables five calls reach, with positive weights (spselect) and with weight
\* 0 allowed (spzero); the weighted shares against the weights the servers
\* were added with (spconfig); and no health thread reading a destroyed
\* balancer (sphealth).
ServerOps == {"spselect", "spzero", "spconfig", "sphealth"}
Addresses == {"s1", "s2", "s3"}

ServerOk(op) ==
    CASE op = "spselect" ->
            \A p \in Tables(5, Addresses, {1, 2}, {1, 2}, {0, 10}) :
                \A o \in Orders(p) : SelectionOk(p, o)
      [] op = "spzero" ->
            \A p \in Tables(3, Addresses, {1}, {0, 1}, {0}) :
                \A o \in Orders(p) : SelectionOk(p, o)
      [] op = "spconfig" ->
            \A p \in Tables(2, Addresses, {1, 2}, {1}, {0}) : \A o \in Orders(p) :
                TotalWeight(p, o) > 0 =>
                    \A a \in DOMAIN p.servers : Share(p, o, a) = p.servers[a].cw
      [] op = "sphealth" -> \A h \in Lives(4) : ~h.stale

=============================================================================
