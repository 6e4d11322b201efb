---------------------------- MODULE CoreSelection ----------------------------
(***************************************************************************)
(* LoadBalancer::find_least_loaded_core (src/src/core/LoadBalancer.cpp    *)
(* 135-157) as an operator over the metrics table and the order in which  *)
(* the std::unordered_map iterates it, checked against the selection rule *)
(* of section 4.4 of the spec.  The standard leaves the iteration order   *)
(* unspecified (libstdc++ visits the most recently inserted key of a      *)
(* fresh table first), so every order of the table's keys is considered,  *)
(* and update_core_metrics may insert or replace an entry between calls.  *)
(*                                                                         *)
(* Usage figures are percents and the composite score is                  *)
(* 4*cpu + 3*mem + 3*net, ten times 0.4*cpu + 0.3*mem + 0.3*net.  For the *)
(* levels {0, 90} used here, two metrics have equal integer scores exactly *)
(* when the double computation of the code gives equal values.            *)
(***************************************************************************)
EXTENDS Integers, FiniteSets, SequencesExt

CONSTANTS NumCores, Usage, NoCore

Cores == 0 .. NumCores - 1
Metric == [cpu : Usage, mem : Usage, net : Usage, healthy : BOOLEAN]
Score(m) == 4 * m.cpu + 3 * m.mem + 3 * m.net
\* std::numeric_limits<double>::max(): above every score.
MaxLoad == 10 * 100 + 1

VARIABLES core_metrics, order
vars == <<core_metrics, order>>

\* Mutant: the loop without the is_healthy test.
VisitAll(metrics, acc, c) ==
    IF Score(metrics[c]) < acc.load
      THEN [core |-> c, load |-> Score(metrics[c])] ELSE acc

\* One iteration of the loop: skip an unhealthy core, take a strictly
\* smaller load.
Visit(metrics, acc, c) ==
    IF metrics[c].healthy /\ Score(metrics[c]) < acc.load
      THEN [core |-> c, load |-> Score(metrics[c])]
      ELSE acc

\* find_least_loaded_core: the loop over the table in iteration order.
FindLeastLoadedCore(metrics, ord) ==
    FoldLeft(LAMBDA acc, c : Visit(metrics, acc, c),
             [core |-> NoCore, load |-> MaxLoad], ord).core

\* The rule of section 4.4: the healthy core of minimal score, the lowest
\* core_id among equal scores; NoAvailableCore when none is healthy.
SpecSelect(metrics) ==
    LET H == {c \in DOMAIN metrics : metrics[c].healthy}
        Best == {c \in H : \A d \in H : Score(metrics[c]) <= Score(metrics[d])}
    IN  IF H = {} THEN NoCore ELSE CHOOSE c \in Best : \A d \in Best : c <= d

Init == core_metrics = <<>> /\ order = <<>>

\* Mutant: the table kept as a list of (core_id, metrics) entries, a new
\* entry appended on every update instead of replacing the old one.
UpdateAppends(c, m) ==
    /\ core_metrics' = (c :> m) @@ core_metrics
    /\ order' = Append(order, c)

\* update_core_metrics(core_id, metrics): core_metrics_[core_id] = metrics,
\* after which the table may be iterated in any order of its keys.
UpdateCoreMetrics(c, m) ==
    /\ core_metrics' = (c :> m) @@ core_metrics
    /\ order' \in SetToSeqs(DOMAIN core_metrics')

Next == \E c \in Cores, m \in Metric : UpdateCoreMetrics(c, m)

Spec == Init /\ [][Next]_vars

TypeOK ==
    /\ DOMAIN core_metrics \subseteq Cores
    /\ \A c \in DOMAIN core_metrics : core_metrics[c] \in Metric
    /\ order \in SetToSeqs(DOMAIN core_metrics)

Selected == FindLeastLoadedCore(core_metrics, order)

\* Section 4.4 and the deterministic-selection property of section 8:
\* among equal scores the lowest core_id is chosen, not the first in the
\* map's iteration order.
LowestIdTieBreak == Selected = SpecSelect(core_metrics)
=============================================================================
