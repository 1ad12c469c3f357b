---------------------------- MODULE MCReadTools ----------------------------
(* Small data for the TLC run of ReadTools. *)
EXTENDS ReadTools, TLC

CONSTANTS old, new

UpTo(n, S) == UNION {[1..m -> S] : m \in 0..n}

\* Lines come oldest first; 3 is outside of the window of the request.
Logs == {log \in UpTo(3, [age : {0, 2, 3}, bytes : {1, 2}]) :
           \A m, n \in DOMAIN log : m < n => log[m].age >= log[n].age}

\* Events come by name, whatever their age; Jobs were made one after the other.
Events == {[n \in DOMAIN ages |-> [name |-> n, age |-> ages[n]]] : ages \in UpTo(5, {-1, 1, 3, Unknown})}
Jobs == {[n \in DOMAIN jobs |-> [owner |-> jobs[n][1], born |-> jobs[n][2], prefix |-> jobs[n][3]]] :
           jobs \in UpTo(2, {old, new} \X (1..2) \X BOOLEAN)}
Nodes == UpTo(3, {[ready |-> "True", unschedulable |-> FALSE, pressure |-> FALSE],
                  [ready |-> "none", unschedulable |-> FALSE, pressure |-> FALSE],
                  [ready |-> "True", unschedulable |-> TRUE, pressure |-> FALSE],
                  [ready |-> "True", unschedulable |-> FALSE, pressure |-> TRUE]})
Tables == [latest : 1..2, rows : {[n \in 1..m |-> n] : m \in 0..4}]

MCParts == [get_logs    |-> Logs,
            get_events  |-> Events,
            list_pods   |-> {[n \in 1..m |-> n] : m \in 0..3},
            list_nodes  |-> Nodes,
            get_cronjob |-> {[uid |-> u, jobs |-> jobs] : u \in {old, new, NoUid}, jobs \in Jobs},
            get_pod_status |-> [terminated_before : BOOLEAN],
            get_workload |-> [generation : {Unknown, 1, 2}, observed : {Unknown, 1, 2}],
            get_node    |-> {node[1] : node \in Nodes \ {<<>>}},
            promql      |-> UpTo(3, 1..5),
            accounting_rows     |-> Tables,
            accounting_discover |-> Tables]

MCRequests ==
  {[tool |-> "get_logs", tail_lines |-> 2, since_seconds |-> 2],
   [tool |-> "get_events", limit |-> 2, since_seconds |-> 2],
   [tool |-> "list_pods", limit |-> 2], [tool |-> "get_cronjob", job_limit |-> 1],
   [tool |-> "list_nodes", only_unhealthy |-> TRUE], [tool |-> "list_nodes", only_unhealthy |-> FALSE],
   [tool |-> "get_pod_status"], [tool |-> "get_workload"], [tool |-> "get_node"],
   [tool |-> "accounting_rows", limit |-> NoLimit], [tool |-> "accounting_rows", limit |-> 3],
   [tool |-> "accounting_discover", listed |-> FALSE, limit |-> 3],
   [tool |-> "accounting_discover", listed |-> TRUE, limit |-> 3],
   [tool |-> "promql", step |-> NoStep, lookback |-> 4],
   [tool |-> "promql", step |-> 0, lookback |-> 4],
   [tool |-> "promql", step |-> 1, lookback |-> 4],
   [tool |-> "promql", step |-> 2, lookback |-> 4]}
=============================================================================
