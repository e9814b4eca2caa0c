---------------------------------- MODULE Dtn ----------------------------------
(***************************************************************************)
(* The delay-tolerant network of the dtn program, a workload of the fault  *)
(* injection: a message goes from the sender through levels of nodes to    *)
(* the receiver, always forward along the cheapest node that is up, and    *)
(* waits at a neighbour of its level while the next level is down.  What   *)
(* rand draws is any value of small sets.                                  *)
(***************************************************************************)
EXTENDS Integers, SequencesExt

CONSTANTS Nodes,         \* NET_NODES, of a level, which are also the levels
          Costs,         \* rows of neighbor_cost that are drawn
          SameLevelCost,
          Runs,          \* RUN_COUNT
          MaxPath        \* PATH_MAX_SIZE, entries of a path: a route with no wait fits

DtnAssumption ==
    /\ Nodes \in Nat \ {0} /\ SameLevelCost \in Nat
    /\ Costs \subseteq [0 .. Nodes - 1 -> Nat]
    /\ Runs \in Nat /\ MaxPath \in Nat /\ MaxPath > Nodes

VARIABLES up, cost,       \* the network
          pc, run,
          node, total,    \* current_node and current_cost
          path

vars == <<up, cost, pc, run, node, total, path>>

Levels == Nodes
Size == Nodes * Levels + 2
Sender == Size - 1
Receiver == Size - 2
Inner == 0 .. Size - 3
Level(n) == n \div Nodes
OfLevel(l) == {l * Nodes + i : i \in 0 .. Nodes - 1}

Init == /\ up = [n \in 0 .. Sender |-> TRUE]
        /\ cost \in [Inner \cup {Sender} -> Costs]
        /\ pc = "first" /\ run = 0
        /\ node = Sender /\ total = 0 /\ path = <<>>

\* The loop over the neighbours from first on: a strictly cheaper one that is
\* up is taken; staying means that none was.
CheapestLast(from, first, count) ==
    FoldLeft(LAMBDA best, i :
                 IF up[first + i - 1] THEN first + i - 1 ELSE best,
             from, [i \in 1 .. count |-> i])
Cheapest(from, first, count) ==
    FoldLeft(LAMBDA best, i :
                 IF /\ up[first + i - 1]
                    /\ best = from \/ cost[from][i - 1] < cost[from][best - first]
                 THEN first + i - 1 ELSE best,
             from, [i \in 1 .. count |-> i])

First ==
    /\ pc = "first"
    /\ LET n == Cheapest(Sender, 0, Nodes)
       IN  /\ node' = n /\ path' = Append(path, n)
           /\ total' = IF n = Sender THEN 0 ELSE cost[Sender][n]
    /\ pc' = "route"
    /\ UNCHANGED <<up, cost, run>>

Ahead == (Level(node) + 1) * Nodes
Neighbours == IF Level(node) < Levels - 1 THEN Nodes ELSE 1
Next1 == Cheapest(node, Ahead, Neighbours)
Routing == pc = "route" /\ Level(node) # Levels

\* The entry is written whether or not the path is full.  What runs after it
\* was written behind the path is not modelled.
Entered(n) == /\ path' = Append(path, n)
              /\ pc' = IF Len(path) < MaxPath THEN "route" ELSE "overrun"

Forward ==
    /\ Routing /\ Next1 # node
    /\ node' = Next1 /\ Entered(Next1)
    /\ total' = total + cost[node][Next1 - Ahead]
    /\ UNCHANGED <<up, cost, run>>

\* random_status_level: the nodes drawn get a new status and new costs.
Redraw(drawn) ==
    /\ \E s \in [drawn -> BOOLEAN] :
           up' = [n \in DOMAIN up |-> IF n \in drawn THEN s[n] ELSE up[n]]
    /\ \E r \in [drawn -> Costs] :
           cost' = [n \in DOMAIN cost |-> IF n \in drawn THEN r[n] ELSE cost[n]]

BesideAny(n) == (n + 1) % (Nodes * Levels)
Beside(n) == Level(n) * Nodes + ((n + 1) % Nodes)

Wait ==
    /\ Routing /\ Next1 = node
    /\ node' = Beside(node) /\ Entered(Beside(node))
    /\ total' = total + SameLevelCost
    /\ Redraw(OfLevel(Level(node) + 1))
    /\ UNCHANGED run

\* random_status_all makes a node of the first level up if all are down.
RepairedNever(s) == {s}
Repaired(s) ==
    IF \A n \in OfLevel(0) : ~s[n]
    THEN {[s EXCEPT ![n] = TRUE] : n \in OfLevel(0)} ELSE {s}

Arrive ==
    /\ pc = "route" /\ Level(node) = Levels /\ run < Runs
    /\ \E s \in [Inner -> BOOLEAN] : \E t \in Repaired(s) :
           up' = [n \in DOMAIN up |-> IF n \in Inner THEN t[n] ELSE up[n]]
    /\ cost' \in [DOMAIN cost -> Costs]
    /\ pc' = "first" /\ run' = run + 1
    /\ node' = Sender /\ total' = 0 /\ path' = <<>>

Next == First \/ Forward \/ Wait \/ Arrive

Spec == Init /\ [][Next]_vars

-----------------------------------------------------------------------------
\* Type invariant; the receiver and the sender are always up.
TypeOK ==
    /\ up \in [0 .. Sender -> BOOLEAN] /\ up[Receiver] /\ up[Sender]
    /\ cost \in [Inner \cup {Sender} -> Costs]
    /\ pc \in {"first", "route", "overrun"} /\ run \in 0 .. Runs
    /\ node \in 0 .. Sender /\ path \in Seq(0 .. Receiver)
    /\ Len(path) <= MaxPath + 1 /\ (pc = "overrun" <=> Len(path) > MaxPath)

\* "First level should always have one node up, otherwise we would wait to
\* send": a route starts at a node of the first level.
StartsInFirstLevel == path # <<>> => path[1] \in OfLevel(0)

\* "Can't go backwards": a route goes through the levels one after another,
\* staying in one for as long as it waits, and ends at the receiver.
NeverBackwards ==
    /\ \A i \in 1 .. Len(path) - 1 :
           Level(path[i + 1]) \in {Level(path[i]), Level(path[i]) + 1}
    /\ path # <<>> /\ Level(node) = Levels => node = Receiver

\* "Disregard neighbors of same level unless all neighbors of next level are
\* down": a step within the level is taken only then, and a step forward goes
\* to a cheapest node that is up.  A message never waits at the last level.
ForwardFirst ==
    [][LET ahead == IF Level(node) = Levels - 1 THEN {Receiver} ELSE OfLevel(Level(node) + 1)
       IN  /\ Wait => ahead \cap {n \in DOMAIN up : up[n]} = {} /\ ahead # {Receiver}
           /\ Forward => /\ node' \in ahead /\ up[node']
                         /\ \A n \in ahead : up[n] =>
                                cost[node][node' - Ahead] <= cost[node][n - Ahead]]_vars

\* An entry falls behind the path only on a route that waited on its way.
OverrunsOnlyWaiting ==
    pc = "overrun" => \E i \in 1 .. Len(path) - 1 : Level(path[i]) = Level(path[i + 1])

\* The cost is the sum of the waits and of the hops, as their links cost still:
\* what a wait draws anew lies ahead.
HopCost(i) ==
    IF i = 1 THEN cost[Sender][path[1]]
    ELSE IF Level(path[i - 1]) = Level(path[i]) THEN SameLevelCost
         ELSE cost[path[i - 1]][path[i] % Nodes]
CostOfPath ==
    LET sum[i \in 0 .. Len(path)] == IF i = 0 THEN 0 ELSE sum[i - 1] + HopCost(i)
    IN  total = sum[Len(path)]
=============================================================================
