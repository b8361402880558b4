---------------------------- MODULE WaitForGraph ----------------------------
(***************************************************************************)
(* The deadlock detector of TransactionManager (src/unnamed/part_020):     *)
(* the recursive depth-first search dfs (lines 280-302) and the loop of    *)
(* detectDeadlock over the entries of wait_for_graph (lines 360-376).      *)
(*                                                                         *)
(* A wait-for graph is a function g from transactions to the set of       *)
(* transactions in their entry of wait_for_graph.  The search threads the  *)
(* visited and rec_stack sets through the recursion as a record            *)
(* [cycle, visited, rec]; the iteration order of the C++ unordered_set is  *)
(* unspecified, and the result does not depend on it, so CHOOSE fixes one. *)
(***************************************************************************)
EXTENDS FiniteSets

RECURSIVE Dfs(_, _, _, _), DfsEach(_, _, _, _), DetectFrom(_, _, _, _)

Result(cycle, visited, rec) == [cycle |-> cycle, visited |-> visited, rec |-> rec]

\* A faulty dfs that never pops txn_id off rec_stack when it returns false.
DfsNoPop(g, t, visited, rec) ==
    IF t \in rec THEN Result(TRUE, visited, rec)
    ELSE IF t \in visited THEN Result(FALSE, visited, rec)
    ELSE DfsEach(g, g[t], visited \cup {t}, rec \cup {t})

\* dfs(txn_id, visited, rec_stack)
Dfs(g, t, visited, rec) ==
    IF t \in rec THEN Result(TRUE, visited, rec)
    ELSE IF t \in visited THEN Result(FALSE, visited, rec)
    ELSE LET res == DfsEach(g, g[t], visited \cup {t}, rec \cup {t})
         IN  IF res.cycle THEN res ELSE [res EXCEPT !.rec = @ \ {t}]

\* the loop over wait_for_graph[txn_id] in dfs, returning on the first cycle
DfsEach(g, succ, visited, rec) ==
    IF succ = {} THEN Result(FALSE, visited, rec)
    ELSE LET u   == CHOOSE u \in succ : TRUE
             res == Dfs(g, u, visited, rec)
         IN  IF res.cycle THEN res
             ELSE DfsEach(g, succ \ {u}, res.visited, res.rec)

\* the loop of detectDeadlock over the unvisited entries of the graph
DetectFrom(g, roots, visited, rec) ==
    IF roots = {} THEN FALSE
    ELSE LET t == CHOOSE t \in roots : TRUE
         IN  IF t \in visited THEN DetectFrom(g, roots \ {t}, visited, rec)
             ELSE LET res == Dfs(g, t, visited, rec)
                  IN  res.cycle \/ DetectFrom(g, roots \ {t}, res.visited, res.rec)

\* the value returned by detectDeadlock
DetectDeadlock(g) == DetectFrom(g, DOMAIN g, {}, {})

=============================================================================
