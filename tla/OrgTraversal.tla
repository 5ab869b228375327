---------------------------- MODULE OrgTraversal ----------------------------
(***************************************************************************)
(* The queries on the graph of repositories: _bfs() of                     *)
(* data/graph/org_graph.py, which get_dependencies() and get_dependents()  *)
(* are, against the definition of what they return.                        *)
(***************************************************************************)
EXTENDS OrgGraph, SequencesExt

Successors(g, r, dir) == {s \in Repo \ {r} : g.edge[<<r, s>>] = dir}

\* Mutant: the depth is tested after the neighbours.
DeepLate(dist, maxDepth) == dist > maxDepth
Deep(dist, maxDepth) == dist >= maxDepth

\* The loop of _bfs(): the queue, the repositories visited, and the results.
RECURSIVE Bfs(_, _, _, _, _, _)
Bfs(g, dir, maxDepth, queue, visited, results) ==
  IF queue = <<>> THEN results
  ELSE LET head == Head(queue)
           fresh == SetToSeq(Successors(g, head.repo, dir) \ visited)
           found == [i \in DOMAIN fresh |->
                       [repo |-> fresh[i], depth |-> head.depth + 1]] IN
       IF Deep(head.depth, maxDepth)
       THEN Bfs(g, dir, maxDepth, Tail(queue), visited, results)
       ELSE Bfs(g, dir, maxDepth, Tail(queue) \o found,
                visited \cup ToSet(fresh), results \o found)

\* get_dependencies() and get_dependents() of a copy.
Query(g, start, dir, maxDepth) ==
  IF start \notin g.nodes THEN <<>>
  ELSE Bfs(g, dir, maxDepth, <<[repo |-> start, depth |-> 0]>>, {start}, <<>>)

-----------------------------------------------------------------------------
\* The repositories at most k edges of one direction away.
Within(g, start, dir) ==
  LET W[k \in Nat] ==
        IF k = 0 THEN {start}
        ELSE W[k - 1] \cup UNION {Successors(g, r, dir) : r \in W[k - 1]} IN W

\* The copies that queries are asked of.
Copies == {mem[p] : p \in {p \in Proc : mem[p] # None /\ pc[p] # "migrate"}}

\* Each query returns every repository within the depth once, at its distance
\* (_bfs()).
QueryExact ==
  \A g \in Copies :
    \A r \in g.nodes, dir \in {"forward", "reverse"}, d \in 0 .. 2 :
      LET W == Within(g, r, dir)
          found == Query(g, r, dir, d) IN
      /\ ToSet(found) =
           UNION {{[repo |-> s, depth |-> k] : s \in W[k] \ W[k - 1]} : k \in 1 .. d}
      /\ IsInjective(found)
=============================================================================
