------------------------------ MODULE OrgGraph ------------------------------
(***************************************************************************)
(* The graph of the repositories of an organisation: one file in the home  *)
(* directory, ~/.cognirepo/org_graph.pkl, that the processes of all        *)
(* repositories read into a singleton, extend, and compose with what is on *)
(* disk when they save.  Source: data/graph/org_graph.py, with its callers *)
(* link_repos() in interface/server/mcp_server.py,                         *)
(* wire_cross_service_edges() and _wire_inter_repo_edges(), and            *)
(* _register_in_org_graph().                                               *)
(*                                                                         *)
(* Data abstraction.  A repository is a model value; of an edge only the   *)
(* direction is kept.  A section under the lock of the file is one step;   *)
(* so is os.path.exists() with the read that follows it.  What the         *)
(* manifests, imports and HTTP calls of a repository name is any set of    *)
(* repositories.  remove_repo() and unlink() have no caller, and           *)
(* build_org_graph_for_org() raises before it changes anything.            *)
(***************************************************************************)
EXTENDS Integers, FiniteSets

CONSTANTS
  Repo,        \* the repositories
  Proc,        \* processes
  None,        \* no graph, no key
  Root,        \* the first repository of the project in orgs.json
  Member,      \* the others
  Encrypting,  \* processes of repositories that encrypt, each with its own key
  MaxCalls,    \* bound of the model: calls that record something
  MaxFails     \* bound of the model: saves that fail, and kills

ASSUME RepoAssumption == Root \in Repo /\ Member \subseteq Repo \ {Root}
ASSUME ProcAssumption == Encrypting \subseteq Proc
ASSUME BoundAssumption == MaxCalls \in Nat /\ MaxFails \in Nat

VARIABLES
  disk,      \* org_graph.pkl
  key,       \* the process whose key it is encrypted with
  mem,       \* _ORG_GRAPH of each process
  pc,        \* where each process is
  drops,     \* whether its call forgets the singleton at the end
  adds,      \* the edges its call records
  called,    \* history: the edges any call recorded in its copy
  acked,     \* history: the edges of calls that were saved
  clash,     \* history: a process could not decrypt what another wrote
  calls, fails  \* calls, and failures, so far

work == <<pc, drops, adds>>
past == <<called, acked>>
counts == <<calls, fails>>
vars == <<disk, key, mem, work, past, clash, counts>>

-----------------------------------------------------------------------------
Pair == {e \in Repo \X Repo : e[1] # e[2]}
Back(e) == <<e[2], e[1]>>
Graph == [nodes : SUBSET Repo, edge : [Pair -> {"none", "forward", "reverse"}]]
Empty == [nodes |-> {}, edge |-> [e \in Pair |-> "none"]]

ASSUME NoneAssumption == None \notin Repo \cup Proc \cup Graph

TypeOK ==
  /\ disk \in Graph \cup {None}
  /\ key \in Proc \cup {None} /\ (disk = None => key = None)
  /\ mem \in [Proc -> Graph \cup {None}]
  /\ pc \in [Proc -> {"idle", "migrate", "remove", "wire", "save"}]
  /\ \A p \in Proc : pc[p] # "idle" => mem[p] # None
  /\ drops \in [Proc -> BOOLEAN] /\ adds \in [Proc -> SUBSET Pair]
  /\ called \subseteq Pair /\ acked \subseteq Pair
  /\ clash \in BOOLEAN
  /\ calls \in 0 .. MaxCalls /\ fails \in 0 .. MaxFails

-----------------------------------------------------------------------------
(* The operations on a graph.                                               *)

\* Mutant: an edge that is there is left as it is, as infer_import_edges() does.
LinkedOnce(g, e) ==
  [nodes |-> g.nodes \cup {e[1], e[2]},
   edge  |-> [g.edge EXCEPT ![e] = IF @ = "none" THEN "forward" ELSE @,
                            ![Back(e)] = "reverse"]]
\* link(): both directions, over what is there.
Linked(g, e) ==
  [nodes |-> g.nodes \cup {e[1], e[2]},
   edge  |-> [g.edge EXCEPT ![e] = "forward", ![Back(e)] = "reverse"]]

\* link() of a repository with each of a set.
LinkedAll(g, r, S) ==
  [nodes |-> IF S = {} THEN g.nodes ELSE g.nodes \cup {r} \cup S,
   edge  |-> [e \in Pair |-> IF e[1] = r /\ e[2] \in S THEN "forward"
                            ELSE IF e[2] = r /\ e[1] \in S THEN "reverse"
                            ELSE g.edge[e]]]

\* infer_import_edges(): one direction, where there is no edge, to known ones.
New(g, r, S) == {s \in S \cap g.nodes : g.edge[<<r, s>>] = "none"}
Inferred(g, r, S) ==
  [nodes |-> IF New(g, r, S) = {} THEN g.nodes ELSE g.nodes \cup {r},
   edge  |-> [e \in Pair |->
      IF e[1] = r /\ e[2] \in New(g, r, S) THEN "forward" ELSE g.edge[e]]]

\* The manifests, or calls, of r name D, its imports I.
Wired(g, r, D, I) == Inferred(LinkedAll(g, r, D), r, I)
Found(g, r, D, I) == {r} \X (D \cup New(LinkedAll(g, r, D), r, I))

\* Mutant: the last writer wins.
ComposedLast(g, h) == h
\* nx.compose(): the union; where both have an attribute, that of the second.
Composed(g, h) ==
  [nodes |-> g.nodes \cup h.nodes,
   edge  |-> [e \in Pair |-> IF h.edge[e] # "none" THEN h.edge[e] ELSE g.edge[e]]]

\* orgs.json, as _migrate_from_orgs_json() reads it.
Legacy ==
  [nodes |-> Member \cup {Root},
   edge  |-> [e \in Pair |->
      IF e[1] \in Member /\ e[2] = Root THEN "forward"
      ELSE IF e[1] = Root /\ e[2] \in Member THEN "reverse" ELSE "none"]]
LegacyPairs == Member \X {Root}

-----------------------------------------------------------------------------
(* Reading and writing the file.                                            *)

KeyOf(p) == IF p \in Encrypting THEN p ELSE None
Readable(p) == key = KeyOf(p)

\* get_org_graph() when there is no file: orgs.json, which is then saved.
LoadLegacy(p) ==
  /\ pc[p] = "idle" /\ mem[p] = None /\ disk = None
  /\ mem' = [mem EXCEPT ![p] = Legacy]
  /\ pc' = [pc EXCEPT ![p] = "migrate"]
  /\ adds' = [adds EXCEPT ![p] = LegacyPairs]
  /\ called' = called \cup LegacyPairs
  /\ UNCHANGED <<disk, key, drops, acked, clash, counts>>

\* Neither file is there.
LoadNew(p) ==
  /\ pc[p] = "idle" /\ mem[p] = None /\ disk = None
  /\ mem' = [mem EXCEPT ![p] = Empty]
  /\ UNCHANGED <<disk, key, work, past, clash, counts>>

\* _load(); a busy lock raises, and the call comes to nothing.
Load(p) ==
  /\ pc[p] = "idle" /\ mem[p] = None /\ disk # None /\ Readable(p)
  /\ mem' = [mem EXCEPT ![p] = disk]
  /\ UNCHANGED <<disk, key, work, past, clash, counts>>

\* The file of another key starts afresh; what cannot be decrypted is removed.
LoadForeign(p) ==
  /\ pc[p] = "idle" /\ mem[p] = None /\ disk # None /\ ~Readable(p)
  /\ mem' = [mem EXCEPT ![p] = Empty]
  /\ pc' = [pc EXCEPT ![p] = IF p \in Encrypting THEN "remove" ELSE @]
  /\ clash' = TRUE
  /\ UNCHANGED <<disk, key, drops, adds, past, counts>>

\* os.remove(), without the lock.
RemoveFile(p) ==
  /\ pc[p] = "remove"
  /\ disk' = None /\ key' = None
  /\ pc' = [pc EXCEPT ![p] = "idle"]
  /\ UNCHANGED <<mem, drops, adds, past, clash, counts>>

\* save(): what is on disk, if it can be read, with the copy over it.
Merged(p) == IF disk # None /\ Readable(p) THEN Composed(disk, mem[p]) ELSE mem[p]
Write(p) ==
  /\ disk' = Merged(p) /\ key' = KeyOf(p)
  /\ clash' = (clash \/ (disk # None /\ ~Readable(p)))

\* The save of a migration; a busy lock is ignored.
SaveLegacy(p) ==
  /\ pc[p] = "migrate"
  /\ \/ /\ Write(p)
        /\ mem' = [mem EXCEPT ![p] = Merged(p)]
        /\ acked' = acked \cup adds[p] /\ UNCHANGED fails
     \/ /\ fails < MaxFails /\ fails' = fails + 1
        /\ UNCHANGED <<disk, key, clash, mem, acked>>
  /\ pc' = [pc EXCEPT ![p] = "idle"] /\ adds' = [adds EXCEPT ![p] = {}]
  /\ UNCHANGED <<drops, called, calls>>

-----------------------------------------------------------------------------
(* The calls.                                                               *)

\* A call changes the singleton; what it adds is to be saved.
Record(p, g, E, forget) ==
  /\ mem[p] # None
  /\ calls < MaxCalls /\ calls' = calls + 1
  /\ mem' = [mem EXCEPT ![p] = g]
  /\ adds' = [adds EXCEPT ![p] = @ \cup E]
  /\ drops' = [drops EXCEPT ![p] = forget]
  /\ called' = called \cup E
  /\ UNCHANGED <<disk, key, acked, clash, fails>>

RecordOne(p, g, E, forget) ==
  /\ pc[p] = "idle" /\ pc' = [pc EXCEPT ![p] = "save"]
  /\ Record(p, g, E, forget)

\* link_repos(): the tool forgets the singleton when it has saved.
Link(p, e) == RecordOne(p, Linked(mem[p], e), {e}, TRUE)

\* add_repo() without a parent (init_project(), main()).
AddRoot(p, r) == RecordOne(p, [mem[p] EXCEPT !.nodes = @ \cup {r}], {}, FALSE)

\* _register_in_org_graph(): the edges of add_repo() with a parent.
AddChild(p, e) == RecordOne(p, Linked(mem[p], e), {e}, FALSE)

\* A repository of _wire_inter_repo_edges(), which saves after the last one; or
\* wire_cross_service_edges(), where I is empty.  First what the manifests or
\* calls name, then what the imports name; no save if nothing was added.
Wire(p, r, D, I) ==
  /\ pc[p] \in {"idle", "wire"} /\ pc' = [pc EXCEPT ![p] = "wire"]
  /\ mem[p] # None /\ Found(mem[p], r, D, I) # {}
  /\ Record(p, Wired(mem[p], r, D, I), Found(mem[p], r, D, I), FALSE)

\* The end of a call that was saved; the tool's singleton is reloaded next time.
Save(p) ==
  /\ pc[p] \in {"wire", "save"}
  /\ Write(p)
  /\ mem' = [mem EXCEPT ![p] = IF drops[p] THEN None ELSE Merged(p)]
  /\ acked' = acked \cup adds[p]
  /\ pc' = [pc EXCEPT ![p] = "idle"] /\ adds' = [adds EXCEPT ![p] = {}]
  /\ UNCHANGED <<drops, called, counts>>

\* StoreBusy is raised: the singleton keeps the edges.
SaveBusy(p) ==
  /\ pc[p] \in {"wire", "save"}
  /\ fails < MaxFails /\ fails' = fails + 1
  /\ pc' = [pc EXCEPT ![p] = "idle"] /\ adds' = [adds EXCEPT ![p] = {}]
  /\ UNCHANGED <<disk, key, mem, drops, past, clash, calls>>

\* Another OSError is logged: the call goes on as if it had saved.
SaveFails(p) ==
  /\ pc[p] = "save" /\ drops[p]
  /\ fails < MaxFails /\ fails' = fails + 1
  /\ mem' = [mem EXCEPT ![p] = None]
  /\ pc' = [pc EXCEPT ![p] = "idle"] /\ adds' = [adds EXCEPT ![p] = {}]
  /\ UNCHANGED <<disk, key, drops, past, clash, calls>>

\* The process ends, or is killed.
Kill(p) ==
  /\ mem[p] # None
  /\ fails < MaxFails /\ fails' = fails + 1
  /\ mem' = [mem EXCEPT ![p] = None]
  /\ pc' = [pc EXCEPT ![p] = "idle"] /\ adds' = [adds EXCEPT ![p] = {}]
  /\ UNCHANGED <<disk, key, drops, past, clash, calls>>

-----------------------------------------------------------------------------
Init ==
  /\ disk = None /\ key = None
  /\ mem = [p \in Proc |-> None]
  /\ pc = [p \in Proc |-> "idle"]
  /\ drops = [p \in Proc |-> FALSE] /\ adds = [p \in Proc |-> {}]
  /\ called = {} /\ acked = {} /\ clash = FALSE
  /\ calls = 0 /\ fails = 0

Read(p) ==
  \/ LoadNew(p) \/ LoadLegacy(p) \/ SaveLegacy(p)
  \/ Load(p) \/ LoadForeign(p) \/ RemoveFile(p)
Call(p) ==
  \/ \E e \in Pair : Link(p, e) \/ AddChild(p, e)
  \/ \E r \in Repo : AddRoot(p, r)
  \/ \E r \in Repo : \E D \in SUBSET (Repo \ {r}) :
       \E I \in SUBSET (Repo \ (D \cup {r})) : Wire(p, r, D, I)
End(p) == Save(p) \/ SaveBusy(p) \/ SaveFails(p) \/ Kill(p)

Next == \E p \in Proc : Read(p) \/ Call(p) \/ End(p)
Spec == Init /\ [][Next]_vars

-----------------------------------------------------------------------------
\* A dependency that a call recorded and saved stays in the file, in the direction
\* it was recorded, whatever copies other processes save over it, as long as no
\* call records the opposite dependency and all can read the file ("so concurrent
\* link_repos() calls from different agents are additive", save()).
LinksKept ==
  ~clash => \A e \in acked : Back(e) \notin called =>
    disk # None /\ disk.edge[e] = "forward"

\* Where a repository is listed as a dependent, it has the dependency, in the file
\* and in every copy, though edges are recorded in one direction or both and
\* composed from copies of different age (get_dependents(), nx.compose()).
Paired(g) == \A e \in Pair : g.edge[e] = "reverse" => g.edge[Back(e)] = "forward"
DependentsDepend ==
  /\ disk # None => Paired(disk)
  /\ \A p \in Proc : mem[p] # None => Paired(mem[p])

\* An edge says "dependent" only where a call recorded the dependency.
Recorded(g) == \A e \in Pair : g.edge[e] = "reverse" => Back(e) \in called
AllRecorded ==
  /\ disk # None => Recorded(disk)
  /\ \A p \in Proc : mem[p] # None => Recorded(mem[p])

\* What a call adds is in the singleton until it ends.
CallsHeld ==
  /\ acked \subseteq called
  /\ \A p \in Proc :
       /\ adds[p] \subseteq called
       /\ pc[p] \in {"idle", "remove"} => adds[p] = {}
       /\ pc[p] = "remove" => clash
       /\ \A e \in adds[p] : Back(e) \in called \/ mem[p].edge[e] = "forward"

\* The file and the copies, with the types of all state: every edge comes from a
\* call, every dependent has its dependency (link(), infer_import_edges(), save()).
OrgInv == TypeOK /\ DependentsDepend /\ AllRecorded /\ CallsHeld
=============================================================================
