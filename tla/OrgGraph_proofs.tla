-------------------------- MODULE OrgGraph_proofs --------------------------
(***************************************************************************)
(* OrgInv, for any number of repositories, processes, calls and failures:  *)
(* every copy of the organisation's graph, and the file, is closed and     *)
(* recorded, and composition keeps it so.  With it, LinksKept: an edge a   *)
(* saved call recorded is not taken back by an older copy, since in that   *)
(* copy the edge is absent or the same.                                    *)
(***************************************************************************)
EXTENDS OrgGraph, TLAPS

\* What holds of a graph that is composed from recorded calls.
Sound(g, C) ==
  /\ g \in Graph /\ Paired(g)
  /\ \A e \in Pair : g.edge[e] = "reverse" => Back(e) \in C

\* A dependency in g is one in h, unless E has the opposite one.
Forward(g, h, E) ==
  \A e \in Pair : g.edge[e] = "forward" => h.edge[e] = "forward" \/ Back(e) \in E

-----------------------------------------------------------------------------
(* The operations on a graph.                                               *)

\* The opposite of a pair is another pair, and its opposite is the pair.
LEMMA BackPair == \A e \in Pair : Back(e) \in Pair /\ Back(e) # e /\ Back(Back(e)) = e
<1> SUFFICES ASSUME NEW e \in Pair PROVE Back(e) \in Pair /\ Back(e) # e /\ Back(Back(e)) = e
  OBVIOUS
<1>1. PICK r \in Repo, s \in Repo : e = <<r, s>> /\ r # s
  BY DEF Pair
<1> QED BY <1>1 DEF Pair, Back

\* More calls do not make a graph unsound.
LEMMA SoundMore ==
  ASSUME NEW g, NEW C, NEW D, Sound(g, C), C \subseteq D
  PROVE  Sound(g, D)
BY DEF Sound

\* A new graph is sound (OrgGraph.__init__()).
LEMMA EmptySound == \A C : Sound(Empty, C)
BY DEF Sound, Empty, Graph, Paired

\* The graph made from orgs.json is sound, and has its edges
\* (_migrate_from_orgs_json()).
LEMMA LegacySound ==
  /\ LegacyPairs \subseteq Pair
  /\ Sound(Legacy, LegacyPairs)
  /\ \A e \in LegacyPairs : Legacy.edge[e] = "forward"
<1>1. LegacyPairs \subseteq Pair
  BY RepoAssumption DEF LegacyPairs, Pair
<1>2. \A e \in Pair : Legacy.edge[e] =
        IF e[1] \in Member /\ e[2] = Root THEN "forward"
        ELSE IF e[1] = Root /\ e[2] \in Member THEN "reverse" ELSE "none"
  BY DEF Legacy
<1>3. \A e \in LegacyPairs : Legacy.edge[e] = "forward"
  BY <1>1, <1>2 DEF LegacyPairs
<1>4. Legacy \in Graph
  BY RepoAssumption DEF Legacy, Graph
<1>5. ASSUME NEW e \in Pair, Legacy.edge[e] = "reverse" PROVE Back(e) \in LegacyPairs
  BY <1>2, <1>5 DEF LegacyPairs, Back
<1> QED BY <1>1, <1>3, <1>4, <1>5 DEF Sound, Paired

\* link() keeps a graph sound, and adds its edge.
LEMMA LinkSound ==
  ASSUME NEW g, NEW C, Sound(g, C), NEW e \in Pair
  PROVE  /\ Sound(Linked(g, e), C \cup {e})
         /\ Linked(g, e).edge[e] = "forward"
         /\ Forward(g, Linked(g, e), {e})
<1> DEFINE h == Linked(g, e)
<1>1. h \in Graph /\ \A f \in Pair : h.edge[f] =
        IF f = Back(e) THEN "reverse" ELSE IF f = e THEN "forward" ELSE g.edge[f]
  <2>1. e[1] \in Repo /\ e[2] \in Repo
    BY DEF Pair
  <2>2. g.edge \in [Pair -> {"none", "forward", "reverse"}] /\ g.nodes \in SUBSET Repo
    BY DEF Sound, Graph
  <2> QED BY <2>1, <2>2, BackPair DEF Graph, Linked
<1>2. h.edge[e] = "forward"
  BY <1>1, BackPair
<1>3. ASSUME NEW f \in Pair, h.edge[f] = "reverse"
      PROVE  h.edge[Back(f)] = "forward" /\ Back(f) \in C \cup {e}
  <2>1. CASE f = Back(e)
    BY <2>1, <1>2, BackPair
  <2>2. CASE f # Back(e)
    <3>1. g.edge[f] = "reverse" /\ f # e
      BY <1>1, <1>3, <2>2
    <3>2. g.edge[Back(f)] = "forward" /\ Back(f) \in C
      BY <3>1 DEF Sound, Paired
    <3>3. Back(f) # Back(e)
      BY <3>1, BackPair
    <3> QED BY <1>1, <3>2, <3>3, BackPair
  <2> QED BY <2>1, <2>2
<1>4. Forward(g, h, {e})
  BY <1>1, BackPair DEF Forward
<1> QED BY <1>1, <1>2, <1>3, <1>4 DEF Sound, Paired

\* What the manifests, calls and imports of a repository add keeps a graph
\* sound, and is in it (link(), infer_import_edges()).
LEMMA WireSound ==
  ASSUME NEW g, NEW C, Sound(g, C), NEW r \in Repo,
         NEW D \in SUBSET (Repo \ {r}), NEW I \in SUBSET (Repo \ (D \cup {r}))
  PROVE  /\ Found(g, r, D, I) \subseteq Pair
         /\ Sound(Wired(g, r, D, I), C \cup Found(g, r, D, I))
         /\ \A e \in Found(g, r, D, I) : Wired(g, r, D, I).edge[e] = "forward"
         /\ Forward(g, Wired(g, r, D, I), Found(g, r, D, I))
<1> DEFINE h == LinkedAll(g, r, D)
           k == Wired(g, r, D, I)
           F == Found(g, r, D, I)
<1>1. g \in Graph /\ g.edge \in [Pair -> {"none", "forward", "reverse"}]
  BY DEF Sound, Graph
<1>2. h \in Graph /\ \A f \in Pair : h.edge[f] =
        IF f[1] = r /\ f[2] \in D THEN "forward"
        ELSE IF f[2] = r /\ f[1] \in D THEN "reverse" ELSE g.edge[f]
  BY <1>1 DEF LinkedAll, Graph
<1>3. New(h, r, I) \subseteq Repo \ {r}
  BY DEF New
<1>4. k \in Graph /\ \A f \in Pair : k.edge[f] =
        IF f[1] = r /\ f[2] \in New(h, r, I) THEN "forward" ELSE h.edge[f]
  BY <1>2, <1>3 DEF Wired, Inferred, Graph
<1>5. F \subseteq Pair
  BY <1>3 DEF Found, Pair
<1>6. ASSUME NEW f \in F PROVE k.edge[f] = "forward"
  <2>1. f \in Pair /\ f[1] = r /\ f[2] \in D \cup New(h, r, I)
    BY <1>5 DEF Found
  <2> QED BY <1>2, <1>4, <2>1
<1>7. ASSUME NEW f \in Pair, k.edge[f] = "reverse"
      PROVE  k.edge[Back(f)] = "forward" /\ Back(f) \in C \cup F
  <2>1. h.edge[f] = "reverse"
    BY <1>4, <1>7
  <2>2. Back(f) \in Pair /\ Back(f)[1] = f[2] /\ Back(f)[2] = f[1] /\ f[1] # f[2]
    BY BackPair DEF Back, Pair
  <2>3. CASE f[2] = r /\ f[1] \in D
    <3>1. Back(f) \in F
      BY <2>3 DEF Found, Back
    <3> QED BY <3>1, <1>6
  <2>4. CASE ~(f[2] = r /\ f[1] \in D)
    <3>1. g.edge[f] = "reverse" /\ ~(f[1] = r /\ f[2] \in D)
      BY <1>2, <2>1, <2>4
    <3>2. g.edge[Back(f)] = "forward" /\ Back(f) \in C
      BY <3>1 DEF Sound, Paired
    <3>3. h.edge[Back(f)] = "forward"
      BY <1>2, <2>2, <3>1, <3>2
    <3> QED BY <1>4, <2>2, <3>2, <3>3
  <2> QED BY <2>3, <2>4
<1>8. ASSUME NEW f \in Pair, g.edge[f] = "forward", Back(f) \notin F
      PROVE  k.edge[f] = "forward"
  <2>1. ~(f[2] = r /\ f[1] \in D)
    BY <1>8 DEF Found, Back
  <2> QED BY <1>2, <1>4, <1>8, <2>1
<1> QED BY <1>4, <1>5, <1>6, <1>7, <1>8 DEF Sound, Paired, Forward

\* The composition of sound graphs is sound (nx.compose() in save()).
LEMMA ComposeSound ==
  ASSUME NEW g, NEW h, NEW C, Sound(g, C), Sound(h, C)
  PROVE  Sound(Composed(g, h), C)
<1> DEFINE k == Composed(g, h)
<1>1. g \in Graph /\ h \in Graph
  BY DEF Sound
<1>2. k \in Graph /\ \A e \in Pair : k.edge[e] =
        IF h.edge[e] # "none" THEN h.edge[e] ELSE g.edge[e]
  BY <1>1 DEF Composed, Graph
<1>3. ASSUME NEW f \in Pair, k.edge[f] = "reverse"
      PROVE  k.edge[Back(f)] = "forward" /\ Back(f) \in C
  <2>1. Back(f) \in Pair /\ Back(Back(f)) = f
    BY BackPair
  <2>2. CASE h.edge[f] = "reverse"
    BY <1>2, <2>1, <2>2 DEF Sound, Paired
  <2>3. CASE h.edge[f] # "reverse"
    <3>1. h.edge[f] = "none" /\ g.edge[f] = "reverse"
      BY <1>2, <1>3, <2>3
    <3>2. g.edge[Back(f)] = "forward" /\ Back(f) \in C
      BY <3>1 DEF Sound, Paired
    <3>3. h.edge[Back(f)] # "reverse"
      BY <2>1, <3>1 DEF Sound, Paired
    <3>4. h.edge[Back(f)] \in {"none", "forward", "reverse"}
      BY <1>1, <2>1 DEF Graph
    <3> QED BY <1>2, <2>1, <3>2, <3>3, <3>4
  <2> QED BY <2>2, <2>3
<1> QED BY <1>2, <1>3 DEF Sound, Paired

-----------------------------------------------------------------------------
(* The steps.                                                               *)

\* What OrgInv says of the file and of a copy.
LEMMA InvSound ==
  ASSUME OrgInv
  PROVE  /\ disk # None => Sound(disk, called)
         /\ \A p \in Proc : mem[p] # None => Sound(mem[p], called)
BY DEF OrgInv, TypeOK, DependentsDepend, AllRecorded, Recorded, Sound

\* A step that keeps file and copies sound keeps what OrgInv says of them.
LEMMA SoundInv ==
  ASSUME disk' # None => Sound(disk', called'),
         \A p \in Proc : mem'[p] # None => Sound(mem'[p], called')
  PROVE  DependentsDepend' /\ AllRecorded'
BY DEF DependentsDepend, AllRecorded, Recorded, Sound

\* A step that leaves the file alone, acknowledges nothing and hides no clash.
LEMMA KeptByCall ==
  ASSUME LinksKept, UNCHANGED <<disk, acked>>, called \subseteq called', clash => clash'
  PROVE  LinksKept'
BY DEF LinksKept

\* A step that changes neither the file nor any call's edges but the caller's,
\* whose copy it drops or replaces by a sound one that holds them.
LEMMA CopyStep ==
  ASSUME OrgInv, NEW p \in Proc, TypeOK', UNCHANGED <<disk, acked>>,
         called \subseteq called', clash => clash',
         \A q \in Proc \ {p} : mem'[q] = mem[q] /\ pc'[q] = pc[q] /\ adds'[q] = adds[q],
         mem'[p] # None => Sound(mem'[p], called'),
         adds'[p] \subseteq called',
         pc'[p] \in {"idle", "remove"} => adds'[p] = {},
         pc'[p] = "remove" => clash',
         \A e \in adds'[p] : Back(e) \in called' \/ mem'[p].edge[e] = "forward"
  PROVE  OrgInv'
<1>1. disk' # None => Sound(disk', called')
  BY InvSound, SoundMore
<1>2. \A q \in Proc : mem'[q] # None => Sound(mem'[q], called')
  BY InvSound, SoundMore
<1>3. CallsHeld'
  BY DEF OrgInv, CallsHeld
<1> QED BY <1>1, <1>2, <1>3, SoundInv DEF OrgInv

\* The end of a call that writes the file (save()).
LEMMA WriteStep ==
  ASSUME OrgInv, LinksKept, TypeOK', NEW p \in Proc, mem[p] # None, Write(p),
         UNCHANGED called, acked' = acked \cup adds[p],
         \A q \in Proc \ {p} : mem'[q] = mem[q] /\ pc'[q] = pc[q] /\ adds'[q] = adds[q],
         mem'[p] # None => mem'[p] = Merged(p),
         pc'[p] = "idle", adds'[p] = {}
  PROVE  OrgInv' /\ LinksKept'
<1>1. Sound(mem[p], called) /\ (disk # None => Sound(disk, called))
  BY InvSound
<1>2. Sound(Merged(p), called)
  BY <1>1, ComposeSound DEF Merged
<1>3. disk' = Merged(p) /\ disk' # None
  BY <1>2, NoneAssumption DEF Write, Sound
<1>4. DependentsDepend' /\ AllRecorded'
  BY <1>2, <1>3, InvSound, SoundInv
<1>5. CallsHeld'
  BY DEF OrgInv, CallsHeld, Write
<1>6. ASSUME ~clash', NEW e \in acked', Back(e) \notin called'
      PROVE  disk'.edge[e] = "forward"
  <2>1. ~clash /\ (disk # None => Readable(p)) /\ e \in Pair
    BY <1>6 DEF Write, OrgInv, TypeOK
  <2>2. mem[p].edge[e] \in {"none", "forward"}
    BY <1>1, <1>6, <2>1 DEF Sound, Graph
  <2>3. CASE e \in acked
    <3>1. disk # None /\ disk.edge[e] = "forward"
      BY <1>6, <2>1, <2>3 DEF LinksKept
    <3>2. disk' = Composed(disk, mem[p])
      BY <1>3, <2>1, <3>1 DEF Merged
    <3>3. disk'.edge[e] = IF mem[p].edge[e] # "none" THEN mem[p].edge[e] ELSE disk.edge[e]
      BY <2>1, <3>2 DEF Composed
    <3> QED BY <2>2, <3>1, <3>3
  <2>4. CASE e \in adds[p]
    <3>1. mem[p].edge[e] = "forward"
      BY <1>6, <2>4 DEF OrgInv, CallsHeld
    <3>2. CASE disk = None
      BY <1>3, <3>1, <3>2 DEF Merged
    <3>3. CASE disk # None
      <4>1. disk' = Composed(disk, mem[p])
        BY <1>3, <2>1, <3>3 DEF Merged
      <4>2. \A f \in Pair : Composed(disk, mem[p]).edge[f] =
              IF mem[p].edge[f] # "none" THEN mem[p].edge[f] ELSE disk.edge[f]
        BY DEF Composed
      <4> QED BY <2>1, <3>1, <4>1, <4>2
    <3> QED BY <3>2, <3>3
  <2> QED BY <1>6, <2>3, <2>4
<1> QED BY <1>3, <1>4, <1>5, <1>6 DEF OrgInv, LinksKept

\* get_org_graph(): each way of coming to a copy, and the removal of the file.
LEMMA ReadStep ==
  ASSUME OrgInv, LinksKept, NEW p \in Proc, Read(p)
  PROVE  OrgInv' /\ LinksKept'
<1> USE DEF work, past, counts
<1>1. TypeOK
  BY DEF OrgInv
<1>2. CASE LoadNew(p)
  <2>1. Sound(Empty, called)
    BY EmptySound
  <2>2. TypeOK'
    BY <1>1, <1>2, <2>1, NoneAssumption DEF TypeOK, LoadNew, Sound
  <2>3. mem'[p] = Empty /\ pc'[p] = "idle" /\ adds'[p] = {}
    BY <1>1, <1>2 DEF LoadNew, TypeOK, OrgInv, CallsHeld
  <2>4. OrgInv'
    BY <1>1, <1>2, <2>1, <2>2, <2>3, CopyStep DEF LoadNew, TypeOK
  <2> QED BY <1>2, <2>4, KeptByCall DEF LoadNew
<1>3. CASE LoadLegacy(p)
  <2>1. Sound(Legacy, called')
    BY <1>3, LegacySound, SoundMore DEF LoadLegacy
  <2>2. TypeOK'
    BY <1>1, <1>3, <2>1, LegacySound, NoneAssumption DEF TypeOK, LoadLegacy, Sound
  <2>3. mem'[p] = Legacy /\ pc'[p] = "migrate" /\ adds'[p] = LegacyPairs
    BY <1>1, <1>3 DEF LoadLegacy, TypeOK
  <2>4. OrgInv'
    BY <1>1, <1>3, <2>1, <2>2, <2>3, LegacySound, CopyStep DEF LoadLegacy, TypeOK
  <2> QED BY <1>3, <2>4, KeptByCall DEF LoadLegacy
<1>4. CASE Load(p)
  <2>1. Sound(disk, called)
    BY <1>4, InvSound DEF Load
  <2>2. TypeOK'
    BY <1>1, <1>4 DEF TypeOK, Load
  <2>3. mem'[p] = disk /\ pc'[p] = "idle" /\ adds'[p] = {}
    BY <1>1, <1>4 DEF Load, TypeOK, OrgInv, CallsHeld
  <2>4. OrgInv'
    BY <1>1, <1>4, <2>1, <2>2, <2>3, CopyStep DEF Load, TypeOK
  <2> QED BY <1>4, <2>4, KeptByCall DEF Load
<1>5. CASE LoadForeign(p)
  <2>1. Sound(Empty, called)
    BY EmptySound
  <2>2. TypeOK'
    BY <1>1, <1>5, <2>1, NoneAssumption DEF TypeOK, LoadForeign, Sound
  <2>3. mem'[p] = Empty /\ pc'[p] \in {"idle", "remove"} /\ adds'[p] = {} /\ clash'
    BY <1>1, <1>5 DEF LoadForeign, TypeOK, OrgInv, CallsHeld
  <2>4. OrgInv'
    BY <1>1, <1>5, <2>1, <2>2, <2>3, CopyStep DEF LoadForeign, TypeOK
  <2> QED BY <1>5, <2>4, KeptByCall DEF LoadForeign
<1>6. CASE RemoveFile(p)
  <2>1. TypeOK'
    BY <1>1, <1>6 DEF TypeOK, RemoveFile
  <2>2. clash /\ clash'
    BY <1>6 DEF RemoveFile, OrgInv, CallsHeld
  <2>3. DependentsDepend' /\ AllRecorded'
    BY <1>6, InvSound, SoundInv DEF RemoveFile
  <2>4. CallsHeld'
    BY <1>1, <1>6, <2>2 DEF RemoveFile, CallsHeld, OrgInv, TypeOK
  <2> QED BY <2>1, <2>2, <2>3, <2>4 DEF OrgInv, LinksKept
<1>7. CASE SaveLegacy(p)
  <2>1. Sound(mem[p], called) /\ mem[p] # None
    BY <1>7, <1>1, InvSound DEF SaveLegacy, TypeOK
  <2>2. CASE Write(p) /\ mem' = [mem EXCEPT ![p] = Merged(p)]
             /\ acked' = acked \cup adds[p] /\ UNCHANGED fails
    <3>1. Merged(p) \in Graph /\ Merged(p) # None
      <4>1. Sound(Merged(p), called)
        BY <2>1, InvSound, ComposeSound DEF Merged
      <4> QED BY <4>1, NoneAssumption DEF Sound
    <3>2. TypeOK'
      BY <1>1, <1>7, <2>2, <3>1, ProcAssumption DEF TypeOK, SaveLegacy, Write, KeyOf,
         OrgInv, CallsHeld
    <3>3. mem'[p] = Merged(p) /\ pc'[p] = "idle" /\ adds'[p] = {}
      BY <1>1, <1>7, <2>2 DEF SaveLegacy, TypeOK
    <3> QED BY <1>1, <1>7, <2>1, <2>2, <3>2, <3>3, WriteStep DEF SaveLegacy, TypeOK
  <2>3. CASE fails < MaxFails /\ fails' = fails + 1
             /\ UNCHANGED <<disk, key, clash, mem, acked>>
    <3>1. TypeOK'
      BY <1>1, <1>7, <2>3, BoundAssumption DEF TypeOK, SaveLegacy
    <3>2. mem'[p] = mem[p] /\ pc'[p] = "idle" /\ adds'[p] = {}
      BY <1>1, <1>7, <2>3 DEF SaveLegacy, TypeOK
    <3>3. OrgInv'
      BY <1>1, <1>7, <2>1, <2>3, <3>1, <3>2, CopyStep DEF SaveLegacy, TypeOK
    <3> QED BY <1>7, <2>3, <3>3, KeptByCall DEF SaveLegacy
  <2> QED BY <1>7, <2>2, <2>3 DEF SaveLegacy
<1> QED BY <1>2, <1>3, <1>4, <1>5, <1>6, <1>7 DEF Read

\* A call that adds edges to the singleton.
LEMMA RecordStep ==
  ASSUME OrgInv, LinksKept, NEW p \in Proc, NEW g, NEW E \in SUBSET Pair,
         Record(p, g, E, TRUE) \/ Record(p, g, E, FALSE),
         pc' = [pc EXCEPT ![p] = "wire"] \/ pc' = [pc EXCEPT ![p] = "save"],
         Sound(g, called \cup E),
         Forward(mem[p], g, E),
         \A e \in E : g.edge[e] = "forward"
  PROVE  OrgInv' /\ LinksKept'
<1>1. TypeOK
  BY DEF OrgInv
<1>2. g \in Graph /\ g # None
  BY NoneAssumption DEF Sound
<1> DEFINE Recording ==
     /\ calls < MaxCalls /\ calls' = calls + 1
     /\ mem' = [mem EXCEPT ![p] = g] /\ adds' = [adds EXCEPT ![p] = @ \cup E]
     /\ called' = called \cup E /\ UNCHANGED <<disk, key, acked, clash, fails>>
<1>R. Recording
  BY DEF Record
<1>D. drops' \in [Proc -> BOOLEAN]
  <2>1. drops' = [drops EXCEPT ![p] = TRUE] \/ drops' = [drops EXCEPT ![p] = FALSE]
    BY DEF Record
  <2> QED BY <1>1, <2>1 DEF TypeOK
<1>3. TypeOK'
  <2>1. calls' \in 0 .. MaxCalls /\ fails' \in 0 .. MaxFails
    BY <1>1, <1>R, BoundAssumption DEF TypeOK
  <2>2. mem' \in [Proc -> Graph \cup {None}] /\ adds' \in [Proc -> SUBSET Pair]
    BY <1>1, <1>2, <1>R DEF TypeOK
  <2>3. /\ pc' \in [Proc -> {"idle", "migrate", "remove", "wire", "save"}]
        /\ \A q \in Proc : pc'[q] # "idle" => mem'[q] # None
    BY <1>1, <1>2, <1>R DEF TypeOK
  <2>4. called' \subseteq Pair /\ acked' \subseteq Pair /\ clash' \in BOOLEAN
    BY <1>1, <1>R DEF TypeOK
  <2>5. disk' \in Graph \cup {None} /\ key' \in Proc \cup {None} /\ (disk' = None => key' = None)
    BY <1>1, <1>R DEF TypeOK
  <2> QED BY <1>D, <2>1, <2>2, <2>3, <2>4, <2>5 DEF TypeOK
<1>4. mem'[p] = g /\ pc'[p] \in {"wire", "save"} /\ adds'[p] = adds[p] \cup E /\ called' = called \cup E
  BY <1>1, <1>R DEF TypeOK
<1>5. ASSUME NEW e \in adds'[p] PROVE Back(e) \in called' \/ mem'[p].edge[e] = "forward"
  <2>1. CASE e \in E
    BY <1>4, <2>1
  <2>2. CASE e \notin E
    <3>1. e \in Pair /\ (Back(e) \in called \/ mem[p].edge[e] = "forward")
      BY <1>1, <1>4, <2>2 DEF OrgInv, CallsHeld, TypeOK
    <3> QED BY <1>4, <3>1 DEF Forward
  <2> QED BY <2>1, <2>2
<1>6. adds'[p] \subseteq called'
  BY <1>4 DEF OrgInv, CallsHeld
<1>7. \A q \in Proc \ {p} : mem'[q] = mem[q] /\ pc'[q] = pc[q] /\ adds'[q] = adds[q]
  BY <1>1, <1>R DEF TypeOK
<1>8. OrgInv'
  BY <1>3, <1>4, <1>5, <1>6, <1>7, <1>R, CopyStep
<1> QED BY <1>4, <1>8, <1>R, KeptByCall

\* link_repos(), add_repo() with and without a parent, and what a set-up wires.
LEMMA CallStep ==
  ASSUME OrgInv, LinksKept, NEW p \in Proc, Call(p)
  PROVE  OrgInv' /\ LinksKept'
<1>1. mem[p] # None => Sound(mem[p], called)
  BY InvSound
<1>2. ASSUME NEW e \in Pair, Link(p, e) \/ AddChild(p, e)
      PROVE  OrgInv' /\ LinksKept'
  <2> DEFINE g == Linked(mem[p], e)
  <2>1. Record(p, g, {e}, TRUE) \/ Record(p, g, {e}, FALSE)
    BY <1>2 DEF Link, AddChild, RecordOne
  <2>2. mem[p] # None /\ pc' = [pc EXCEPT ![p] = "save"]
    BY <1>2, <2>1 DEF Link, AddChild, RecordOne, Record
  <2>3. /\ Sound(g, called \cup {e}) /\ Forward(mem[p], g, {e})
        /\ \A f \in {e} : g.edge[f] = "forward"
    BY <1>1, <2>2, LinkSound
  <2> HIDE DEF g
  <2> QED BY <2>1, <2>2, <2>3, RecordStep
<1>3. ASSUME NEW r \in Repo, AddRoot(p, r)
      PROVE  OrgInv' /\ LinksKept'
  <2> DEFINE g == [mem[p] EXCEPT !.nodes = @ \cup {r}]
             F == {}
  <2>1. Record(p, g, F, FALSE) /\ pc' = [pc EXCEPT ![p] = "save"]
    BY <1>3 DEF AddRoot, RecordOne
  <2>2. Sound(mem[p], called)
    BY <1>1, <2>1 DEF Record
  <2>3. g \in Graph /\ g.edge = mem[p].edge
    BY <2>2 DEF Sound, Graph
  <2>4. /\ F \subseteq Pair /\ Sound(g, called \cup F) /\ Forward(mem[p], g, F)
        /\ \A e \in F : g.edge[e] = "forward"
    BY <2>2, <2>3 DEF Sound, Paired, Forward
  <2> HIDE DEF g, F
  <2> QED BY <2>1, <2>4, RecordStep
<1>4. ASSUME NEW r \in Repo, NEW D \in SUBSET (Repo \ {r}),
             NEW I \in SUBSET (Repo \ (D \cup {r})), Wire(p, r, D, I)
      PROVE  OrgInv' /\ LinksKept'
  <2> DEFINE g == Wired(mem[p], r, D, I)
             F == Found(mem[p], r, D, I)
  <2>1. Record(p, g, F, FALSE) /\ pc' = [pc EXCEPT ![p] = "wire"] /\ mem[p] # None
    BY <1>4 DEF Wire
  <2>2. /\ F \subseteq Pair /\ Sound(g, called \cup F) /\ Forward(mem[p], g, F)
        /\ \A e \in F : g.edge[e] = "forward"
    BY <1>1, <2>1, WireSound
  <2> HIDE DEF g, F
  <2> QED BY <2>1, <2>2, RecordStep
<1> QED BY <1>2, <1>3, <1>4 DEF Call

\* The ends of a call, and of a process.
LEMMA EndStep ==
  ASSUME OrgInv, LinksKept, NEW p \in Proc, End(p)
  PROVE  OrgInv' /\ LinksKept'
<1> USE DEF work, past, counts
<1>1. TypeOK
  BY DEF OrgInv
<1>2. CASE Save(p)
  <2>1. mem[p] # None /\ Sound(mem[p], called)
    BY <1>1, <1>2, InvSound DEF Save, TypeOK
  <2>2. Merged(p) \in Graph /\ Merged(p) # None
    <3>1. Sound(Merged(p), called)
      BY <2>1, InvSound, ComposeSound DEF Merged
    <3> QED BY <3>1, NoneAssumption DEF Sound
  <2>3. TypeOK'
    BY <1>1, <1>2, <2>2, ProcAssumption DEF TypeOK, Save, Write, KeyOf, OrgInv, CallsHeld
  <2>4. (mem'[p] # None => mem'[p] = Merged(p)) /\ pc'[p] = "idle" /\ adds'[p] = {}
    BY <1>1, <1>2 DEF Save, TypeOK
  <2> QED BY <1>1, <1>2, <2>1, <2>3, <2>4, WriteStep DEF Save, TypeOK
<1>3. CASE SaveBusy(p)
  <2>1. Sound(mem[p], called)
    BY <1>1, <1>3, InvSound DEF SaveBusy, TypeOK
  <2>2. TypeOK'
    BY <1>1, <1>3, BoundAssumption DEF TypeOK, SaveBusy
  <2>3. mem'[p] = mem[p] /\ pc'[p] = "idle" /\ adds'[p] = {}
    BY <1>1, <1>3 DEF SaveBusy, TypeOK
  <2>4. OrgInv'
    BY <1>1, <1>3, <2>1, <2>2, <2>3, CopyStep DEF SaveBusy, TypeOK
  <2> QED BY <1>3, <2>4, KeptByCall DEF SaveBusy
<1>4. CASE SaveFails(p) \/ Kill(p)
  <2>1. TypeOK'
    BY <1>1, <1>4, BoundAssumption DEF TypeOK, SaveFails, Kill
  <2>2. mem'[p] = None /\ pc'[p] = "idle" /\ adds'[p] = {}
    BY <1>1, <1>4 DEF SaveFails, Kill, TypeOK
  <2>3. OrgInv'
    BY <1>1, <1>4, <2>1, <2>2, CopyStep DEF SaveFails, Kill, TypeOK
  <2> QED BY <1>4, <2>3, KeptByCall DEF SaveFails, Kill
<1> QED BY <1>2, <1>3, <1>4 DEF End

-----------------------------------------------------------------------------
\* Both hold at the start and are kept by every step.
LEMMA Always == Spec => [](OrgInv /\ LinksKept)
<1>1. Init => OrgInv /\ LinksKept
  <2> SUFFICES ASSUME Init PROVE OrgInv /\ LinksKept
    OBVIOUS
  <2>1. TypeOK
    <3>1. 0 \in 0 .. MaxCalls /\ 0 \in 0 .. MaxFails
      BY BoundAssumption
    <3>2. disk \in Graph \cup {None} /\ key \in Proc \cup {None} /\ clash \in BOOLEAN
      BY DEF Init
    <3>3. mem \in [Proc -> Graph \cup {None}] /\ adds \in [Proc -> SUBSET Pair]
      BY DEF Init
    <3>4. /\ pc \in [Proc -> {"idle", "migrate", "remove", "wire", "save"}]
          /\ \A p \in Proc : pc[p] = "idle"
      BY DEF Init
    <3>5. drops \in [Proc -> BOOLEAN]
      BY DEF Init
    <3> QED BY <3>1, <3>2, <3>3, <3>4, <3>5 DEF Init, TypeOK
  <2>2. DependentsDepend /\ AllRecorded /\ CallsHeld
    BY DEF Init, DependentsDepend, AllRecorded, CallsHeld
  <2> QED BY <2>1, <2>2 DEF Init, OrgInv, LinksKept
<1>2. OrgInv /\ LinksKept /\ [Next]_vars => (OrgInv /\ LinksKept)'
  <2> SUFFICES ASSUME OrgInv, LinksKept, [Next]_vars PROVE OrgInv' /\ LinksKept'
    OBVIOUS
  <2>1. CASE Next
    BY <2>1, ReadStep, CallStep, EndStep DEF Next
  <2>2. CASE UNCHANGED vars
    BY <2>2 DEF vars, work, past, counts, OrgInv, LinksKept, TypeOK, DependentsDepend,
       AllRecorded, CallsHeld, Recorded, Paired
  <2> QED BY <2>1, <2>2
<1> QED BY <1>1, <1>2, PTL DEF Spec

\* Whatever is recorded by whom, saved over what and lost where, the file and
\* every copy list a dependent only with its dependency, and only where a call
\* recorded it (add_repo(), link(), infer_import_edges(), save()).
THEOREM Consistent == Spec => []OrgInv
<1> QED BY Always, PTL

\* An edge of a call that was saved stays in the file as recorded, as long as
\* nobody records its opposite and all can read the file (save()).
THEOREM LinksStay == Spec => []LinksKept
<1> QED BY Always, PTL
=============================================================================
