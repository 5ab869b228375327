---------------------------- MODULE DurableGraph ----------------------------
(***************************************************************************)
(* What the graph store promises to the code that uses it, without files,  *)
(* locks or stamps: mutations collect in an open batch per instance, a     *)
(* batch becomes durable whole or not at all, what is durable stays, and   *)
(* an instance is told that a batch is safe only when it is.               *)
(***************************************************************************)
CONSTANTS
  Proc,     \* instances
  Op        \* mutations

VARIABLES
  durable,  \* ops that a load of the store finds
  open,     \* per instance, the ops issued and not yet acknowledged
  issued,   \* ops issued so far
  acked     \* ops acknowledged as durable

vars == <<durable, open, issued, acked>>

Init ==
  /\ durable = {}
  /\ open = [p \in Proc |-> {}]
  /\ issued = {}
  /\ acked = {}

Issue(p, o) ==
  /\ o \notin issued
  /\ issued' = issued \cup {o}
  /\ open' = [open EXCEPT ![p] = @ \cup {o}]
  /\ UNCHANGED <<durable, acked>>

\* The whole batch of p becomes durable, the instance not yet knowing it.
Persist(p) ==
  /\ durable' = durable \cup open[p]
  /\ UNCHANGED <<open, issued, acked>>

\* p learns that its batch is durable.
Acknowledge(p) ==
  /\ open[p] \subseteq durable
  /\ acked' = acked \cup open[p]
  /\ open' = [open EXCEPT ![p] = {}]
  /\ UNCHANGED <<durable, issued>>

\* Both at once.
Commit(p) ==
  /\ durable' = durable \cup open[p]
  /\ acked' = acked \cup open[p]
  /\ open' = [open EXCEPT ![p] = {}]
  /\ UNCHANGED issued

\* p dies; what it had not persisted is gone.
Abandon(p) ==
  /\ open' = [open EXCEPT ![p] = {}]
  /\ UNCHANGED <<durable, issued, acked>>

Next ==
  \E p \in Proc :
    \/ \E o \in Op : Issue(p, o)
    \/ Persist(p)
    \/ Acknowledge(p)
    \/ Commit(p)
    \/ Abandon(p)

Spec == Init /\ [][Next]_vars
=============================================================================
