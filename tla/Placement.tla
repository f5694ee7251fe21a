----------------------------- MODULE Placement -----------------------------
(***************************************************************************)
(* First-fit placement of a group's bundles over the candidate agents, as  *)
(* the daemon computes it (rust/mentatd/src/daemon.rs, fit).  Only the     *)
(* algorithm is here: the tables it reads belong to module Head.           *)
(*                                                                         *)
(* The code walks the bundles in order and drains GPUs from the front of   *)
(* each agent's free list.  Here an assignment is characterised instead:   *)
(* IsFit holds of the one assignment that walk produces, so no recursion   *)
(* is needed.  A GPU is its position in the agent's device list and a free *)
(* list is a set of positions: it keeps the device list's order, so its    *)
(* front is its least positions.                                           *)
(***************************************************************************)
EXTENDS Integers, FiniteSets

\* A bundle that asks for no GPU still reserves one: (*spec).max(1).
Need(spec) == IF spec = 0 THEN 1 ELSE spec

\* gpus is what free.drain(..need) takes from the free set.
Drains(gpus, free, need) ==
  /\ gpus \subseteq free
  /\ Cardinality(gpus) = need
  /\ \A x \in gpus, y \in free \ gpus : x < y

\* Mutant of Left: what earlier bundles of the group took is not drained.
LeftUndrained(asg, free, i, g) == free[g]

\* What agent g has left when the walk reaches bundle i.
Left(asg, free, i, g) ==
  free[g] \ UNION {asg[j].gpus : j \in {k \in 1 .. i - 1 : asg[k].agent = g}}

(***************************************************************************)
(* Every bundle is on the first candidate agent, by the order `before`,    *)
(* that has enough GPUs left, and holds the least positions left there.     *)
(***************************************************************************)
IsFit(asg, cand, before, free, bundles) ==
  \A i \in DOMAIN bundles :
    LET g    == asg[i].agent
        need == Need(bundles[i])
    IN  /\ Drains(asg[i].gpus, Left(asg, free, i, g), need)
        /\ \A h \in cand : <<h, g>> \in before =>
                             Cardinality(Left(asg, free, i, h)) < need

\* fit: all bundles at once or none.  Empty when they do not all fit, else
\* the singleton of the assignment.
Fits(cand, before, free, bundles) ==
  {asg \in [DOMAIN bundles ->
              [agent : cand, gpus : SUBSET UNION {free[g] : g \in cand}]] :
     IsFit(asg, cand, before, free, bundles)}
=============================================================================
