-------------------------- MODULE PlacementProofs --------------------------
(***************************************************************************)
(* What try_place does to the tables of module Head, whatever the tables,  *)
(* the order it meets the groups in and the number of agents: it places a  *)
(* pending group whole, on free devices of connected agents, and leaves    *)
(* the rest.  Used by HeadProofs.                                          *)
(***************************************************************************)
EXTENDS Head, FiniteSetTheorems, WellFoundedInduction, TLAPS

----------------------------------------------------------------------------
(* Iteration.                                                              *)

\* A set of naturals that is not empty has a least element.
LEMMA LeastNat ==
  ASSUME NEW T \in SUBSET Nat, T # {}
  PROVE  \E x \in T : \A y \in T : x <= y
<1>1. IsWellFoundedOn(OpToRel(<, Nat), Nat)
  BY NatLessThanWellFounded, Zenon
<1>2. PICK x \in T : \A y \in T : ~ (<<y, x>> \in OpToRel(<, Nat))
  BY <1>1, WFMin, Zenon
<1>3. \A y \in T : ~(y < x)
  BY <1>2 DEF OpToRel
<1> QED BY <1>3

\* An order of a finite set is a sequence of its elements.
LEMMA OrdersAreSeqs ==
  ASSUME NEW S, IsFiniteSet(S), NEW o \in Orders(S)
  PROVE  o \in Seq(S)
<1>1. Cardinality(S) \in Nat
  BY FS_CardinalityType
<1> QED BY <1>1 DEF Orders

----------------------------------------------------------------------------
(* Placement.                                                              *)

\* What fit hands out is free, and no GPU goes to two bundles.
LEMMA FitsSound ==
  ASSUME NEW cand, NEW before, NEW free, NEW bundles \in Seq(Nat),
         NEW asg \in Fits(cand, before, free, bundles)
  PROVE  /\ DOMAIN asg = DOMAIN bundles
         /\ \A i \in DOMAIN asg : asg[i].agent \in cand /\ asg[i].gpus \subseteq free[asg[i].agent]
         /\ \A i \in DOMAIN asg : asg[i] = [agent |-> asg[i].agent, gpus |-> asg[i].gpus]
         /\ \A i, j \in DOMAIN asg : i # j /\ asg[i].agent = asg[j].agent =>
              asg[i].gpus \cap asg[j].gpus = {}
<1>1. /\ asg \in [DOMAIN bundles -> [agent : cand, gpus : SUBSET UNION {free[g] : g \in cand}]]
      /\ IsFit(asg, cand, before, free, bundles)
  BY DEF Fits
<1>2. \A i \in DOMAIN bundles : asg[i].gpus \subseteq Left(asg, free, i, asg[i].agent)
  BY <1>1 DEF IsFit, Drains
<1>3. ASSUME NEW i \in DOMAIN bundles
      PROVE  asg[i].agent \in cand /\ asg[i].gpus \subseteq free[asg[i].agent]
  BY <1>1, <1>2 DEF Left
<1>4. ASSUME NEW i \in DOMAIN bundles, NEW j \in DOMAIN bundles, j < i,
             asg[i].agent = asg[j].agent
      PROVE  asg[i].gpus \cap asg[j].gpus = {}
  <2>1. j \in {k \in 1 .. i - 1 : asg[k].agent = asg[i].agent}
    BY <1>4
  <2> QED BY <2>1, <1>2 DEF Left
<1>5. \A i, j \in DOMAIN bundles : i # j => i < j \/ j < i
  OBVIOUS
<1> QED BY <1>1, <1>3, <1>4, <1>5

\* NoDoubleAlloc, of the actors in `live` and a placement group table.
NoDouble(live, t) ==
  \A p \in Pgs : t[p].state = "created" =>
    /\ \A i, j \in DOMAIN t[p].asg : i # j /\ t[p].asg[i].agent = t[p].asg[j].agent =>
         t[p].asg[i].gpus \cap t[p].asg[j].gpus = {}
    /\ \A q \in Pgs \ {p} : t[q].state = "created" => PgDevices(t[p]) \cap PgDevices(t[q]) = {}
    /\ \A a \in live : spec[a].pg # p => PgDevices(t[p]) \cap ActorDevices(a) = {}

\* The live actors of an actor table.
LiveIn(acts) == {a \in Actors : acts[a].state = "live"}

\* The rows placement may turn row into: itself, or when it was pending, the
\* same group with devices of agents in `alive`.
Placed(alive, row) ==
  {new \in PgRow :
     \/ new = row
     \/ /\ row.state = "pending"
        /\ new.state = "created"
        /\ PgDevices(new) \subseteq UNION {{g} \X AgentGpus[g] : g \in alive}}

\* The tables placement may turn t into.
Later(alive, t) == {u \in PgTable : \A p \in Pgs : u[p] \in Placed(alive, t[p])}

\* The agents with a live row.
AliveIn(db) == {g \in Agents : db.agents[g] = "alive"}

\* A device of a row is one of the GPUs of one of its bundles.
LEMMA InPgDevices ==
  ASSUME NEW row, NEW d
  PROVE  d \in PgDevices(row) <=>
           \E i \in DOMAIN row.asg : d \in {row.asg[i].agent} \X row.asg[i].gpus
BY DEF PgDevices

\* Placing nothing is a placement.
LEMMA LaterRefl ==
  ASSUME NEW alive, NEW t \in PgTable
  PROVE  t \in Later(alive, t)
BY DEF Later, Placed, PgTable

\* Placing twice is a placement.
LEMMA LaterTrans ==
  ASSUME NEW alive, NEW t, NEW u \in Later(alive, t), NEW v \in Later(alive, u)
  PROVE  v \in Later(alive, t)
BY DEF Later, Placed

\* One group of the loop: it is placed on devices nobody holds, or left.
LEMMA PlaceOneSafe ==
  ASSUME NEW db, NEW live \in SUBSET LiveIn(db.actors), NEW t \in PgTable, NEW p \in Pgs,
         NoDouble(live, t)
  PROVE  LET u == PlaceOne(db, p, t)
         IN  /\ u \in PgTable
             /\ NoDouble(live, u)
             /\ \A q \in Pgs \ {p} : u[q] = t[q]
             /\ \/ u[p] = t[p]
                \/ /\ u[p].state = "created"
                   /\ PgDevices(u[p]) \subseteq UNION {{g} \X AgentGpus[g] : g \in AliveIn(db)}
<1> DEFINE cand == {g \in Agents : db.agents[g] = "alive" /\ AgentGroup[g] = t[p].group}
           node == IF db.clients[t[p].owner] = "none" THEN NoNode ELSE ClientNode[t[p].owner]
           free == [g \in Agents |-> free_gpus_of(db, t, g)]
           fits == Fits(cand, Before(db, node), free, t[p].bundles)
           asg  == CHOOSE x \in fits : TRUE
           new  == [t[p] EXCEPT !.state = "created", !.asg = asg]
           u    == [t EXCEPT ![p] = new]
<1>1. CASE fits = {}
  <2>1. PlaceOne(db, p, t) = t
    BY <1>1 DEF PlaceOne
  <2> QED BY <2>1
<1>2. CASE fits # {}
  <2>1. PlaceOne(db, p, t) = u
    BY <1>2 DEF PlaceOne
  <2>2. t[p] \in PgRow /\ t[p].bundles \in Seq(Nat)
    BY DEF PgTable, PgRow
  <2>3. asg \in fits
    BY <1>2
  <2>4. /\ DOMAIN asg = DOMAIN t[p].bundles
        /\ \A i \in DOMAIN asg : asg[i].agent \in cand /\ asg[i].gpus \subseteq free[asg[i].agent]
        /\ \A i \in DOMAIN asg : asg[i] = [agent |-> asg[i].agent, gpus |-> asg[i].gpus]
        /\ \A i, j \in DOMAIN asg : i # j /\ asg[i].agent = asg[j].agent =>
             asg[i].gpus \cap asg[j].gpus = {}
    <3> HIDE DEF cand, free, node, asg
    <3> QED BY <2>2, <2>3, FitsSound
  <2>5. asg \in [DOMAIN t[p].bundles -> [agent : cand, gpus : SUBSET UNION {free[g] : g \in cand}]]
    <3> HIDE DEF cand, free, node, asg
    <3> QED BY <2>3 DEF Fits
  <2> HIDE DEF asg, fits, node
  <2>6. \A i \in DOMAIN asg : /\ asg[i].agent \in AliveIn(db)
                              /\ asg[i].gpus \subseteq free_gpus_of(db, t, asg[i].agent)
    BY <2>4 DEF AliveIn
  <2>7. \A g \in Agents : free_gpus_of(db, t, g) \subseteq AgentGpus[g] /\ AgentGpus[g] \subseteq Nat
    BY HeadAssumption DEF free_gpus_of
  <2>8. asg \in Seq(Assignment)
    <3>1. asg \in [DOMAIN t[p].bundles -> Assignment]
      BY <2>4, <2>5, <2>6, <2>7 DEF Assignment, AliveIn
    <3> QED BY <2>2, <3>1
  <2>9. /\ new \in PgRow /\ new.state = "created" /\ new.asg = asg /\ new.bundles = t[p].bundles
        /\ u \in [Pgs -> PgRow] /\ u[p] = new /\ \A q \in Pgs \ {p} : u[q] = t[q]
    BY <2>2, <2>8 DEF PgRow, PgState, PgTable
  <2> HIDE DEF new, u
  <2>10. u \in PgTable
    BY <2>4, <2>9 DEF PgTable
  <2>11. ASSUME NEW d \in PgDevices(new)
         PROVE  /\ d \in UNION {{g} \X AgentGpus[g] : g \in AliveIn(db)}
                /\ \A q \in Pgs : Holds(t[q]) => d \notin PgDevices(t[q])
                /\ \A a \in live : d \notin ActorDevices(a)
    <3>1. PICK i \in DOMAIN asg : d \in {asg[i].agent} \X asg[i].gpus
      BY <2>9, InPgDevices
    <3>2. PICK x \in asg[i].gpus : d = <<asg[i].agent, x>>
      BY <3>1
    <3>3. x \in free_gpus_of(db, t, asg[i].agent)
      BY <2>6, <3>2
    <3> QED BY <2>6, <2>7, <3>2, <3>3 DEF free_gpus_of, AliveIn, LiveIn
  <2>12. NoDouble(live, u)
    <3> SUFFICES ASSUME NEW r \in Pgs, u[r].state = "created"
                 PROVE  /\ \A i, j \in DOMAIN u[r].asg :
                             i # j /\ u[r].asg[i].agent = u[r].asg[j].agent =>
                               u[r].asg[i].gpus \cap u[r].asg[j].gpus = {}
                        /\ \A q \in Pgs \ {r} : u[q].state = "created" =>
                             PgDevices(u[r]) \cap PgDevices(u[q]) = {}
                        /\ \A a \in live : spec[a].pg # r =>
                             PgDevices(u[r]) \cap ActorDevices(a) = {}
      BY DEF NoDouble
    <3>1. CASE r = p
      <4>1. \A q \in Pgs \ {r} : u[q].state = "created" => Holds(t[q]) /\ u[q] = t[q]
        BY <3>1, <2>9 DEF Holds
      <4>2. \A q \in Pgs \ {r} : u[q].state = "created" =>
              PgDevices(u[r]) \cap PgDevices(u[q]) = {}
        BY <3>1, <4>1, <2>9, <2>11
      <4>3. \A a \in live : PgDevices(u[r]) \cap ActorDevices(a) = {}
        BY <3>1, <2>9, <2>11
      <4> QED BY <3>1, <4>2, <4>3, <2>4, <2>9
    <3>2. CASE r # p
      <4>1. u[r] = t[r] /\ Holds(t[r])
        BY <3>2, <2>9 DEF Holds
      <4>2. \A q \in Pgs \ {r, p} : u[q] = t[q]
        BY <2>9
      <4>3. PgDevices(u[r]) \cap PgDevices(u[p]) = {}
        BY <4>1, <2>9, <2>11
      <4> QED BY <3>2, <4>1, <4>2, <4>3 DEF NoDouble
    <3> QED BY <3>1, <3>2
  <2> QED BY <2>1, <2>9, <2>10, <2>11, <2>12
<1> QED BY <1>1, <1>2

\* The tables try_place may leave from t: later than t, no device twice.
Safe(db, live, t) == {u \in Later(AliveIn(db), t) : NoDouble(live, u)}

\* A step of the loop stays among the tables try_place may leave.
LEMMA PlaceOneStays ==
  ASSUME NEW db, NEW live \in SUBSET LiveIn(db.actors), NEW t \in PgTable, NEW u \in Safe(db, live, t),
         NEW p \in Pgs, t[p].state = "pending"
  PROVE  PlaceOne(db, p, u) \in Safe(db, live, t)
<1>1. u \in PgTable /\ NoDouble(live, u) /\ \A q \in Pgs : u[q] \in Placed(AliveIn(db), t[q])
  BY DEF Safe, Later
<1> DEFINE v == PlaceOne(db, p, u)
<1>3. /\ v \in PgTable
      /\ NoDouble(live, v)
      /\ \A q \in Pgs \ {p} : v[q] = u[q]
      /\ \/ v[p] = u[p]
         \/ /\ v[p].state = "created"
            /\ PgDevices(v[p]) \subseteq UNION {{g} \X AgentGpus[g] : g \in AliveIn(db)}
  BY <1>1, PlaceOneSafe
<1> HIDE DEF v
<1>4. v[p] \in Placed(AliveIn(db), t[p])
  BY <1>1, <1>3 DEF Placed, PgTable
<1>5. \A q \in Pgs : v[q] \in Placed(AliveIn(db), t[q])
  BY <1>1, <1>3, <1>4
<1>6. v \in Safe(db, live, t)
  BY <1>3, <1>5 DEF Safe, Later
<1> QED BY <1>6 DEF v

\* The whole loop, whatever the order.
LEMMA PlaceAllSafe ==
  ASSUME NEW db, NEW live \in SUBSET LiveIn(db.actors), NEW t \in PgTable, NoDouble(live, t),
         NEW order \in Seq({p \in Pgs : t[p].state = "pending"})
  PROVE  PlaceAll(db, order, t) \in Safe(db, live, t)
<1> DEFINE n == Len(order)
           Body(f, i) == IF i = 0 THEN t ELSE PlaceOne(db, order[i], f[i - 1])
           Upto(k, f) == f = [i \in 0 .. k |-> Body(f, i)]
           T == {k \in Nat : ~ \E f : Upto(k, f)}
<1>1. n \in Nat
  OBVIOUS
<1>2. T = {}
  <2> SUFFICES ASSUME T # {} PROVE FALSE
    OBVIOUS
  <2>1. PICK k \in T : \A y \in T : k <= y
    BY LeastNat
  <2>2. k # 0
    <3>1. Upto(0, [i \in 0 .. 0 |-> t])
      OBVIOUS
    <3> QED BY <3>1
  <2>3. k \in Nat /\ k - 1 \in Nat
    BY <2>2
  <2>4. k - 1 \notin T
    <3> HIDE DEF T
    <3>1. ~(k <= k - 1)
      BY <2>3
    <3> QED BY <2>1, <3>1
  <2>5. PICK f : Upto(k - 1, f)
    BY <2>3, <2>4
  <2> DEFINE h == [i \in 0 .. k |-> IF i = k THEN PlaceOne(db, order[k], f[k - 1]) ELSE f[i]]
  <2>6. \A i \in 0 .. k : h[i] = Body(h, i)
    <3> SUFFICES ASSUME NEW i \in 0 .. k PROVE h[i] = Body(h, i)
      OBVIOUS
    <3>1. CASE i = k
      BY <3>1, <2>2
    <3>2. CASE i # k
      BY <3>2, <2>5, <2>2
    <3> QED BY <3>1, <3>2
  <2>7. h = [i \in 0 .. k |-> h[i]]
    OBVIOUS
  <2> HIDE DEF h
  <2>8. Upto(k, h)
    BY <2>6, <2>7
  <2> QED BY <2>1, <2>8
<1>3. \E f : Upto(n, f)
  BY <1>1, <1>2
<1> DEFINE after == CHOOSE f : Upto(n, f)
<1>4. Upto(n, after)
  BY <1>3
<1>5. PlaceAll(db, order, t) = after[n]
  BY DEF PlaceAll
<1> HIDE DEF after
<1> DEFINE B == {k \in Nat : k \in 0 .. n /\ after[k] \notin Safe(db, live, t)}
<1>6. B = {}
  <2> SUFFICES ASSUME B # {} PROVE FALSE
    OBVIOUS
  <2>1. PICK k \in B : \A y \in B : k <= y
    BY LeastNat
  <2>2. t \in Safe(db, live, t)
    BY LaterRefl DEF Safe
  <2>3. k # 0
    BY <1>4, <2>1, <2>2
  <2>4. after[k - 1] \in Safe(db, live, t)
    BY <2>1, <2>3
  <2>5. after[k] = PlaceOne(db, order[k], after[k - 1])
    BY <1>4, <2>1, <2>3
  <2>6. order[k] \in Pgs /\ t[order[k]].state = "pending"
    BY <2>1, <2>3
  <2>7. after[k] \in Safe(db, live, t)
    BY <2>4, <2>5, <2>6, PlaceOneStays
  <2> QED BY <2>1, <2>7
<1> QED BY <1>1, <1>5, <1>6

\* try_place places on free devices, all of a group's or none.
LEMMA TryPlaceSafe ==
  ASSUME NEW db, NEW live \in SUBSET LiveIn(db.actors), NEW t \in PgTable, NoDouble(live, t),
         NEW u \in try_place(db, t)
  PROVE  u \in Safe(db, live, t)
<1> DEFINE S == {p \in Pgs : t[p].state = "pending"}
<1>1. IsFiniteSet(S)
  BY FS_Subset, HeadAssumption
<1>2. PICK order \in Orders(S) : u = PlaceAll(db, order, t)
  BY DEF try_place
<1>3. order \in Seq(S)
  BY <1>1, <1>2, OrdersAreSeqs
<1> QED BY <1>2, <1>3, PlaceAllSafe

\* Fewer live actors and fewer placed groups, fewer conflicts.
LEMMA NoDoubleFewer ==
  ASSUME NEW live, NEW fewer \in SUBSET live, NEW t, NEW u, NoDouble(live, t),
         \A p \in Pgs : u[p].state = "created" => u[p] = t[p]
  PROVE  NoDouble(fewer, u)
BY DEF NoDouble

\* The tables try_place reads are a record.
IsDb(db) == db = [clients |-> db.clients, agents |-> db.agents, older |-> db.older,
                  actors |-> db.actors]

\* A run of deaths, each followed by a try_place, is as safe as its try_places.
LEMMA MarkAllDeadSafe ==
  ASSUME NEW db, IsDb(db), NEW S, NEW order \in Seq(S),
         NEW live \in SUBSET (LiveIn(db.actors) \ S),
         NEW t \in PgTable, NoDouble(live, t), NEW u \in MarkAllDead(db, order, t)
  PROVE  u \in Safe(db, live, t)
<1> DEFINE n == Len(order)
           deadUpTo(i) == {order[j] : j \in 1 .. i}
           dbAfter(i) == [db EXCEPT !.actors =
                            [a \in Actors |-> IF a \in deadUpTo(i)
                                              THEN [@[a] EXCEPT !.state = "dead"] ELSE @[a]]]
           Step(i, X) == UNION {try_place(dbAfter(i), x) : x \in X}
           Body(f, i) == IF i = 0 THEN {t} ELSE Step(i, f[i - 1])
           Upto(k, f) == f = [i \in 0 .. k |-> Body(f, i)]
           T == {k \in Nat : ~ \E f : Upto(k, f)}
<1>1. n \in Nat
  OBVIOUS
<1>2. T = {}
  <2> HIDE DEF Step
  <2> SUFFICES ASSUME T # {} PROVE FALSE
    OBVIOUS
  <2>1. PICK k \in T : \A y \in T : k <= y
    BY LeastNat
  <2>2. k # 0
    <3>1. Upto(0, [i \in 0 .. 0 |-> {t}])
      OBVIOUS
    <3> QED BY <3>1
  <2>3. k \in Nat /\ k - 1 \in Nat
    BY <2>2
  <2>4. k - 1 \notin T
    <3> HIDE DEF T
    <3>1. ~(k <= k - 1)
      BY <2>3
    <3> QED BY <2>1, <3>1
  <2>5. PICK f : Upto(k - 1, f)
    BY <2>3, <2>4
  <2> DEFINE h == [i \in 0 .. k |-> IF i = k THEN Step(k, f[k - 1]) ELSE f[i]]
  <2>6. \A i \in 0 .. k : h[i] = Body(h, i)
    <3> SUFFICES ASSUME NEW i \in 0 .. k PROVE h[i] = Body(h, i)
      OBVIOUS
    <3> HIDE DEF T
    <3>1. CASE i = k
      BY <3>1, <2>2, <2>3
    <3>2. CASE i # k
      <4>1. i \in 0 .. k - 1
        BY <3>2, <2>3
      <4>2. f[i] = Body(f, i)
        BY <4>1, <2>5
      <4>3. h[i] = f[i] /\ (i # 0 => h[i - 1] = f[i - 1])
        BY <4>1, <3>2, <2>3
      <4> QED BY <4>2, <4>3
    <3> QED BY <3>1, <3>2
  <2>7. h = [i \in 0 .. k |-> h[i]]
    OBVIOUS
  <2> HIDE DEF h
  <2>8. Upto(k, h)
    BY <2>6, <2>7
  <2> QED BY <2>1, <2>8
<1>3. \E f : Upto(n, f)
  BY <1>1, <1>2
<1> DEFINE tables == CHOOSE f : Upto(n, f)
<1>4. Upto(n, tables)
  BY <1>3
<1>5. MarkAllDead(db, order, t) = tables[n]
  BY DEF MarkAllDead
<1>6. ASSUME NEW i \in 0 .. n
      PROVE  AliveIn(dbAfter(i)) = AliveIn(db) /\ live \subseteq LiveIn(dbAfter(i).actors)
  <2>1. deadUpTo(i) \subseteq S
    BY <1>1
  <2>2. /\ dbAfter(i).agents = db.agents
        /\ dbAfter(i).actors = [a \in Actors |-> IF a \in deadUpTo(i)
                                                 THEN [db.actors[a] EXCEPT !.state = "dead"]
                                                 ELSE db.actors[a]]
    BY DEF IsDb
  <2> HIDE DEF deadUpTo, dbAfter
  <2> QED BY <2>1, <2>2 DEF AliveIn, LiveIn
<1> HIDE DEF tables, dbAfter
<1> DEFINE B == {k \in Nat : k \in 0 .. n /\ ~(tables[k] \subseteq Safe(db, live, t))}
<1>7. B = {}
  <2> SUFFICES ASSUME B # {} PROVE FALSE
    OBVIOUS
  <2>1. PICK k \in B : \A y \in B : k <= y
    BY LeastNat
  <2>2. t \in Safe(db, live, t)
    BY LaterRefl DEF Safe
  <2>3. k # 0
    BY <1>4, <2>1, <2>2
  <2>4. tables[k - 1] \subseteq Safe(db, live, t)
    BY <2>1, <2>3
  <2>5. tables[k] = Step(k, tables[k - 1])
    BY <1>4, <2>1, <2>3
  <2>6. ASSUME NEW v \in tables[k] PROVE v \in Safe(db, live, t)
    <3>1. PICK x \in tables[k - 1] : v \in try_place(dbAfter(k), x)
      BY <2>5
    <3>2. x \in Later(AliveIn(db), t) /\ x \in PgTable /\ NoDouble(live, x)
      BY <2>4, <3>1 DEF Safe, Later
    <3>3. v \in Safe(dbAfter(k), live, x)
      BY <1>6, <2>1, <3>1, <3>2, TryPlaceSafe
    <3>4. v \in Later(AliveIn(db), x) /\ NoDouble(live, v)
      BY <1>6, <2>1, <3>3 DEF Safe
    <3> QED BY <3>2, <3>4, LaterTrans DEF Safe
  <2> QED BY <2>1, <2>6
<1> QED BY <1>1, <1>5, <1>7

=============================================================================
