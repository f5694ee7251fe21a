---------------------------- MODULE AllocProofs ----------------------------
(***************************************************************************)
(* A created group shares no device with another group or a live actor not *)
(* its own, for every cluster and every failure but the history sweep,     *)
(* which may forget an actor whose process still runs.                     *)
(* The argument is in README.md.                                           *)
(***************************************************************************)
EXTENDS HeadProofs

----------------------------------------------------------------------------
(* The invariant.                                                          *)

\* The devices of created groups are of agents that have a row.
Known(rows, t) ==
  \A p \in Pgs : t[p].state = "created" => \A d \in PgDevices(t[p]) : rows[d[1]] # "none"

\* What an actor's id, its process, its agent's link and its agent's row have to
\* do with each other: a spawn is in flight on a working link only, an agent
\* that registers reports every process it has, and an actor the daemon has no
\* row of may run only where the daemon has no row of the agent either.
AgentOK(a) ==
  /\ <<"spawn", a>> \in wire => spec[a].agent \in Agents /\ link[spec[a].agent] = "up"
  /\ HasRow(a) \/ proc[a] # "none" => spec[a].agent \in Agents
  /\ \A g \in Agents : a \in snap[g] => spec[a].agent = g
  /\ \A g \in Agents : spec[a].agent = g =>
       /\ link[g] = "dialing" /\ proc[a] # "none" => a \in snap[g]
       /\ agents[g] # "none" /\ ~HasRow(a) =>
            proc[a] = "none" /\ a \notin snap[g] /\ <<"spawn", a>> \notin wire

\* The devices the live groups and actors hold are theirs alone.
HeldOK == NoDouble(LiveIn(actors), pgs) /\ Known(agents, pgs)

AgentsOK == \A a \in Actors : AgentOK(a)

AllocInv == TypeInv /\ HeldOK /\ AgentsOK
----------------------------------------------------------------------------
(* The groups and the live actors.                                         *)

\* Placement keeps both.
LEMMA SafeHeld ==
  ASSUME NEW db, NEW live, NEW t, Known(db.agents, t), NEW u \in Safe(db, live, t)
  PROVE  u \in PgTable /\ NoDouble(live, u) /\ Known(db.agents, u)
<1>1. u \in PgTable /\ NoDouble(live, u) /\ \A p \in Pgs : u[p] \in Placed(AliveIn(db), t[p])
  BY DEF Safe, Later
<1>2. ASSUME NEW p \in Pgs, u[p].state = "created", NEW d \in PgDevices(u[p])
      PROVE  db.agents[d[1]] # "none"
  <2>1. CASE u[p] = t[p]
    BY <1>2, <2>1 DEF Known
  <2>2. CASE PgDevices(u[p]) \subseteq UNION {{g} \X AgentGpus[g] : g \in AliveIn(db)}
    <3>1. PICK g \in AliveIn(db) : d \in {g} \X AgentGpus[g]
      BY <1>2, <2>2
    <3>2. d[1] = g
      BY <3>1
    <3> QED BY <3>1, <3>2 DEF AliveIn
  <2> QED BY <1>1, <2>1, <2>2 DEF Placed
<1> QED BY <1>1, <1>2 DEF Known

\* try_place keeps both.
LEMMA TryPlaceHeld ==
  ASSUME NEW db, NEW live \in SUBSET LiveIn(db.actors), NEW t \in PgTable,
         NoDouble(live, t), Known(db.agents, t), NEW u \in try_place(db, t)
  PROVE  NoDouble(live, u) /\ Known(db.agents, u)
<1>1. u \in Safe(db, live, t)
  BY TryPlaceSafe
<1> QED BY <1>1, SafeHeld

\* The invariant of the next state, from facts about the primed tables.
LEMMA HeldNext ==
  ASSUME \A a \in LiveIn(actors') : spec'[a] = spec[a],
         NoDouble(LiveIn(actors'), pgs'), Known(agents', pgs')
  PROVE  HeldOK'
BY DEF HeldOK, NoDouble, Known, PgDevices, ActorDevices, LiveIn

\* A device of a group is an agent's.
LEMMA DeviceAgent ==
  ASSUME TypeInv, NEW p \in Pgs, NEW d, d \in PgDevices(pgs[p])
  PROVE  d[1] \in Agents
<1>1. PICK i \in DOMAIN pgs[p].asg : d \in {pgs[p].asg[i].agent} \X pgs[p].asg[i].gpus
  BY InPgDevices
<1>2. pgs[p].asg[i].agent \in Agents
  BY AssignmentType DEF Assignment
<1> QED BY <1>1, <1>2

\* A step after which no more actors are live and no more groups created.
LEMMA HeldStays ==
  ASSUME HeldOK, UNCHANGED spec, LiveIn(actors') \subseteq LiveIn(actors),
         \A p \in Pgs : pgs'[p].state = "created" => pgs'[p] = pgs[p],
         \A g \in Agents : agents[g] # "none" => agents'[g] # "none",
         TypeInv
  PROVE  HeldOK'
<1>1. \A p \in Pgs : \A d : d \in PgDevices(pgs[p]) => d[1] \in Agents
  BY DeviceAgent
<1>2. \A p \in Pgs : \A d : pgs[p].state = "created" /\ d \in PgDevices(pgs[p]) =>
        (agents[d[1]] # "none" => agents'[d[1]] # "none")
  BY <1>1
<1>3. LiveIn(actors') \in SUBSET LiveIn(actors) /\ NoDouble(LiveIn(actors), pgs) /\ Known(agents, pgs)
  BY DEF HeldOK
<1>4. NoDouble(LiveIn(actors'), pgs')
  BY <1>3, NoDoubleFewer
<1>5. Known(agents', pgs')
  BY <1>2, <1>3 DEF Known
<1> QED BY <1>4, <1>5, HeldNext

\* A step that leaves the groups and agents, and whose live actors hold nothing
\* of a group not theirs.
LEMMA HeldUnplaced ==
  ASSUME HeldOK, UNCHANGED <<pgs, agents>>,
         \A p \in Pgs : pgs[p].state = "created" => \A a \in LiveIn(actors') : spec'[a].pg # p =>
           PgDevices(pgs[p]) \cap ({spec'[a].agent} \X spec'[a].gpus) = {}
  PROVE  HeldOK'
<1>1. \A p \in Pgs : PgDevices(pgs[p])' = PgDevices(pgs[p])
  BY DEF PgDevices
<1>2. \A a : ActorDevices(a)' = {spec'[a].agent} \X spec'[a].gpus
  BY DEF ActorDevices
<1>3. LiveIn(actors)' = LiveIn(actors')
  BY DEF LiveIn
<1>4. NoDouble(LiveIn(actors), pgs)'
  BY <1>1, <1>2, <1>3 DEF HeldOK, NoDouble
<1>5. Known(agents, pgs)'
  BY <1>1 DEF HeldOK, Known
<1> QED BY <1>4, <1>5 DEF HeldOK

\* A handler that takes the groups to t, some actors to dead, and ends in
\* try_place.
LEMMA HeldThenPlace ==
  ASSUME HeldOK, UNCHANGED agents, \A a \in LiveIn(actors') : spec'[a] = spec[a],
         NEW t \in PgTable,
         \A p \in Pgs : t[p].state = "created" => t[p] = pgs[p],
         NEW db, db.agents = agents, db.actors = actors',
         LiveIn(actors') \subseteq LiveIn(actors), pgs' \in try_place(db, t)
  PROVE  HeldOK'
<1>1. NoDouble(LiveIn(actors'), t) /\ Known(agents, t)
  BY NoDoubleFewer DEF HeldOK, Known
<1>2. LiveIn(actors') \in SUBSET LiveIn(db.actors)
  OBVIOUS
<1>3. NoDouble(LiveIn(actors'), pgs') /\ Known(db.agents, pgs')
  BY <1>1, <1>2, TryPlaceHeld
<1> QED BY <1>3, HeldNext

----------------------------------------------------------------------------
(* Steps that neither make nor forget a row of an actor or an agent.       *)

\* The ids, the rows and the agents known stay; no more actors are live.
RowsStay ==
  /\ UNCHANGED spec
  /\ \A a \in Actors : (Live(a)' => Live(a)) /\ (HasRow(a)' <=> HasRow(a))
  /\ \A g \in Agents : agents'[g] = "none" <=> agents[g] = "none"

\* The links stay; no more spawns are in flight and no more processes exist.
ProcsStay ==
  /\ UNCHANGED <<link, snap>>
  /\ \A a \in Actors : /\ <<"spawn", a>> \in wire' => <<"spawn", a>> \in wire
                       /\ proc'[a] # "none" => proc[a] # "none"

\* A step that does both keeps what is said of the agents.
LEMMA AgentsStay ==
  ASSUME AgentsOK, RowsStay, ProcsStay
  PROVE  AgentsOK'
<1> SUFFICES ASSUME NEW a \in Actors PROVE AgentOK(a)'
  BY DEF AgentsOK
<1>1. AgentOK(a)
  BY DEF AgentsOK
<1>2. /\ UNCHANGED <<spec, link, snap>>
      /\ HasRow(a)' <=> HasRow(a)
      /\ \A g \in Agents : agents'[g] = "none" <=> agents[g] = "none"
      /\ <<"spawn", a>> \in wire' => <<"spawn", a>> \in wire
      /\ proc'[a] # "none" => proc[a] # "none"
  BY DEF RowsStay, ProcsStay
<1> QED BY <1>1, <1>2 DEF AgentOK

\* A step that leaves the rows and creates no group keeps what is held.
LEMMA HeldRowsStay ==
  ASSUME HeldOK, TypeInv, RowsStay,
         \A p \in Pgs : pgs'[p].state = "created" => pgs'[p] = pgs[p]
  PROVE  HeldOK'
<1>1. LiveIn(actors') \subseteq LiveIn(actors)
  BY DEF RowsStay, LiveIn, Live
<1> QED BY <1>1, HeldStays DEF RowsStay

\* So does one that ends in a try_place.
LEMMA HeldRowsPlace ==
  ASSUME HeldOK, RowsStay, UNCHANGED agents, NEW t \in PgTable,
         \A p \in Pgs : t[p].state = "created" => t[p] = pgs[p],
         NEW db, db.agents = agents, db.actors = actors', pgs' \in try_place(db, t)
  PROVE  HeldOK'
<1>1. LiveIn(actors') \subseteq LiveIn(actors)
  BY DEF RowsStay, LiveIn, Live
<1> QED BY <1>1, HeldThenPlace DEF RowsStay

\* The states of an actor's row after an update.
LEMMA RowStates ==
  ASSUME NEW r \in ActorRow
  PROVE  [r EXCEPT !.state = "dead"].state = "dead" /\ [r EXCEPT !.adopted = FALSE].state = r.state
BY DEF ActorRow

\* The tables try_place is given.
LEMMA DbFields ==
  ASSUME NEW rows, NEW order, NEW acts
  PROVE  DbOf(rows, order, acts).agents = rows /\ DbOf(rows, order, acts).actors = acts
BY DEF DbOf

\* The death of one actor.
LEMMA DeathHeld ==
  ASSUME TypeInv, HeldOK, NEW a \in Actors, mark_actor_dead(a), UNCHANGED <<spec, agents>>
  PROVE  RowsStay /\ HeldOK'
<1>1. actors \in [Actors -> ActorRow] /\ pgs \in PgTable
  BY DEF TypeInv, TypeOK
<1>2. actors' = actors \/ (Live(a) /\ actors' = [actors EXCEPT ![a].state = "dead"])
  BY DEF mark_actor_dead
<1>3. \A x \in Actors : actors'[x] = actors[x] \/ (Live(x) /\ actors'[x].state = "dead")
  <2>1. CASE actors' = actors
    BY <2>1
  <2>2. CASE Live(a) /\ actors' = [actors EXCEPT ![a].state = "dead"]
    <3>1. actors'[a] = [actors[a] EXCEPT !.state = "dead"] /\ \A x \in Actors \ {a} : actors'[x] = actors[x]
      BY <1>1, <2>2
    <3>2. actors'[a].state = "dead"
      BY <1>1, <3>1, RowStates
    <3> QED BY <2>2, <3>1, <3>2
  <2> QED BY <1>2, <2>1, <2>2
<1>4. RowsStay
  BY <1>3 DEF RowsStay, Live, HasRow
<1>5. CASE UNCHANGED pgs
  BY <1>4, <1>5, HeldRowsStay
<1>6. CASE pgs' \in try_place(DbOf(agents, older, actors'), pgs)
  <2> DEFINE db == DbOf(agents, older, actors')
  <2>1. db.agents = agents /\ db.actors = actors' /\ pgs' \in try_place(db, pgs)
    BY <1>6, DbFields
  <2> HIDE DEF db
  <2> QED BY <1>1, <1>4, <2>1, HeldRowsPlace
<1>7. UNCHANGED pgs \/ pgs' \in try_place(DbOf(agents, older, actors'), pgs)
  BY DEF mark_actor_dead
<1> QED BY <1>4, <1>5, <1>6, <1>7

\* A kill.
LEMMA KillHeld ==
  ASSUME TypeInv, HeldOK, NEW a \in Actors, kill_actor(a), UNCHANGED <<spec, agents>>
  PROVE  /\ RowsStay /\ HeldOK'
         /\ \A x \in Actors : <<"spawn", x>> \in wire' => <<"spawn", x>> \in wire
<1>1. CASE UNCHANGED <<actors, pgs>>
  <2>1. RowsStay
    BY <1>1 DEF RowsStay, Live, HasRow
  <2> QED BY <1>1, <2>1, HeldRowsStay DEF kill_actor, Send
<1>2. CASE mark_actor_dead(a) /\ UNCHANGED wire
  BY <1>2, DeathHeld
<1>3. wire' = wire \/ wire' = wire \cup {<<"kill", a>>}
  BY DEF kill_actor, Send
<1> QED BY <1>1, <1>2, <1>3 DEF kill_actor

\* The steps of a client's thread.
LEMMA ThreadHeld ==
  ASSUME TypeInv, HeldOK, NEW s \in Socks, ThreadStep(s)
  PROVE  RowsStay /\ ProcsStay /\ HeldOK'
<1>1. UNCHANGED <<spec, agents, link, snap, proc>>
  BY DEF ThreadStep, Hello, KillNext, Close, DropRow, reap_client, ArmReap,
         reap_client_resources, FinishReap, daemonVars, agentVars
<1>2. ASSUME NEW a \in Actors, KillNext(s, a) PROVE RowsStay /\ ProcsStay /\ HeldOK'
  <2>1. kill_actor(a)
    BY <1>2 DEF KillNext
  <2> QED BY <1>1, <2>1, KillHeld DEF ProcsStay
<1>3. CASE Hello(s) \/ Close(s) \/ DropRow(s) \/ reap_client(s) \/ ArmReap(s)
  <2>1. UNCHANGED <<pgs, wire>>
    BY <1>3 DEF Hello, Close, DropRow, reap_client, ArmReap, daemonVars
  <2>2. \A a \in Actors : actors'[a].state = actors[a].state
    <3>1. actors \in [Actors -> ActorRow]
      BY DEF TypeInv, TypeOK
    <3>2. CASE UNCHANGED actors
      BY <3>2
    <3>3. CASE actors' = [a \in Actors |-> IF spec[a].owner = thr[s].client
                                           THEN [actors[a] EXCEPT !.adopted = FALSE] ELSE actors[a]]
      BY <3>1, <3>3, RowStates
    <3> QED BY <1>3, <3>2, <3>3 DEF Hello, Close, DropRow, reap_client, ArmReap, daemonVars
  <2>3. RowsStay /\ ProcsStay
    BY <1>1, <2>1, <2>2 DEF RowsStay, ProcsStay, Live, HasRow
  <2> QED BY <2>1, <2>3, HeldRowsStay
<1>4. CASE reap_client_resources(s)
  <2>1. UNCHANGED <<actors, wire>>
    BY <1>4 DEF reap_client_resources
  <2>2. RowsStay /\ ProcsStay
    BY <1>1, <2>1 DEF RowsStay, ProcsStay, Live, HasRow
  <2>3. \A p \in Pgs : pgs'[p].state = "created" => pgs'[p] = pgs[p]
    <3>1. CASE UNCHANGED pgs
      BY <3>1
    <3>2. CASE pgs' = [p \in Pgs |-> IF pgs[p].owner = thr[s].client /\ Holds(pgs[p])
                                     THEN [pgs[p] EXCEPT !.state = "removed"] ELSE pgs[p]]
      <4> DEFINE gone == {p \in Pgs : pgs[p].owner = thr[s].client /\ Holds(pgs[p])}
      <4>1. pgs' = [p \in Pgs |-> IF p \in gone THEN [pgs[p] EXCEPT !.state = "removed"]
                                  ELSE pgs[p]]
        BY <3>2
      <4>2. gone \in SUBSET Pgs
        OBVIOUS
      <4> HIDE DEF gone
      <4> QED BY <4>1, <4>2, Removed
    <3> QED BY <1>4, <3>1, <3>2 DEF reap_client_resources
  <2> QED BY <2>2, <2>3, HeldRowsStay
<1>5. CASE FinishReap(s)
  <2>1. UNCHANGED <<actors, wire>> /\ pgs' \in try_place(Db, pgs)
    BY <1>5 DEF FinishReap
  <2>2. RowsStay /\ ProcsStay
    BY <1>1, <2>1 DEF RowsStay, ProcsStay, Live, HasRow
  <2>3. Db.agents = agents /\ Db.actors = actors'
    BY <2>1, DbFields DEF Db
  <2>4. pgs \in PgTable
    BY DEF TypeInv, TypeOK
  <2> QED BY <1>1, <2>1, <2>2, <2>3, <2>4, HeldRowsPlace
<1> QED BY <1>2, <1>3, <1>4, <1>5 DEF ThreadStep

\* What a client does, but for the creation of an actor.
LEMMA ClientHeld ==
  ASSUME TypeInv, HeldOK, NEW s \in Socks, ClientStep(s),
         ~\E a \in Actors, p \in Pgs : \E i \in DOMAIN pgs[p].asg : create_actor(s, a, p, i)
  PROVE  RowsStay /\ ProcsStay /\ HeldOK'
<1>1. ASSUME NEW a \in Actors, ActorKill(s, a) PROVE RowsStay /\ ProcsStay /\ HeldOK'
  <2>1. kill_actor(a) /\ UNCHANGED <<spec, agents, link, snap, proc>>
    BY <1>1 DEF ActorKill, agentVars
  <2> QED BY <2>1, KillHeld DEF ProcsStay
<1>2. ASSUME UNCHANGED <<spec, agents, link, snap, proc, actors, wire>>
      PROVE  RowsStay /\ ProcsStay
  BY <1>2 DEF RowsStay, ProcsStay, Live, HasRow
<1>3. ASSUME \/ \E c \in Clients, session \in ConnKinds : Connect(s, c, session)
             \/ HangUp(s)
             \/ \E scope \in {{group} : group \in Groups} \cup {Groups} : ActorStop(s, scope)
      PROVE  RowsStay /\ ProcsStay /\ HeldOK'
  <2>1. UNCHANGED <<spec, agents, link, snap, proc, actors, wire, pgs>>
    BY <1>3 DEF Connect, HangUp, ActorStop, daemonVars, agentVars
  <2> QED BY <1>2, <2>1, HeldRowsStay
<1>4. ASSUME \/ \E p \in Pgs, bundles \in BundleSpecs : PgCreate(s, p, bundles)
             \/ \E p \in Pgs : PgRemove(s, p)
      PROVE  RowsStay /\ ProcsStay /\ HeldOK'
  <2>1. UNCHANGED <<spec, agents, link, snap, proc, actors, wire>>
    BY <1>4 DEF PgCreate, PgRemove, agentVars
  <2>2. PICK t \in PgTable : /\ pgs' \in try_place(Db, t)
                             /\ \A q \in Pgs : t[q].state = "created" => t[q] = pgs[q]
    BY <1>4, PgCreateMoves, PgRemoveMoves DEF ChangesThenPlaces
  <2>3. Db.agents = agents /\ Db.actors = actors'
    BY <2>1, DbFields DEF Db
  <2> QED BY <1>2, <2>1, <2>2, <2>3, HeldRowsPlace
<1> QED BY <1>1, <1>3, <1>4 DEF ClientStep

----------------------------------------------------------------------------
(* The links and the processes.                                            *)

\* Links that break: a spawn in flight goes with its link, and a process stays.
LEMMA BreakAgents ==
  ASSUME TypeInv, AgentsOK, NEW G \in SUBSET Agents, Break(G), RowsStay, UNCHANGED snap,
         \A g \in G : link[g] = "up"
  PROVE  AgentsOK'
<1> SUFFICES ASSUME NEW a \in Actors PROVE AgentOK(a)'
  BY DEF AgentsOK
<1>1. AgentOK(a)
  BY DEF AgentsOK
<1>2. /\ UNCHANGED <<spec, snap>>
      /\ HasRow(a)' <=> HasRow(a)
      /\ \A g \in Agents : agents'[g] = "none" <=> agents[g] = "none"
  BY DEF RowsStay
<1>3. /\ \A g \in Agents : link'[g] = IF g \in G THEN "down" ELSE link[g]
      /\ proc'[a] # "none" => proc[a] # "none"
  BY DEF Break
<1>4. <<"spawn", a>> \in wire' => <<"spawn", a>> \in wire /\ spec[a].agent \notin G
  <2>1. <<"spawn", a>>[2] = a
    OBVIOUS
  <2> QED BY <2>1 DEF Break
<1> QED BY <1>1, <1>2, <1>3, <1>4 DEF AgentOK

\* The agents' own steps, but for the registration.
LEMMA AgentHeld ==
  ASSUME TypeInv, HeldOK, AgentsOK, NEW g \in Agents,
         Dial(g) \/ DialFails(g) \/ Cut(g) \/ Crash(g) \/ AgentEof(g)
  PROVE  HeldOK' /\ AgentsOK'
<1>1. UNCHANGED <<spec, actors, pgs>>
  BY DEF Dial, DialFails, Cut, Crash, AgentEof, daemonVars
<1>2. \A h \in Agents : agents'[h] = "none" <=> agents[h] = "none"
  BY DEF Dial, DialFails, Cut, Crash, AgentEof, daemonVars, TypeInv, TypeOK
<1>3. RowsStay
  BY <1>1, <1>2 DEF RowsStay, Live, HasRow
<1>4. HeldOK'
  BY <1>1, <1>3, HeldRowsStay
<1>5. CASE AgentEof(g)
  <2>1. ProcsStay
    BY <1>5 DEF AgentEof, agentVars, ProcsStay
  <2> QED BY <1>3, <1>4, <2>1, AgentsStay
<1>6. CASE Cut(g)
  <2>1. Break({g}) /\ UNCHANGED snap /\ link[g] = "up"
    BY <1>6 DEF Cut
  <2> QED BY <1>3, <1>4, <2>1, BreakAgents
<1>7. ASSUME Dial(g) \/ DialFails(g) \/ Crash(g), NEW a \in Actors PROVE AgentOK(a)'
  <2>1. AgentOK(a)
    BY DEF AgentsOK
  <2>2. link \in [Agents -> {"down", "dialing", "up"}] /\ snap \in [Agents -> SUBSET Actors]
    BY DEF TypeInv, TypeOK
  <2>3. UNCHANGED <<spec, agents>> /\ (HasRow(a)' <=> HasRow(a))
    BY <1>7 DEF Dial, DialFails, Crash, daemonVars, HasRow
  <2>4. CASE Dial(g)
    <3>1. /\ link[g] = "down" /\ link' = [link EXCEPT ![g] = "dialing"]
          /\ snap' = [snap EXCEPT ![g] = Running(g)]
          /\ UNCHANGED <<proc, wire>>
      BY <2>4 DEF Dial
    <3>2. a \in Running(g) <=> spec[a].agent = g /\ proc[a] # "none"
      BY DEF Running, HostedBy
    <3> HIDE DEF Running
    <3> QED BY <2>1, <2>2, <2>3, <3>1, <3>2 DEF AgentOK
  <2>5. CASE DialFails(g)
    <3>1. /\ link[g] = "dialing" /\ link' = [link EXCEPT ![g] = "down"]
          /\ snap' = [snap EXCEPT ![g] = {}]
          /\ UNCHANGED <<proc, wire>>
      BY <2>5 DEF DialFails
    <3> QED BY <2>1, <2>2, <2>3, <3>1 DEF AgentOK
  <2>6. CASE Crash(g)
    <3>1. /\ link' = [link EXCEPT ![g] = "down"]
          /\ snap' = [snap EXCEPT ![g] = {}]
          /\ proc'[a] = IF spec[a].agent = g THEN "none" ELSE proc[a]
      BY <2>6 DEF Crash
    <3>2. <<"spawn", a>> \in wire' => <<"spawn", a>> \in wire /\ spec[a].agent # g
      <4>1. <<"spawn", a>>[2] = a
        OBVIOUS
      <4> QED BY <2>6, <4>1 DEF Crash
    <3> QED BY <2>1, <2>2, <2>3, <3>1, <3>2 DEF AgentOK
  <2> QED BY <1>7, <2>4, <2>5, <2>6
<1> QED BY <1>4, <1>5, <1>6, <1>7 DEF AgentsOK

\* The steps of an actor's process, and its agent's reports of it.
LEMMA ActorHeld ==
  ASSUME TypeInv, HeldOK, AgentsOK, NEW a \in Actors, ActorStep(a)
  PROVE  HeldOK' /\ AgentsOK'
<1>1. ASSUME NEW kind \in {"exit", "fail"}, Report(kind, a) PROVE HeldOK' /\ AgentsOK'
  <2>1. mark_actor_dead(a) /\ UNCHANGED <<spec, agents, link, snap, proc>> /\ wire' \subseteq wire
    BY <1>1 DEF Report, agentVars
  <2>2. RowsStay /\ HeldOK'
    BY <2>1, DeathHeld
  <2>3. ProcsStay
    BY <2>1 DEF ProcsStay
  <2> QED BY <2>2, <2>3, AgentsStay
<1>2. ASSUME UNCHANGED <<spec, actors, agents, pgs>> PROVE RowsStay /\ HeldOK'
  <2>1. RowsStay
    BY <1>2 DEF RowsStay, Live, HasRow
  <2> QED BY <1>2, <2>1, HeldRowsStay
<1>3. CASE Fork(a) \/ SpawnFails(a) \/ CtorFails(a) \/ KillArrives(a) \/ Exits(a)
  <2>1. UNCHANGED <<spec, actors, agents, pgs, link, snap>>
    BY <1>3 DEF Fork, SpawnFails, CtorFails, KillArrives, Exits, daemonVars
  <2>2. \A x \in Actors : <<"spawn", x>> \in wire' => <<"spawn", x>> \in wire
    BY <1>3 DEF Fork, SpawnFails, CtorFails, KillArrives, Exits, send_daemon
  <2>3. \A x \in Actors : proc'[x] # "none" => proc[x] # "none"
    BY <1>3 DEF Fork, SpawnFails, CtorFails, KillArrives, Exits, TypeInv, TypeOK
  <2>4. ProcsStay
    BY <2>1, <2>2, <2>3 DEF ProcsStay
  <2> QED BY <1>2, <2>1, <2>4, AgentsStay
<1>4. CASE SpawnArrives(a)
  <2>1. /\ UNCHANGED <<spec, actors, agents, pgs, link, snap>>
        /\ <<"spawn", a>> \in wire
        /\ wire' = wire \ {<<"spawn", a>>}
        /\ proc' = [proc EXCEPT ![a] = "starting"]
    BY <1>4 DEF SpawnArrives, daemonVars
  <2>2. ASSUME NEW x \in Actors PROVE AgentOK(x)'
    <3>1. AgentOK(x) /\ (HasRow(x)' <=> HasRow(x))
      BY <2>1 DEF AgentsOK, HasRow
    <3>2. x # a => proc'[x] = proc[x]
      BY <2>1 DEF TypeInv, TypeOK
    <3>3. CASE x # a
      BY <2>1, <3>1, <3>2, <3>3 DEF AgentOK
    <3>4. CASE x = a
      BY <2>1, <3>1, <3>4 DEF AgentOK
    <3> QED BY <3>3, <3>4
  <2> QED BY <1>2, <2>1, <2>2 DEF AgentsOK
<1> QED BY <1>1, <1>3, <1>4 DEF ActorStep

----------------------------------------------------------------------------
(* The head, the timers, and the steps that make rows.                     *)

\* A head change: the actors it drops are dead, and the links are shut.
LEMMA HeadMovedHeld ==
  ASSUME TypeInv, HeldOK, AgentsOK, head_moved
  PROVE  HeldOK' /\ AgentsOK'
<1>1. UNCHANGED <<spec, agents, snap>>
  BY DEF head_moved
<1>2. CASE UNCHANGED <<actors, pgs, link, wire, proc>>
  <2>1. RowsStay /\ ProcsStay
    BY <1>1, <1>2 DEF RowsStay, ProcsStay, Live, HasRow
  <2> QED BY <1>2, <2>1, HeldRowsStay, AgentsStay
<1>3. CASE /\ actors' = [a \in Actors |-> IF Live(a) THEN [actors[a] EXCEPT !.state = "dead"]
                                          ELSE actors[a]]
           /\ pgs' = [p \in Pgs |-> IF Holds(pgs[p]) THEN [pgs[p] EXCEPT !.state = "removed"]
                                    ELSE pgs[p]]
           /\ Break({g \in Agents : link[g] = "up"})
  <2>1. \A a \in Actors : actors[a] \in ActorRow
    BY DEF TypeInv, TypeOK
  <2>2. \A a \in Actors : actors'[a] = actors[a] \/ (Live(a) /\ actors'[a].state = "dead")
    BY <1>3, <2>1, RowStates
  <2>3. RowsStay
    BY <1>1, <2>2 DEF RowsStay, Live, HasRow
  <2>4. \A p \in Pgs : pgs'[p].state = "created" => pgs'[p] = pgs[p]
    <3> DEFINE gone == {p \in Pgs : Holds(pgs[p])}
    <3>1. pgs' = [p \in Pgs |-> IF p \in gone THEN [pgs[p] EXCEPT !.state = "removed"] ELSE pgs[p]]
      BY <1>3
    <3>2. gone \in SUBSET Pgs
      OBVIOUS
    <3> HIDE DEF gone
    <3> QED BY <3>1, <3>2, Removed
  <2>5. AgentsOK'
    <3> DEFINE G == {g \in Agents : link[g] = "up"}
    <3>1. G \in SUBSET Agents /\ Break(G) /\ \A g \in G : link[g] = "up"
      BY <1>3
    <3> HIDE DEF G
    <3> QED BY <1>1, <2>3, <3>1, BreakAgents
  <2> QED BY <2>3, <2>4, <2>5, HeldRowsStay
<1> QED BY <1>2, <1>3 DEF head_moved

\* A restart: nothing is held, and every link is down.
LEMMA RestartHeld ==
  ASSUME TypeInv, HeldOK, AgentsOK, Restart
  PROVE  HeldOK' /\ AgentsOK'
<1>1. \A p \in Pgs : pgs'[p].state # "created"
  BY NoRows DEF Restart
<1>2. HeldOK'
  BY <1>1 DEF HeldOK, NoDouble, Known
<1>3. ASSUME NEW a \in Actors PROVE AgentOK(a)'
  <2>1. AgentOK(a)
    BY DEF AgentsOK
  <2>2. UNCHANGED spec /\ ~HasRow(a)'
    BY DEF Restart, HasRow, NoActor
  <2>3. \A g \in Agents : agents'[g] = "none" /\ snap'[g] = {} /\ link'[g] = "down"
    BY DEF Restart, Break, TypeInv, TypeOK
  <2>4. proc'[a] # "none" => proc[a] # "none"
    BY DEF Restart, Break
  <2>5. <<"spawn", a>> \notin wire'
    <3>1. <<"spawn", a>>[2] = a
      OBVIOUS
    <3>2. <<"spawn", a>> \in wire => spec[a].agent \in {g \in Agents : link[g] # "down"}
                                     /\ link[spec[a].agent] = "up"
      BY <2>1 DEF AgentOK
    <3> QED BY <3>1, <3>2 DEF Restart, Break
  <2> QED BY <2>1, <2>2, <2>3, <2>4, <2>5 DEF AgentOK
<1> QED BY <1>2, <1>3 DEF AgentsOK

\* A sweep that forgets no row.
LEMMA SweepHeld ==
  ASSUME TypeInv, HeldOK, AgentsOK, "sweep" \notin Faults, Sweep
  PROVE  HeldOK' /\ AgentsOK'
<1>1. PICK late, slow, dead : sweep_lifecycle(late, slow, dead, {}, {}, {}) /\ late \in SUBSET Pgs
  BY DEF Sweep, Aged
<1> DEFINE failed == [p \in Pgs |-> IF p \in late THEN [pgs[p] EXCEPT !.state = "removed"]
                                    ELSE pgs[p]]
           acts == [a \in Actors |-> IF Live(a) /\ spec[a].agent \in dead
                                     THEN [actors[a] EXCEPT !.state = "dead"] ELSE actors[a]]
           rows == [g \in Agents |-> IF g \in dead THEN "gone"
                                     ELSE IF g \in slow THEN "degraded" ELSE agents[g]]
           db == DbOf(rows, older, acts)
<1>2. PICK t \in IF acts = actors THEN {failed} ELSE try_place(db, failed) :
        pgs' = [p \in Pgs |-> IF p \in {} THEN [NoPg EXCEPT !.state = "swept"] ELSE t[p]]
  BY <1>1, Zenon DEF sweep_lifecycle
<1>3. /\ actors' = [a \in Actors |-> IF a \in {} THEN NoActor ELSE acts[a]]
      /\ agents' = [g \in Agents |-> IF g \in {} THEN "none" ELSE rows[g]]
      /\ UNCHANGED <<spec, link, snap, proc, wire>>
      /\ \A g \in dead : agents[g] \in {"lost", "degraded"}
      /\ \A g \in slow : agents[g] = "lost"
  BY <1>1, Zenon DEF sweep_lifecycle, agentVars
<1>4. \A a \in Actors : actors'[a] = actors[a] \/ (Live(a) /\ actors'[a].state = "dead")
  <2>1. \A a \in Actors : actors[a] \in ActorRow
    BY DEF TypeInv, TypeOK
  <2> QED BY <1>3, <2>1, RowStates
<1>5. agents' = rows /\ actors' = acts /\ \A g \in Agents : rows[g] = "none" <=> agents[g] = "none"
  BY <1>3
<1>6. RowsStay
  BY <1>3, <1>4, <1>5 DEF RowsStay, Live, HasRow
<1>7. ProcsStay
  BY <1>3 DEF ProcsStay
<1>8. failed \in PgTable /\ \A p \in Pgs : failed[p].state = "created" => failed[p] = pgs[p]
  BY <1>1, Removed
<1>9. db.agents = agents' /\ db.actors = actors'
  BY <1>5, DbFields
<1>10. t = failed \/ t \in try_place(db, failed)
  BY <1>2
<1>11. \A p \in Pgs : pgs'[p] = t[p]
  BY <1>2
<1> HIDE DEF failed, acts, rows, db
<1>12. CASE t = failed
  BY <1>6, <1>7, <1>8, <1>11, <1>12, HeldRowsStay, AgentsStay
<1>13. CASE t \in try_place(db, failed)
  <2> DEFINE live == LiveIn(actors')
  <2>1. live \subseteq LiveIn(actors)
    BY <1>6 DEF RowsStay, LiveIn, Live
  <2>2. NoDouble(live, failed)
    BY <1>8, <2>1, NoDoubleFewer DEF HeldOK
  <2>3. Known(db.agents, failed)
    <3>1. \A p \in Pgs : \A d \in PgDevices(pgs[p]) : d[1] \in Agents
      BY DeviceAgent
    <3> QED BY <1>5, <1>8, <1>9, <3>1 DEF HeldOK, Known
  <2>4. live \in SUBSET LiveIn(db.actors)
    BY <1>9
  <2> HIDE DEF live
  <2>5. NoDouble(live, t) /\ Known(db.agents, t)
    BY <1>8, <1>13, <2>2, <2>3, <2>4, TryPlaceHeld
  <2>6. NoDouble(live, pgs')
    BY <1>11, <2>5, NoDoubleFewer
  <2>7. Known(agents', pgs')
    BY <1>9, <1>11, <2>5 DEF Known
  <2>8. HeldOK'
    BY <1>3, <2>6, <2>7, HeldNext DEF live
  <2> QED BY <1>6, <1>7, <2>8, AgentsStay
<1> QED BY <1>10, <1>12, <1>13

\* The creation of an actor: it holds devices of its own group only.
LEMMA CreateHeld ==
  ASSUME TypeInv, HeldOK, AgentsOK, NEW s \in Socks, NEW a \in Actors, NEW p \in Pgs,
         NEW i \in DOMAIN pgs[p].asg, create_actor(s, a, p, i)
  PROVE  HeldOK' /\ AgentsOK'
<1> DEFINE b == pgs[p].asg[i]
           new == [owner |-> thr[s].client, agent |-> b.agent, gpus |-> b.gpus, pg |-> p]
           group == client_group(thr[s].client)
           row == [state |-> "live", group |-> group, adopted |-> FALSE]
           born == [actors EXCEPT ![a] = row]
           dead == [born EXCEPT ![a].state = "dead"]
<1>1. /\ spec[a] = NoSpec
      /\ pgs[p].state = "created"
      /\ agents[b.agent] = "alive"
      /\ spec' = [spec EXCEPT ![a] = new]
      /\ \/ /\ actors' = born
            /\ wire' = IF link[b.agent] = "up" THEN wire \cup {<<"spawn", a>>} ELSE wire
            /\ UNCHANGED pgs
         \/ /\ actors' = dead
            /\ pgs' \in try_place(DbOf(agents, older, dead), pgs)
            /\ UNCHANGED wire
      /\ UNCHANGED <<agents, link, snap, proc>>
  BY DEF create_actor, agentVars
<1>2. spec[a].agent = "none" /\ "none" \notin Agents
  BY <1>1, HeadAssumption DEF NoSpec
<1>3. b.agent \in Agents
  BY AssignmentType DEF Assignment
<1>4. new.agent = b.agent /\ new.gpus = b.gpus /\ new.pg = p
  OBVIOUS
<1>5. row.state = "live" /\ [row EXCEPT !.state = "dead"].state = "dead"
  OBVIOUS
<1> HIDE DEF new, row
<1>6. spec'[a] = new /\ \A x \in Actors \ {a} : spec'[x] = spec[x]
  BY <1>1 DEF TypeInv, TypeOK
<1>7. actors \in [Actors -> ActorRow] /\ pgs \in PgTable
  BY DEF TypeInv, TypeOK
<1>8. /\ born[a] = row /\ dead[a] = [row EXCEPT !.state = "dead"]
      /\ \A x \in Actors \ {a} : born[x] = actors[x] /\ dead[x] = actors[x]
  BY <1>7
<1>9. actors'[a].state \in {"live", "dead"} /\ \A x \in Actors \ {a} : actors'[x] = actors[x]
  BY <1>1, <1>5, <1>8
<1>10. ASSUME NEW x \in Actors PROVE AgentOK(x)'
  <2>1. AgentOK(x)
    BY DEF AgentsOK
  <2>2. CASE x # a
    <3>1. spec'[x] = spec[x] /\ (HasRow(x)' <=> HasRow(x))
      BY <1>6, <1>9, <2>2 DEF HasRow
    <3>2. <<"spawn", x>> \in wire' => <<"spawn", x>> \in wire
      BY <1>1, <2>2
    <3> QED BY <1>1, <2>1, <3>1, <3>2 DEF AgentOK
  <2>3. CASE x = a
    <3>1. proc[a] = "none" /\ <<"spawn", a>> \notin wire /\ \A g \in Agents : a \notin snap[g]
      BY <1>2, <2>1, <2>3 DEF AgentOK
    <3>2. HasRow(a)'
      BY <1>9 DEF HasRow
    <3>3. <<"spawn", a>> \in wire' => link[b.agent] = "up"
      BY <1>1, <3>1
    <3>4. spec'[a].agent = b.agent
      BY <1>4, <1>6
    <3>5. UNCHANGED <<agents, link, snap, proc>>
      BY <1>1
    <3> HIDE DEF b
    <3> QED BY <1>3, <2>3, <3>1, <3>2, <3>3, <3>4, <3>5 DEF AgentOK
  <2> QED BY <2>2, <2>3
<1>11. CASE actors' = dead /\ pgs' \in try_place(DbOf(agents, older, dead), pgs)
  <2>1. LiveIn(actors') \subseteq LiveIn(actors) \ {a}
    BY <1>5, <1>8, <1>11 DEF LiveIn
  <2>2. \A x \in LiveIn(actors') : spec'[x] = spec[x]
    BY <1>6, <2>1 DEF LiveIn
  <2> DEFINE db == DbOf(agents, older, dead)
  <2>3. db.agents = agents /\ db.actors = actors' /\ pgs' \in try_place(db, pgs)
    BY <1>11, DbFields
  <2>4. UNCHANGED agents /\ LiveIn(actors') \subseteq LiveIn(actors)
    BY <1>1, <2>1
  <2> HIDE DEF db, dead
  <2>5. HeldOK'
    BY <1>7, <2>2, <2>3, <2>4, HeldThenPlace
  <2> QED BY <1>10, <2>5 DEF AgentsOK
<1>12. CASE UNCHANGED pgs
  <2>1. NoDouble(LiveIn(actors), pgs) /\ Known(agents, pgs)
    BY DEF HeldOK
  <2>2. ASSUME NEW q \in Pgs, pgs[q].state = "created", NEW x \in LiveIn(actors'), spec'[x].pg # q
        PROVE  PgDevices(pgs[q]) \cap ({spec'[x].agent} \X spec'[x].gpus) = {}
    <3>1. CASE x # a
      <4>1. x \in LiveIn(actors) /\ spec'[x] = spec[x]
        BY <1>6, <1>9, <2>2, <3>1 DEF LiveIn
      <4> QED BY <2>1, <2>2, <4>1 DEF NoDouble, ActorDevices
    <3>2. CASE x = a
      <4>1. q # p
        BY <1>4, <1>6, <2>2, <3>2
      <4>2. PgDevices(pgs[q]) \cap PgDevices(pgs[p]) = {}
        BY <1>1, <2>1, <2>2, <4>1 DEF NoDouble
      <4>3. {b.agent} \X b.gpus \subseteq PgDevices(pgs[p])
        BY DEF PgDevices
      <4>4. spec'[x].agent = b.agent /\ spec'[x].gpus = b.gpus
        BY <1>4, <1>6, <3>2
      <4> HIDE DEF b
      <4> QED BY <4>2, <4>3, <4>4
    <3> QED BY <3>1, <3>2
  <2>3. HeldOK'
    BY <1>1, <1>12, <2>2, HeldUnplaced
  <2> QED BY <1>10, <2>3 DEF AgentsOK
<1> QED BY <1>1, <1>11, <1>12

\* A registration: the daemon adopts actors only from an agent it had no row
\* of, so no group holds a device of that agent.
LEMMA RegisterHeld ==
  ASSUME TypeInv, HeldOK, AgentsOK, NEW g \in Agents, Register(g)
  PROVE  HeldOK' /\ AgentsOK'
<1> DEFINE adopted == [a \in Actors |-> IF a \in Unknown(g)
                                        THEN [state |-> "live", group |-> AgentGroup[g],
                                              adopted |-> TRUE]
                                        ELSE actors[a]]
           acts  == [a \in Actors |-> IF a \in Missing(g)
                                      THEN [actors[a] EXCEPT !.state = "dead"] ELSE adopted[a]]
           rows  == [agents EXCEPT ![g] = "alive"]
           order == {gh \in older : g \notin {gh[1], gh[2]}}
                    \cup {<<h, g>> : h \in {h \in Agents \ {g} : agents[h] # "none"}}
           db    == DbOf(rows, order, adopted)
           db2   == DbOf(rows, order, acts)
           live  == LiveIn(actors')
<1>1. PICK o, t : /\ o \in Orders(Missing(g))
                  /\ t \in MarkAllDead(db, o, pgs)
                  /\ pgs' \in try_place(db2, t)
  BY DEF Register
<1>2. /\ link[g] = "dialing"
      /\ agents' = rows
      /\ actors' = acts
      /\ link' = [link EXCEPT ![g] = "up"]
      /\ snap' = [snap EXCEPT ![g] = {}]
      /\ wire' = wire \cup {<<"kill", a>> : a \in Unwanted(g)}
      /\ UNCHANGED <<spec, proc>>
  BY Zenon DEF Register
<1>3. IsDb(db) /\ db.agents = rows /\ db.actors = adopted /\ db2.agents = rows /\ db2.actors = acts
  BY DEF IsDb, DbOf
<1>4. o \in Seq(Missing(g))
  <2>1. IsFiniteSet(Missing(g))
    BY FS_Subset, HeadAssumption DEF Missing, HostedBy
  <2> QED BY <1>1, <2>1, OrdersAreSeqs
<1>5. rows[g] = "alive" /\ \A h \in Agents \ {g} : rows[h] = agents[h]
  BY DEF TypeInv, TypeOK
<1>6. \A a \in Unknown(g) : a \in Actors /\ ~HasRow(a) /\ a \in snap[g]
  BY DEF Unknown, TypeInv, TypeOK
<1>7. \A a \in Missing(g) : a \in Actors /\ Live(a)
  BY DEF Missing, HostedBy
<1>8. \A a \in Actors : /\ a \in Missing(g) => acts[a].state = "dead"
                        /\ a \in Unknown(g) => acts[a] = adopted[a] /\ acts[a].state = "live"
                        /\ a \notin Missing(g) \cup Unknown(g) => acts[a] = adopted[a] /\ acts[a] = actors[a]
  <2>1. \A a \in Actors : actors[a] \in ActorRow
    BY DEF TypeInv, TypeOK
  <2>2. \A a \in Unknown(g) : a \notin Missing(g)
    BY <1>6, <1>7 DEF Live, HasRow
  <2>3. \A a \in Missing(g) : acts[a] = [actors[a] EXCEPT !.state = "dead"]
    BY <1>7
  <2>4. \A a \in Missing(g) : acts[a].state = "dead"
    BY <1>7, <2>1, <2>3, RowStates
  <2> QED BY <2>2, <2>4
<1> HIDE DEF adopted, acts, rows, db, db2
<1>9. live \in SUBSET (LiveIn(db.actors) \ Missing(g)) /\ live \in SUBSET LiveIn(db2.actors)
  BY <1>2, <1>3, <1>8 DEF LiveIn
<1>10. \A a \in live : a \in LiveIn(actors) \/ a \in Unknown(g)
  BY <1>2, <1>8 DEF LiveIn
<1>11. NoDouble(LiveIn(actors), pgs) /\ Known(agents, pgs) /\ pgs \in PgTable
  BY DEF HeldOK, TypeInv, TypeOK
<1>12. ASSUME NEW p \in Pgs, pgs[p].state = "created", NEW a \in Unknown(g)
       PROVE  PgDevices(pgs[p]) \cap ActorDevices(a) = {}
  <2>1. AgentOK(a) /\ ~HasRow(a) /\ a \in snap[g]
    BY <1>6 DEF AgentsOK
  <2>2. spec[a].agent = g /\ agents[g] = "none"
    BY <2>1 DEF AgentOK
  <2>3. \A d \in PgDevices(pgs[p]) : d[1] # g
    BY <1>11, <1>12, <2>2 DEF Known
  <2>4. \A d \in ActorDevices(a) : d[1] = g
    BY <2>2 DEF ActorDevices
  <2> QED BY <2>3, <2>4
<1>13. NoDouble(live, pgs)
  BY <1>10, <1>11, <1>12 DEF NoDouble
<1>14. Known(db.agents, pgs)
  <2>1. \A p \in Pgs : \A d \in PgDevices(pgs[p]) : d[1] \in Agents
    BY DeviceAgent
  <2> QED BY <1>3, <1>5, <1>11, <2>1 DEF Known
<1> HIDE DEF live
<1>15. t \in Safe(db, live, pgs)
  BY <1>1, <1>3, <1>4, <1>9, <1>11, <1>13, MarkAllDeadSafe
<1>16. t \in PgTable /\ NoDouble(live, t) /\ Known(db2.agents, t)
  BY <1>3, <1>14, <1>15, SafeHeld
<1>17. NoDouble(live, pgs') /\ Known(db2.agents, pgs')
  BY <1>1, <1>9, <1>16, TryPlaceHeld
<1>18. HeldOK'
  BY <1>2, <1>3, <1>17, HeldNext DEF live
<1>19. ASSUME NEW a \in Actors PROVE AgentOK(a)'
  <2>1. AgentOK(a)
    BY DEF AgentsOK
  <2>2. <<"spawn", a>> \in wire' => <<"spawn", a>> \in wire
    BY <1>2
  <2>3. link'[g] = "up" /\ snap'[g] = {}
        /\ \A h \in Agents \ {g} : link'[h] = link[h] /\ snap'[h] = snap[h] /\ agents'[h] = agents[h]
    BY <1>2, <1>5 DEF TypeInv, TypeOK
  <2>4. HasRow(a) => HasRow(a)'
    BY <1>2, <1>6, <1>8 DEF HasRow
  <2>5. ~HasRow(a) /\ a \in snap[g] => HasRow(a)'
    BY <1>2, <1>8 DEF HasRow, Unknown
  <2>6. HasRow(a)' => HasRow(a) \/ a \in snap[g]
    BY <1>2, <1>6, <1>7, <1>8 DEF HasRow, Live
  <2>7. UNCHANGED <<spec, proc>> /\ link[g] = "dialing"
    BY <1>2
  <2>8. CASE spec[a].agent = g
    BY <2>1, <2>2, <2>3, <2>4, <2>5, <2>7, <2>8 DEF AgentOK
  <2>9. CASE spec[a].agent # g
    <3>1. a \notin snap[g]
      BY <2>1, <2>9 DEF AgentOK
    <3> QED BY <2>1, <2>2, <2>3, <2>4, <2>6, <2>7, <2>9, <3>1 DEF AgentOK
  <2> QED BY <2>8, <2>9
<1> QED BY <1>18, <1>19 DEF AgentsOK

----------------------------------------------------------------------------
(* The theorem.                                                            *)

\* Initially nothing is held and nothing runs.
LEMMA AllocInit == Init => AllocInv
<1> SUFFICES ASSUME Init PROVE AllocInv
  OBVIOUS
<1>1. TypeInv
  BY TypeInit
<1>2. \A p \in Pgs : pgs[p].state # "created"
  BY NoRows DEF Init
<1>3. HeldOK
  BY <1>2 DEF HeldOK, NoDouble, Known
<1>4. \A a \in Actors : ~HasRow(a) /\ proc[a] = "none"
  BY DEF Init, HasRow, NoActor
<1>5. wire = {} /\ \A g \in Agents : snap[g] = {} /\ agents[g] = "none"
  BY DEF Init
<1>6. AgentsOK
  BY <1>4, <1>5 DEF AgentsOK, AgentOK
<1> QED BY <1>1, <1>3, <1>6 DEF AllocInv

\* Every step keeps the invariant, where no history sweep forgets rows.
LEMMA AllocStep ==
  ASSUME "sweep" \notin Faults, AllocInv, [Next]_vars
  PROVE  AllocInv'
<1>1. TypeInv /\ HeldOK /\ AgentsOK
  BY DEF AllocInv
<1>2. TypeInv'
  BY <1>1, TypeStep
<1>3. ASSUME NEW s \in Socks, ThreadStep(s) PROVE HeldOK' /\ AgentsOK'
  BY <1>1, <1>3, ThreadHeld, AgentsStay
<1>4. ASSUME NEW s \in Socks, ClientStep(s) PROVE HeldOK' /\ AgentsOK'
  <2>1. CASE \E a \in Actors, p \in Pgs : \E i \in DOMAIN pgs[p].asg : create_actor(s, a, p, i)
    BY <1>1, <2>1, CreateHeld
  <2>2. CASE ~\E a \in Actors, p \in Pgs : \E i \in DOMAIN pgs[p].asg : create_actor(s, a, p, i)
    BY <1>1, <1>4, <2>2, ClientHeld, AgentsStay
  <2> QED BY <2>1, <2>2
<1>5. ASSUME NEW g \in Agents, AgentStep(g) PROVE HeldOK' /\ AgentsOK'
  BY <1>1, <1>5, AgentHeld, RegisterHeld DEF AgentStep
<1>6. ASSUME NEW a \in Actors, ActorStep(a) PROVE HeldOK' /\ AgentsOK'
  BY <1>1, <1>6, ActorHeld
<1>7. ASSUME BecomeHead \/ UNCHANGED vars PROVE HeldOK' /\ AgentsOK'
  <2>1. UNCHANGED <<agents, actors, pgs, spec, link, snap, proc, wire>>
    BY <1>7 DEF BecomeHead, agentVars, vars
  <2>2. RowsStay /\ ProcsStay
    BY <2>1 DEF RowsStay, ProcsStay, Live, HasRow
  <2>3. \A p \in Pgs : pgs'[p].state = "created" => pgs'[p] = pgs[p]
    BY <2>1
  <2>4. HeldOK'
    BY <1>1, <2>2, <2>3, HeldRowsStay
  <2>5. AgentsOK'
    BY <1>1, <2>2, AgentsStay
  <2> QED BY <2>4, <2>5
<1>8. Sweep \/ head_moved \/ Restart => HeldOK' /\ AgentsOK'
  BY <1>1, SweepHeld, HeadMovedHeld, RestartHeld
<1>9. HeldOK' /\ AgentsOK'
  BY <1>3, <1>4, <1>5, <1>6, <1>7, <1>8 DEF Next
<1> QED BY <1>2, <1>9 DEF AllocInv

\* The daemon hands out no device twice: where rows are not forgotten by the
\* history sweep, NoDoubleAlloc holds of every cluster, whatever links are cut,
\* agents crash, the head moves or the daemon restarts.
THEOREM NoDeviceTwice ==
  ASSUME "sweep" \notin Faults
  PROVE  Spec => []NoDoubleAlloc
<1>1. AllocInv /\ [Next]_vars => AllocInv'
  BY AllocStep
<1>2. AllocInv => NoDoubleAlloc
  BY DEF AllocInv, HeldOK, NoDouble, NoDoubleAlloc, LiveIn, Live
<1> QED BY AllocInit, <1>1, <1>2, PTL DEF Spec
=============================================================================
