-------------------------------- MODULE Head --------------------------------
(***************************************************************************)
(* The daemon that is head of the cluster: driver sessions and their reap, *)
(* agents and their re-registration, actors, placement groups and the      *)
(* devices they hold (rust/mentatd/src/daemon.rs, state.rs), with as much  *)
(* of the agents' side of the link (agent.rs) as the daemon's tables       *)
(* depend on: which actor processes exist and what is in flight.           *)
(*                                                                         *)
(* The daemon keeps its tables behind one mutex, one thread per            *)
(* connection.  An action is one critical section: a handler that releases *)
(* the mutex and takes it again is as many actions as it has critical      *)
(* sections, with the thread's place between them in `thr`.                *)
(*                                                                         *)
(* Left out, and modelled elsewhere or not at all (see README.md): calls   *)
(* and their refs, claims, fabric islands, the event stream.  The cluster  *)
(* modelled has no tagged fabric, so placement has one scope: every agent  *)
(* of the group.  Times are left out: a timer may fire at any moment after *)
(* it is set, which is every choice of the MENTAT_*_MS knobs.              *)
(***************************************************************************)
EXTENDS Placement, Sequences

CONSTANTS
  Clients,      \* client ids: one per driver or CLI process
  Socks,        \* connection threads the daemon can have at once
  Agents,       \* agent ids
  Actors,       \* actor ids, minted at most once each
  Pgs,          \* placement group ids, minted at most once each
  Groups,       \* group names
  DefaultGroup, \* the group of a client without a row
  ClientGroup,  \* the group each client's hello names
  ClientNode,   \* the node each client connects from
  NoNode,       \* the driver node of an owner without a row
  AgentGroup,   \* the group each agent registers under
  AgentNode,    \* the node each agent is on
  AgentGpus,    \* the devices each agent reports
  ActorName,    \* the name each actor is created under
  BundleSpecs,  \* the bundle lists drivers ask for
  ConnKinds,    \* the hellos' session flags in this instance
  Grace,        \* MENTAT_SESSION_REAP_GRACE_MS > 0
  MaxReap,      \* bound: reap tokens handed out
  Faults        \* the failures of this instance, a subset of FaultKinds

\* What may go wrong besides a driver or an actor process ending:
\* cut        an agent link breaks
\* crash      an agent's container dies
\* spawn      an actor process cannot be started
\* ctor       an actor's constructor raises
\* halfopen   a client redials before the daemon has seen its old socket end
\* restart    the daemon dies and comes back with empty tables
\* flap       the head moves away and back
\* sweep      rows older than MENTAT_HISTORY_KEEP_MS are dropped
FaultKinds == {"cut", "crash", "spawn", "ctor", "halfopen", "restart", "flap", "sweep"}

ASSUME HeadAssumption ==
  /\ Faults \subseteq FaultKinds
  /\ "none" \notin Clients \cup Agents \cup Pgs
  /\ IsFiniteSet(Pgs) /\ IsFiniteSet(Actors)
  /\ Grace \in BOOLEAN
  /\ ConnKinds \subseteq BOOLEAN
  /\ MaxReap \in Nat
  /\ DefaultGroup \in Groups
  /\ ClientGroup \in [Clients -> Groups]
  /\ AgentGroup \in [Agents -> Groups]
  /\ AgentGpus \in [Agents -> SUBSET Nat]
  /\ BundleSpecs \subseteq Seq(Nat)

VARIABLES
  isHead,      \* head_node_id = node_id
  clients,     \* client id -> "none" (no row), "conn" or "session" (has_session)
  reapPending, \* client id -> token of the pending reap, 0 for none
  nextReap,    \* next_reap
  agents,      \* agent id -> "none" (no row), "alive", "lost" (lost_at set),
               \* "degraded" (lost_at set, warned) or "gone" (given up)
  older,       \* the order of the rows' seq: <<g, h>> when g registered before h
  actors,      \* actor id -> [state, group]
  pgs,         \* placement group id -> [state, owner, group, bundles, asg]
  thr,         \* connection threads, and the reap timers they leave behind
  spec,        \* what an actor id was minted with: owner, agent, devices, group
  link,        \* agent's end of its link: "down", "dialing" or "up"
  snap,        \* the resume list of the registration an agent has sent
  proc,        \* the agent's entry for an actor
  doomed,      \* actor processes that are ending: sent a SIGKILL, or out of a
               \* constructor that raised
  wire         \* frames in flight on the agent links, and unsent reports

daemonVars == <<isHead, clients, reapPending, nextReap, agents, older, actors, pgs>>
agentVars  == <<link, snap, proc, doomed>>
vars == <<isHead, clients, reapPending, nextReap, agents, older, actors, pgs,
          thr, spec, link, snap, proc, doomed, wire>>

----------------------------------------------------------------------------
(* Tables.  An actor is "live" while Spawning or Running: no branch of the *)
(* daemon tells the two apart.  `adopted` is a history flag: the daemon    *)
(* took the actor from a resume list and its owner has not said hello      *)
(* since.  A group id whose row has gone is "swept": ids are random and    *)
(* never come back.                                                        *)

NoActor == [state |-> "none", group |-> DefaultGroup, adopted |-> FALSE]
NoPg    == [state |-> "none", owner |-> "none", group |-> DefaultGroup,
            bundles |-> <<>>, asg |-> <<>>]
NoSpec  == [owner |-> "none", agent |-> "none", gpus |-> {}, pg |-> "none"]
Idle    == [pc |-> "idle", client |-> "none", session |-> FALSE, open |-> FALSE,
            moved |-> FALSE, token |-> 0, todo |-> {}]

Live(a)      == actors[a].state = "live"
HasRow(a)    == actors[a].state # "none"
Dead(a)      == actors[a].state = "dead"
Holds(row)   == row.state \in {"pending", "created"}
OwnedBy(c)   == {a \in Actors : spec[a].owner = c}
HostedBy(g)  == {a \in Actors : spec[a].agent = g}
Running(g)   == {a \in HostedBy(g) : proc[a] # "none"}

\* A device is an agent and one of its GPUs.
PgDevices(row) ==
  UNION {{row.asg[i].agent} \X row.asg[i].gpus : i \in DOMAIN row.asg}
ActorDevices(a) == {spec[a].agent} \X spec[a].gpus

\* The tables try_place reads, as a handler has left them so far.
DbOf(rows, order, acts) ==
  [clients |-> clients, agents |-> rows, older |-> order, actors |-> acts]
Db == DbOf(agents, older, actors)

client_group(c) == IF clients[c] = "none" THEN DefaultGroup ELSE ClientGroup[c]

----------------------------------------------------------------------------
(* Placement.                                                              *)

\* Mutants of free_gpus_of: live actors, or live groups, are not subtracted.
FreeOfGroups(db, t, g) ==
  {x \in AgentGpus[g] : \A p \in Pgs : Holds(t[p]) => <<g, x>> \notin PgDevices(t[p])}
FreeOfActors(db, t, g) ==
  {x \in AgentGpus[g] :
     \A a \in Actors : db.actors[a].state = "live" => <<g, x>> \notin ActorDevices(a)}

\* t is the placement group table so far.
free_gpus_of(db, t, g) ==
  {x \in AgentGpus[g] :
     /\ \A p \in Pgs : Holds(t[p]) => <<g, x>> \notin PgDevices(t[p])
     /\ \A a \in Actors : db.actors[a].state = "live" => <<g, x>> \notin ActorDevices(a)}

\* candidates.sort(): the driver's node first, then registration order.
Before(db, node) ==
  {gh \in Agents \X Agents :
     LET near(x) == AgentNode[x] = node
     IN  \/ near(gh[1]) /\ ~near(gh[2])
         \/ near(gh[1]) = near(gh[2]) /\ gh \in db.older}

\* Mutant of PlaceOne: the state is set, the assignment is not.
PlaceOneForgets(db, p, t) ==
  IF \A g \in Agents : db.agents[g] # "alive" THEN t ELSE [t EXCEPT ![p].state = "created"]

\* One pending group of try_place's loop: placed whole, or left as it was.
PlaceOne(db, p, t) ==
  LET cand == {g \in Agents : db.agents[g] = "alive" /\ AgentGroup[g] = t[p].group}
      node == IF db.clients[t[p].owner] = "none" THEN NoNode ELSE ClientNode[t[p].owner]
      free == [g \in Agents |-> free_gpus_of(db, t, g)]
      fits == Fits(cand, Before(db, node), free, t[p].bundles)
  IN  IF fits = {} THEN t
      ELSE [t EXCEPT ![p] = [@ EXCEPT !.state = "created",
                                      !.asg = CHOOSE asg \in fits : TRUE]]

\* The orders a HashMap may yield the elements of S in.
Orders(S) ==
  {o \in [1 .. Cardinality(S) -> S] : \A i, j \in DOMAIN o : i # j => o[i] # o[j]}

PlaceAll(db, order, t) ==
  LET after[i \in 0 .. Len(order)] ==
        IF i = 0 THEN t ELSE PlaceOne(db, order[i], after[i - 1])
  IN  after[Len(order)]

\* try_place: the tables it may leave.
try_place(db, t) ==
  {PlaceAll(db, order, t) : order \in Orders({p \in Pgs : t[p].state = "pending"})}

\* mark_actor_dead for each actor of order, from placement group table t: each
\* death is followed by a try_place.
MarkAllDead(db, order, t) ==
  LET deadUpTo(i) == {order[j] : j \in 1 .. i}
      dbAfter(i)  == [db EXCEPT !.actors =
                        [a \in Actors |-> IF a \in deadUpTo(i)
                                          THEN [@[a] EXCEPT !.state = "dead"] ELSE @[a]]]
      tables[i \in 0 .. Len(order)] ==
        IF i = 0 THEN {t} ELSE UNION {try_place(dbAfter(i), u) : u \in tables[i - 1]}
  IN  tables[Len(order)]

----------------------------------------------------------------------------
(* What several handlers do.                                               *)

\* Mutant of mark_actor_dead: no try_place at its end.
MarkDeadOnly(a) ==
  /\ actors' = IF Live(a) THEN [actors EXCEPT ![a].state = "dead"] ELSE actors
  /\ UNCHANGED pgs

\* An actor already dead is left alone; for an id without a row only the
\* trailing try_place remains.
mark_actor_dead(a) ==
  IF Dead(a) THEN UNCHANGED <<actors, pgs>>
  ELSE LET acts == IF Live(a) THEN [actors EXCEPT ![a].state = "dead"] ELSE actors
       IN  /\ actors' = acts
           /\ pgs' \in try_place(DbOf(agents, older, acts), pgs)

\* A frame to an agent whose link has broken unnoticed is lost.
Send(kind, a) ==
  wire' = IF link[spec[a].agent] = "up" THEN wire \cup {<<kind, a>>} ELSE wire

\* Mutant of kill_actor: the row is dead at once, and no frame is sent.
KillRowOnly(a) == mark_actor_dead(a) /\ UNCHANGED wire

\* The death of an actor on a connected agent is recorded when its exit is
\* reported, of an actor on a lost one at once.
kill_actor(a) ==
  \/ /\ ~Live(a)
     /\ UNCHANGED <<actors, pgs, wire>>
  \/ /\ Live(a)
     /\ agents[spec[a].agent] = "alive"
     /\ Send("kill", a)
     /\ UNCHANGED <<actors, pgs>>
  \/ /\ Live(a)
     /\ agents[spec[a].agent] # "alive"
     /\ mark_actor_dead(a)
     /\ UNCHANGED wire

\* The live actors a new session of client c replaces.
orphans_of(c) ==
  {a \in Actors :
     /\ Live(a)
     /\ actors[a].group = ClientGroup[c]
     /\ spec[a].owner # c
     /\ clients[spec[a].owner] # "session"
     /\ reapPending[spec[a].owner] = 0}

\* The links of the agents in G break: what is in flight is lost (an agent's
\* unsent reports are not), and a spawn thread is left with the writer of a
\* link that is gone.
Break(G) ==
  /\ link' = [g \in Agents |-> IF g \in G THEN "down" ELSE link[g]]
  /\ wire' = {m \in wire : ~(spec[m[2]].agent \in G /\ link[spec[m[2]].agent] = "up")}
  /\ proc' = [a \in Actors |-> IF spec[a].agent \in G /\ proc[a] = "starting"
                               THEN "stale" ELSE proc[a]]

Goto(s, pc) == thr' = [thr EXCEPT ![s].pc = pc]

----------------------------------------------------------------------------
(* Client connections: client_conn and the messages it reads.              *)

\* The threads of client c that have a session the daemon has not dropped yet.
Sessions(c) ==
  {s \in Socks : /\ thr[s].client = c /\ thr[s].session
                 /\ thr[s].pc \in {"hello", "kill", "read", "reap", "drop"}}

\* A client connects and head_for finds this daemon to be the head.  A driver
\* opens a session only when it has none open (the shim's ensure_session); the
\* daemon may still be to notice that the old one has ended.
Connect(s, c, session) ==
  /\ isHead
  /\ thr[s].pc = "idle"
  /\ session =>
       /\ \A u \in Sessions(c) : ~thr[u].open
       /\ "halfopen" \in Faults \/ Sessions(c) = {}
       /\ nextReap + Cardinality({u \in Socks : thr[u].session /\
            thr[u].pc \notin {"idle", "timer", "kills", "final"}}) <= MaxReap
  /\ thr' = [thr EXCEPT ![s] = [Idle EXCEPT !.pc = "hello", !.client = c,
                                            !.session = session, !.open = TRUE]]
  /\ UNCHANGED <<daemonVars, agentVars, spec, wire>>

\* Mutant of GroupTaken: has_session is not looked at the right way round.
GroupTakenByCli(c) ==
  \E d \in Clients \ {c} : ClientGroup[d] = ClientGroup[c] /\ clients[d] = "conn"

\* Another driver's session holds the group of client c.
GroupTaken(c) ==
  \E d \in Clients \ {c} : ClientGroup[d] = ClientGroup[c] /\ clients[d] = "session"

\* Hello, one critical section.  The head may have moved since head_for.
Hello(s) ==
  LET c       == thr[s].client
      dup     == GroupTaken(c)
      orphans == IF thr[s].session THEN orphans_of(c) ELSE {}
  IN  /\ thr[s].pc = "hello"
      /\ \/ /\ thr[s].session /\ dup
            /\ thr' = [thr EXCEPT ![s] = Idle]
            /\ UNCHANGED <<clients, actors>>
         \/ /\ ~(thr[s].session /\ dup)
            /\ clients' = [clients EXCEPT ![c] =
                 IF thr[s].session \/ @ = "session" THEN "session" ELSE "conn"]
            /\ actors' = [a \in Actors |-> IF spec[a].owner = c
                                           THEN [actors[a] EXCEPT !.adopted = FALSE] ELSE actors[a]]
            /\ thr' = [thr EXCEPT ![s] = [@ EXCEPT !.pc = IF orphans = {} THEN "read" ELSE "kill",
                                                   !.todo = orphans]]
      /\ UNCHANGED <<isHead, reapPending, nextReap, agents, older, pgs,
                     agentVars, spec, wire>>

\* One kill_actor of a loop over ids collected earlier: the orphans of a new
\* session, an actor_stop, or a reap.
KillNext(s, a) ==
  /\ thr[s].pc \in {"kill", "kills"}
  /\ a \in thr[s].todo
  /\ kill_actor(a)
  /\ LET left == thr[s].todo \ {a}
         next == IF thr[s].pc = "kill" THEN "read" ELSE "final"
     IN  thr' = [thr EXCEPT ![s] = [@ EXCEPT !.todo = left,
                                             !.pc = IF left = {} THEN next ELSE thr[s].pc]]
  /\ UNCHANGED <<isHead, clients, reapPending, nextReap, agents, older, agentVars, spec>>

\* The client's end goes: the process ends, closes the socket, or is cut off.
HangUp(s) ==
  /\ thr[s].pc \in {"hello", "kill", "read"}
  /\ thr[s].open
  /\ thr' = [thr EXCEPT ![s].open = FALSE]
  /\ UNCHANGED <<daemonVars, agentVars, spec, wire>>

\* The reader sees the end of the stream and leaves its loop: first critical
\* section, which decides whether the head has moved.
Close(s) ==
  /\ thr[s].pc = "read"
  /\ ~thr[s].open
  /\ thr' = [thr EXCEPT ![s] =
               [@ EXCEPT !.moved = ~isHead,
                         !.pc = IF thr[s].session /\ isHead THEN "reap" ELSE "drop"]]
  /\ UNCHANGED <<daemonVars, agentVars, spec, wire>>

\* Mutant of DropRow: the row goes even when a session holds it.
DropRowAlways(s) ==
  /\ thr[s].pc = "drop"
  /\ clients' = [clients EXCEPT ![thr[s].client] = "none"]
  /\ thr' = [thr EXCEPT ![s] = Idle]
  /\ UNCHANGED <<isHead, reapPending, nextReap, agents, older, actors, pgs,
                 agentVars, spec, wire>>

\* The row of a CLI, or of a session cut by a head change, leaves without a reap.
DropRow(s) ==
  LET c == thr[s].client
  IN  /\ thr[s].pc = "drop"
      /\ clients' = [clients EXCEPT ![c] =
           IF @ = "session" /\ ~thr[s].moved THEN @ ELSE "none"]
      /\ thr' = [thr EXCEPT ![s] = Idle]
      /\ UNCHANGED <<isHead, reapPending, nextReap, agents, older, actors, pgs,
                     agentVars, spec, wire>>

----------------------------------------------------------------------------
(* The reap of a driver whose session ended: reap_client, then             *)
(* reap_client_resources on the same thread or, after a grace, on a timer. *)

\* The row goes at once, so that a restarted driver can open its session.
reap_client(s) ==
  /\ thr[s].pc = "reap"
  /\ clients' = [clients EXCEPT ![thr[s].client] = "none"]
  /\ Goto(s, IF Grace THEN "arm" ELSE "check")
  /\ UNCHANGED <<isHead, reapPending, nextReap, agents, older, actors, pgs,
                 agentVars, spec, wire>>

\* With a grace, a second critical section hands out the disconnect's token.
ArmReap(s) ==
  /\ thr[s].pc = "arm"
  /\ thr' = [thr EXCEPT ![s] = [@ EXCEPT !.pc = "timer", !.token = nextReap]]
  /\ reapPending' = [reapPending EXCEPT ![thr[s].client] = nextReap]
  /\ nextReap' = nextReap + 1
  /\ UNCHANGED <<isHead, clients, agents, older, actors, pgs, agentVars, spec, wire>>

BackNever(c) == FALSE

\* A later disconnect, or a reap already run, has taken the timer's token away.
Superseded(s) == thr[s].pc = "timer" /\ reapPending[thr[s].client] # thr[s].token

\* The driver has a session again.
Back(c) == clients[c] = "session"

\* The reap's own critical section: a superseded timer and a driver that came
\* back both return early.
reap_client_resources(s) ==
  LET c     == thr[s].client
      stale == Superseded(s)
      todo  == {a \in OwnedBy(c) : Live(a)}
  IN  /\ thr[s].pc \in {"timer", "check"}
      /\ reapPending' = IF stale THEN reapPending ELSE [reapPending EXCEPT ![c] = 0]
      /\ \/ /\ stale \/ Back(c)
            /\ thr' = [thr EXCEPT ![s] = Idle]
            /\ UNCHANGED pgs
         \/ /\ ~stale /\ ~Back(c)
            /\ pgs' = [p \in Pgs |-> IF pgs[p].owner = c /\ Holds(pgs[p])
                                     THEN [pgs[p] EXCEPT !.state = "removed"] ELSE pgs[p]]
            /\ thr' = [thr EXCEPT ![s] = [@ EXCEPT !.pc = IF todo = {} THEN "final" ELSE "kills",
                                                   !.todo = todo]]
      /\ UNCHANGED <<isHead, clients, nextReap, agents, older, actors, agentVars, spec, wire>>

\* The last critical section of the reap, after its kills.
FinishReap(s) ==
  /\ thr[s].pc = "final"
  /\ pgs' \in try_place(Db, pgs)
  /\ thr' = [thr EXCEPT ![s] = Idle]
  /\ UNCHANGED <<isHead, clients, reapPending, nextReap, agents, older, actors,
                 agentVars, spec, wire>>

----------------------------------------------------------------------------
(* Requests: handle_client_msg.  A driver names its own actors and groups. *)

Reads(s) == thr[s].pc = "read" /\ thr[s].open

PgCreate(s, p, bundles) ==
  /\ Reads(s)
  /\ pgs[p].state = "none"
  /\ LET row == [state |-> "pending", owner |-> thr[s].client,
                 group |-> client_group(thr[s].client), bundles |-> bundles, asg |-> <<>>]
     IN  pgs' \in try_place(Db, [pgs EXCEPT ![p] = row])
  /\ UNCHANGED <<isHead, clients, reapPending, nextReap, agents, older, actors,
                 thr, agentVars, spec, wire>>

\* The table after p is marked removed, if it is not already.
DropPg(p) == IF Holds(pgs[p]) THEN [pgs EXCEPT ![p].state = "removed"] ELSE pgs

\* Mutant of PgRemove: no try_place at its end.
PgRemoveOnly(s, p) ==
  /\ Reads(s)
  /\ pgs[p].owner = thr[s].client \/ pgs[p].state = "swept"
  /\ pgs' = DropPg(p)
  /\ UNCHANGED <<isHead, clients, reapPending, nextReap, agents, older, actors,
                 thr, agentVars, spec, wire>>

\* Of a group removed before, or of which the row has gone, only the try_place
\* remains.
PgRemove(s, p) ==
  /\ Reads(s)
  /\ pgs[p].owner = thr[s].client \/ pgs[p].state = "swept"
  /\ pgs' \in try_place(Db, DropPg(p))
  /\ UNCHANGED <<isHead, clients, reapPending, nextReap, agents, older, actors,
                 thr, agentVars, spec, wire>>

\* A new actor on bundle i of group p, up to the spawn frame.  The send may
\* fail when the link has broken unnoticed: the actor is then dead at once.
create_actor(s, a, p, i) ==
  LET c     == thr[s].client
      group == client_group(c)
      b     == pgs[p].asg[i]
      born  == [actors EXCEPT ![a] = [state |-> "live", group |-> group, adopted |-> FALSE]]
      dead  == [born EXCEPT ![a].state = "dead"]
  IN  /\ Reads(s)
      /\ spec[a] = NoSpec
      /\ ~\E x \in Actors : Live(x) /\ actors[x].group = group /\ ActorName[x] = ActorName[a]
      /\ pgs[p].state = "created"
      /\ pgs[p].owner = c
      /\ i \in DOMAIN pgs[p].asg
      /\ agents[b.agent] = "alive"
      /\ spec' = [spec EXCEPT ![a] = [owner |-> c, agent |-> b.agent, gpus |-> b.gpus, pg |-> p]]
      /\ \/ /\ actors' = born
            /\ wire' = IF link[b.agent] = "up" THEN wire \cup {<<"spawn", a>>} ELSE wire
            /\ UNCHANGED pgs
         \/ /\ link[b.agent] # "up"
            /\ actors' = dead
            /\ pgs' \in try_place(DbOf(agents, older, dead), pgs)
            /\ UNCHANGED wire
      /\ UNCHANGED <<isHead, clients, reapPending, nextReap, agents, older, thr, agentVars>>

ActorKill(s, a) ==
  /\ Reads(s)
  /\ spec[a].owner = thr[s].client
  /\ kill_actor(a)
  /\ UNCHANGED <<isHead, clients, reapPending, nextReap, agents, older, thr, agentVars, spec>>

\* `mentatd stop` of one group, or of every group.
ActorStop(s, scope) ==
  LET ids == {a \in Actors : Live(a) /\ actors[a].group \in scope}
  IN  /\ Reads(s)
      /\ ~thr[s].session
      /\ ids # {}
      /\ thr' = [thr EXCEPT ![s] = [@ EXCEPT !.pc = "kill", !.todo = ids]]
      /\ UNCHANGED <<daemonVars, agentVars, spec, wire>>

----------------------------------------------------------------------------
(* The agents' side of the link (agent.rs).                                *)

\* serve_once: the resume list is read before the registration is sent, and
\* head_for finds this daemon to be the head.
Dial(g) ==
  /\ isHead
  /\ link[g] = "down"
  /\ link' = [link EXCEPT ![g] = "dialing"]
  /\ snap' = [snap EXCEPT ![g] = Running(g)]
  /\ UNCHANGED <<daemonVars, thr, spec, proc, doomed, wire>>

\* The registration is refused or its connection fails.
DialFails(g) ==
  /\ "cut" \in Faults
  /\ link[g] = "dialing"
  /\ link' = [link EXCEPT ![g] = "down"]
  /\ snap' = [snap EXCEPT ![g] = {}]
  /\ UNCHANGED <<daemonVars, thr, spec, proc, doomed, wire>>

Cut(g) ==
  /\ "cut" \in Faults
  /\ link[g] = "up"
  /\ Break({g})
  /\ UNCHANGED <<daemonVars, thr, spec, snap, doomed>>

\* The container dies, every actor process with it.
Crash(g) ==
  /\ "crash" \in Faults
  /\ link' = [link EXCEPT ![g] = "down"]
  /\ snap' = [snap EXCEPT ![g] = {}]
  /\ proc' = [a \in Actors |-> IF spec[a].agent = g THEN "none" ELSE proc[a]]
  /\ doomed' = doomed \ HostedBy(g)
  /\ wire' = {m \in wire : spec[m[2]].agent # g}
  /\ UNCHANGED <<daemonVars, thr, spec>>

\* actor_spawn: the entry is made before the spawn thread starts.
SpawnArrives(a) ==
  /\ <<"spawn", a>> \in wire
  /\ wire' = wire \ {<<"spawn", a>>}
  /\ proc' = [proc EXCEPT ![a] = "starting"]
  /\ UNCHANGED <<daemonVars, thr, spec, link, snap, doomed>>

\* spawn_actor up to the fork.
Fork(a) ==
  /\ proc[a] \in {"starting", "stale"}
  /\ proc' = [proc EXCEPT ![a] = "running"]
  /\ UNCHANGED <<daemonVars, thr, spec, link, snap, doomed, wire>>

\* bind or spawn fails: the entry goes, and the report goes to the writer the
\* spawn came with.
SpawnFails(a) ==
  /\ "spawn" \in Faults
  /\ proc[a] \in {"starting", "stale"}
  /\ proc' = [proc EXCEPT ![a] = "none"]
  /\ doomed' = doomed \ {a}
  /\ wire' = IF proc[a] = "starting" THEN wire \cup {<<"fail", a>>} ELSE wire
  /\ UNCHANGED <<daemonVars, thr, spec, link, snap>>

\* A report of the agent, through send_daemon.  With the link down it is kept
\* for the next one, or went into a socket that was already dead; once the agent
\* redials there is no old socket left to lose it in.
send_daemon(kind, a) ==
  \/ wire' = wire \cup {<<kind, a>>}
  \/ link[spec[a].agent] = "down" /\ wire' = wire

\* The constructor raises: the host reports it, and then ends.
CtorFails(a) ==
  /\ "ctor" \in Faults
  /\ proc[a] = "running"
  /\ a \notin doomed
  /\ doomed' = doomed \cup {a}
  /\ send_daemon("fail", a)
  /\ UNCHANGED <<daemonVars, thr, spec, link, snap, proc>>

\* actor_kill, behind the actor_spawn it may follow.  Before the fork the kill
\* is noted and carried out right after it.
KillArrives(a) ==
  /\ <<"kill", a>> \in wire
  /\ <<"spawn", a>> \notin wire
  /\ wire' = wire \ {<<"kill", a>>}
  /\ doomed' = IF proc[a] = "none" THEN doomed ELSE doomed \cup {a}
  /\ UNCHANGED <<daemonVars, thr, spec, link, snap, proc>>

\* The process ends, killed or by itself; the reaper thread drops the entry
\* and reports.
Exits(a) ==
  /\ proc[a] = "running"
  /\ proc' = [proc EXCEPT ![a] = "none"]
  /\ doomed' = doomed \ {a}
  /\ send_daemon("exit", a)
  /\ UNCHANGED <<daemonVars, thr, spec, link, snap>>

----------------------------------------------------------------------------
(* Agent connections at the daemon: agent_conn.                            *)

\* Mutants: unknown actors ignored; only the dead, or only the ownerless, killed;
\* actors missing from the resume list left live.
UnknownIgnored(g) == {}
UnwantedOwnerless(g) == {a \in snap[g] : HasRow(a) /\ clients[spec[a].owner] = "none"}
MissingKept(g) == {}

\* Resumed actors the daemon has no row of, and those it wants no longer: dead
\* here, or without an owner.
Unknown(g) == {a \in snap[g] : ~HasRow(a)}
Unwanted(g) == {a \in snap[g] : HasRow(a) /\ (clients[spec[a].owner] = "none" \/ ~Live(a))}

\* Live here, and not in the resume list.
Missing(g) == {a \in HostedBy(g) \ snap[g] : Live(a)}

\* The registration's critical section.  Resumed actors the daemon knows are
\* kept, or killed when dead here or ownerless; the others are adopted.  A
\* live actor missing from the list is dead.
Register(g) ==
  LET missing == Missing(g)
      adopted == [a \in Actors |-> IF a \in Unknown(g)
                                   THEN [state |-> "live", group |-> AgentGroup[g],
                                         adopted |-> TRUE]
                                   ELSE actors[a]]
      acts    == [a \in Actors |-> IF a \in missing
                                   THEN [actors[a] EXCEPT !.state = "dead"] ELSE adopted[a]]
      rows    == [agents EXCEPT ![g] = "alive"]
      order   == {gh \in older : g \notin {gh[1], gh[2]}}
                 \cup {<<h, g>> : h \in {h \in Agents \ {g} : agents[h] # "none"}}
      db      == DbOf(rows, order, adopted)
  IN  /\ link[g] = "dialing"
      /\ agents' = rows
      /\ older' = order
      /\ actors' = acts
      /\ \E o \in Orders(missing) : \E t \in MarkAllDead(db, o, pgs) :
           pgs' \in try_place(DbOf(rows, order, acts), t)
      /\ link' = [link EXCEPT ![g] = "up"]
      /\ snap' = [snap EXCEPT ![g] = {}]
      /\ wire' = wire \cup {<<"kill", a>> : a \in Unwanted(g)}
      /\ UNCHANGED <<isHead, clients, reapPending, nextReap, thr, spec, proc, doomed>>

\* actor_exit, and an actor_spawn_result that is not ok.  One that is ok only
\* turns Spawning into Running.
Report(kind, a) ==
  /\ kind \in {"exit", "fail"}
  /\ <<kind, a>> \in wire
  /\ link[spec[a].agent] = "up"
  /\ wire' = wire \ {<<kind, a>>}
  /\ mark_actor_dead(a)
  /\ UNCHANGED <<isHead, clients, reapPending, nextReap, agents, older, thr, agentVars, spec>>

\* The reader of the row's own connection ends: the degrade window opens.
AgentEof(g) ==
  /\ agents[g] = "alive"
  /\ link[g] # "up"
  /\ agents' = [agents EXCEPT ![g] = "lost"]
  /\ UNCHANGED <<isHead, clients, reapPending, nextReap, older, actors, pgs,
                 thr, agentVars, spec, wire>>

----------------------------------------------------------------------------
(* Timers and the head.                                                    *)

\* One sweep_lifecycle, sweep_history at its end.  late: groups past the
\* pending timeout.  slow, dead: agents past the degrade and give-up windows.
\* oldActors, oldPgs, oldAgents: rows past the history window.
sweep_lifecycle(late, slow, dead, oldActors, oldPgs, oldAgents) ==
  LET acts   == [a \in Actors |-> IF Live(a) /\ spec[a].agent \in dead
                                  THEN [actors[a] EXCEPT !.state = "dead"] ELSE actors[a]]
      rows   == [g \in Agents |-> IF g \in dead THEN "gone"
                                  ELSE IF g \in slow THEN "degraded" ELSE agents[g]]
      failed == [p \in Pgs |-> IF p \in late THEN [pgs[p] EXCEPT !.state = "removed"]
                               ELSE pgs[p]]
  IN  /\ \A p \in late : pgs[p].state = "pending"
      /\ \A g \in dead : agents[g] \in {"lost", "degraded"}
      /\ \A g \in slow : agents[g] = "lost" /\ g \notin dead
      /\ \A a \in oldActors : Dead(a) /\ clients[spec[a].owner] = "none"
      /\ \A p \in oldPgs : pgs[p].state = "removed" /\ clients[pgs[p].owner] = "none"
      /\ \A g \in oldAgents : /\ rows[g] \in {"lost", "degraded", "gone"}
                              /\ \A a \in HostedBy(g) : HasRow(a) => a \in oldActors
      /\ actors' = [a \in Actors |-> IF a \in oldActors THEN NoActor ELSE acts[a]]
      /\ agents' = [g \in Agents |-> IF g \in oldAgents THEN "none" ELSE rows[g]]
      /\ older' = {gh \in older : gh[1] \notin oldAgents /\ gh[2] \notin oldAgents}
      /\ \E t \in IF acts = actors THEN {failed}
                  ELSE try_place(DbOf(rows, older, acts), failed) :
           pgs' = [p \in Pgs |-> IF p \in oldPgs THEN [NoPg EXCEPT !.state = "swept"] ELSE t[p]]
      /\ UNCHANGED <<isHead, clients, reapPending, nextReap, thr, agentVars, spec, wire>>

\* head_moved on the daemon that stops being head: every group is dropped,
\* every link is shut, and nothing is reaped.
head_moved ==
  LET empty == (\A g \in Agents : agents[g] = "none") /\ (\A c \in Clients : clients[c] = "none")
  IN  /\ "flap" \in Faults
      /\ isHead
      /\ isHead' = FALSE
      /\ \/ /\ empty
            /\ UNCHANGED <<clients, actors, pgs, thr, link, wire, proc>>
         \/ /\ ~empty
            /\ clients' = [c \in Clients |-> "none"]
            /\ actors' = [a \in Actors |-> IF Live(a) THEN [actors[a] EXCEPT !.state = "dead"]
                                           ELSE actors[a]]
            /\ pgs' = [p \in Pgs |-> IF Holds(pgs[p]) THEN [pgs[p] EXCEPT !.state = "removed"]
                                     ELSE pgs[p]]
            /\ thr' = [s \in Socks |-> IF thr[s].pc \in {"kill", "read"}
                                       THEN [thr[s] EXCEPT !.open = FALSE] ELSE thr[s]]
            /\ Break({g \in Agents : link[g] = "up"})
      /\ UNCHANGED <<reapPending, nextReap, agents, older, spec, snap, doomed>>

\* The elector makes this daemon the head.
BecomeHead ==
  /\ ~isHead
  /\ isHead' = TRUE
  /\ UNCHANGED <<clients, reapPending, nextReap, agents, older, actors, pgs,
                 thr, agentVars, spec, wire>>

\* The daemon dies and boots: all its state is soft, the actors run on.
Restart ==
  /\ "restart" \in Faults
  /\ isHead' = FALSE
  /\ clients' = [c \in Clients |-> "none"]
  /\ reapPending' = [c \in Clients |-> 0]
  /\ nextReap' = 1
  /\ agents' = [g \in Agents |-> "none"]
  /\ older' = {}
  /\ actors' = [a \in Actors |-> NoActor]
  /\ pgs' = [p \in Pgs |-> IF pgs[p].state = "none" THEN NoPg ELSE [NoPg EXCEPT !.state = "swept"]]
  /\ thr' = [s \in Socks |-> Idle]
  /\ Break({g \in Agents : link[g] # "down"})
  /\ snap' = [g \in Agents |-> {}]
  /\ UNCHANGED <<spec, doomed>>

----------------------------------------------------------------------------
Init ==
  /\ isHead = FALSE
  /\ clients = [c \in Clients |-> "none"]
  /\ reapPending = [c \in Clients |-> 0]
  /\ nextReap = 1
  /\ agents = [g \in Agents |-> "none"]
  /\ older = {}
  /\ actors = [a \in Actors |-> NoActor]
  /\ pgs = [p \in Pgs |-> NoPg]
  /\ thr = [s \in Socks |-> Idle]
  /\ spec = [a \in Actors |-> NoSpec]
  /\ link = [g \in Agents |-> "down"]
  /\ snap = [g \in Agents |-> {}]
  /\ proc = [a \in Actors |-> "none"]
  /\ doomed = {}
  /\ wire = {}

\* The subsets of S, or none of S when the instance has no history sweep.
Aged(S) == IF "sweep" \in Faults THEN SUBSET S ELSE {{}}

Sweep ==
  \E late \in SUBSET {p \in Pgs : pgs[p].state = "pending"},
     slow \in SUBSET {g \in Agents : agents[g] = "lost"},
     dead \in SUBSET {g \in Agents : agents[g] \in {"lost", "degraded"}},
     oldActors \in Aged({a \in Actors : Dead(a)}),
     oldPgs \in Aged({p \in Pgs : pgs[p].state = "removed"}),
     oldAgents \in Aged({g \in Agents : agents[g] # "none"}) :
    sweep_lifecycle(late, slow, dead, oldActors, oldPgs, oldAgents)

ThreadStep(s) ==
  \/ Hello(s)
  \/ \E a \in Actors : KillNext(s, a)
  \/ Close(s)
  \/ DropRow(s)
  \/ reap_client(s)
  \/ ArmReap(s)
  \/ reap_client_resources(s)
  \/ FinishReap(s)

ClientStep(s) ==
  \/ \E c \in Clients, session \in ConnKinds : Connect(s, c, session)
  \/ HangUp(s)
  \/ \E p \in Pgs, bundles \in BundleSpecs : PgCreate(s, p, bundles)
  \/ \E p \in Pgs : PgRemove(s, p)
  \/ \E a \in Actors, p \in Pgs : \E i \in DOMAIN pgs[p].asg : create_actor(s, a, p, i)
  \/ \E a \in Actors : ActorKill(s, a)
  \/ \E scope \in {{group} : group \in Groups} \cup {Groups} : ActorStop(s, scope)

AgentStep(g) ==
  \/ Dial(g)
  \/ DialFails(g)
  \/ Cut(g)
  \/ Crash(g)
  \/ Register(g)
  \/ AgentEof(g)

ActorStep(a) ==
  \/ SpawnArrives(a)
  \/ Fork(a)
  \/ SpawnFails(a)
  \/ CtorFails(a)
  \/ KillArrives(a)
  \/ Exits(a)
  \/ \E kind \in {"exit", "fail"} : Report(kind, a)

Next ==
  \/ \E s \in Socks : ThreadStep(s) \/ ClientStep(s)
  \/ \E g \in Agents : AgentStep(g)
  \/ \E a \in Actors : ActorStep(a)
  \/ Sweep
  \/ head_moved
  \/ BecomeHead
  \/ Restart

Spec == Init /\ [][Next]_vars

----------------------------------------------------------------------------
(* Properties.                                                             *)

PgState == {"none", "pending", "created", "removed", "swept"}
Assignment == [agent : Agents, gpus : SUBSET Nat]
PgRow == [state : PgState, owner : Clients \cup {"none"}, group : Groups,
          bundles : Seq(Nat), asg : Seq(Assignment)]
PgTable == {t \in [Pgs -> PgRow] :
              \A p \in Pgs : t[p].state = "created" => DOMAIN t[p].asg = DOMAIN t[p].bundles}
ActorRow == [state : {"none", "live", "dead"}, group : Groups, adopted : BOOLEAN]
ActorSpec == [owner : Clients \cup {"none"}, agent : Agents \cup {"none"},
              gpus : SUBSET Nat, pg : Pgs \cup {"none"}]
Thread == [pc : {"idle", "hello", "kill", "read", "reap", "drop", "arm", "timer", "check",
                 "kills", "final"},
           client : Clients \cup {"none"}, session : BOOLEAN, open : BOOLEAN,
           moved : BOOLEAN, token : Nat, todo : SUBSET Actors]

\* The tables, threads and links hold what their comments say.
TypeOK ==
  /\ isHead \in BOOLEAN
  /\ clients \in [Clients -> {"none", "conn", "session"}]
  /\ reapPending \in [Clients -> Nat]
  /\ nextReap \in Nat
  /\ agents \in [Agents -> {"none", "alive", "lost", "degraded", "gone"}]
  /\ older \subseteq Agents \X Agents
  /\ actors \in [Actors -> ActorRow]
  /\ pgs \in PgTable
  /\ thr \in [Socks -> Thread]
  /\ spec \in [Actors -> ActorSpec]
  /\ link \in [Agents -> {"down", "dialing", "up"}]
  /\ snap \in [Agents -> SUBSET Actors]
  /\ proc \in [Actors -> {"none", "starting", "stale", "running"}]
  /\ doomed \subseteq Actors
  /\ wire \subseteq {"spawn", "kill", "fail", "exit"} \X Actors

\* A created group shares no device with another group or with a live actor not
\* its own, nor two of its bundles one: free_gpus_of subtracts what every live group and every live
\* actor holds, so try_place hands out a device only when its last holder is
\* gone.
NoDoubleAlloc ==
  \A p \in Pgs : pgs[p].state = "created" =>
    /\ \A i, j \in DOMAIN pgs[p].asg : i # j /\ pgs[p].asg[i].agent = pgs[p].asg[j].agent =>
         pgs[p].asg[i].gpus \cap pgs[p].asg[j].gpus = {}
    /\ \A q \in Pgs \ {p} : pgs[q].state = "created" =>
         PgDevices(pgs[p]) \cap PgDevices(pgs[q]) = {}
    /\ \A a \in Actors : Live(a) /\ spec[a].pg # p =>
         PgDevices(pgs[p]) \cap ActorDevices(a) = {}

\* A group that fits is placed: every handler that frees a device or brings an
\* agent ends in try_place, so no pending group of a connected driver fits what
\* is free, except while a reap is between removing a driver's groups and its
\* own try_place.  (A driver without a row has no node, which changes the order
\* of the candidates and with it what first-fit finds.)
PlacedWhenFits ==
  (\A s \in Socks : thr[s].pc \notin {"kills", "final"}) =>
    \A p \in Pgs : pgs[p].state = "pending" /\ clients[pgs[p].owner] # "none" =>
      PlaceOne(Db, p, pgs) = pgs

\* Thread s serves an open driver session.
Serves(s) == thr[s].session /\ thr[s].open /\ thr[s].pc \in {"kill", "read"}

\* A session that is served has its row: the connections a driver's other
\* threads open and close, and the end of an earlier session, leave it there.
RowWhileServed ==
  \A s \in Socks : Serves(s) => clients[thr[s].client] = "session"

\* The driver has a session open on the daemon.
Connected(c) == \E s \in Socks : thr[s].client = c /\ Serves(s)

\* The session of client c has ended and its grace is not over.
InGrace(c) ==
  /\ ~Connected(c)
  /\ \E s \in Socks : thr[s].client = c /\ \/ thr[s].pc = "arm"
                                           \/ thr[s].pc = "timer" /\ reapPending[c] = thr[s].token

\* The step in which a reap passes its checks and takes a driver's resources.
Reaps(s) == thr[s].pc \in {"timer", "check"} /\ thr'[s].pc \in {"kills", "final"}

\* A reap never takes the resources of a driver whose session is open: if the
\* same client id has reopened its session, reap_client_resources returns.
ReapSparesConnected ==
  [][\A s \in Socks : Reaps(s) => ~Connected(thr[s].client)]_vars


\* Two drivers never have sessions of one group open at the same time.
OneDriver ==
  \A s, u \in Socks : Serves(s) /\ Serves(u) /\ thr[s].client # thr[u].client =>
    ClientGroup[thr[s].client] # ClientGroup[thr[u].client]

\* The actors this step puts a kill frame on the wire for.
KillsSent == {a \in Actors : <<"kill", a>> \in wire' \ wire}

\* A new session of the group leaves the actors of a driver in its grace alone.
GraceOutlivesNewSession ==
  \A s \in Socks : thr[s].pc = "kill" /\ thr[s].session =>
    \A a \in thr[s].todo : ~InGrace(spec[a].owner)

\* An actor the daemon adopted is not killed for want of its owner's hello.
AdoptedKept ==
  [][\A g \in Agents : Register(g) =>
       \A a \in KillsSent : ~(Live(a) /\ actors[a].adopted)]_vars

\* A process keeps its devices to itself until it exits.
ProcessKeepsDevices ==
  \A a, b \in Actors :
    a # b /\ proc[a] = "running" /\ proc[b] = "running" /\ spec[a].pg # spec[b].pg =>
      ActorDevices(a) \cap ActorDevices(b) = {}

\* A live actor of a connected agent has an entry there, or word of its end is
\* on its way: the daemon does not wait for a process that is gone.
LiveHasProcess ==
  \A a \in Actors :
    Live(a) /\ agents[spec[a].agent] = "alive" /\ link[spec[a].agent] = "up" =>
      proc[a] # "none" \/ \E kind \in {"spawn", "fail", "exit"} : <<kind, a>> \in wire

\* Thread s is going to reap its client, or is serving it and will when it ends.
WillReap(s, c) ==
  /\ thr[s].client = c /\ thr[s].session
  /\ \/ thr[s].pc \in {"kill", "read", "reap", "arm", "check"}
     \/ thr[s].pc = "timer" /\ reapPending[c] = thr[s].token



\* A process on a connected agent is live in the daemon's table, or its kill is
\* on the way or has been carried out: no process runs on that the daemon
\* neither counts nor ends.
NoOrphanProcess ==
  \A a \in Actors : proc[a] # "none" /\ link[spec[a].agent] = "up" =>
    Live(a) \/ a \in doomed \/ <<"kill", a>> \in wire

----------------------------------------------------------------------------
(* The leases of module Ledger that the placement groups are.              *)

AllDevices == UNION {{g} \X AgentGpus[g] : g \in Agents}

LeaseOf(row) ==
  CASE row.state = "none"    -> [state |-> "free", devices |-> {}]
    [] row.state = "pending" -> [state |-> "wanted", devices |-> {}]
    [] row.state = "created" -> [state |-> "held", devices |-> PgDevices(row)]
    [] OTHER                 -> [state |-> "over", devices |-> {}]

L == INSTANCE Ledger WITH Leases <- Pgs, Devices <- AllDevices,
                          lease <- [p \in Pgs |-> LeaseOf(pgs[p])]

\* Placement implements the ledger: whatever order try_place meets the groups
\* in and whatever fails, a group gets its devices at once, keeps them until it
\* is removed, and shares none with another group.
LedgerSpec == L!Spec

----------------------------------------------------------------------------
(* Liveness.  A thread the daemon or the agent has runnable runs: threads   *)
(* are the system's, the mutex is not held across a wait, timers fire, the *)
(* agent redials for ever, and a process sent a SIGKILL ends.  Nothing is  *)
(* asked of drivers, of processes left alone, of sweeps or of failures.    *)

Fairness ==
  /\ WF_vars(BecomeHead)
  /\ \A s \in Socks : WF_vars(ThreadStep(s))
  /\ \A g \in Agents : WF_vars(Dial(g)) /\ WF_vars(Register(g)) /\ WF_vars(AgentEof(g))
  /\ \A a \in Actors :
       /\ WF_vars(SpawnArrives(a)) /\ WF_vars(Fork(a)) /\ WF_vars(KillArrives(a))
       /\ WF_vars(a \in doomed /\ Exits(a))
       /\ WF_vars(\E kind \in {"exit", "fail"} : Report(kind, a))

FairSpec == Spec /\ Fairness

\* Client c has nothing connected; it holds nothing.
Gone(c)  == \A s \in Socks : thr[s].client = c => ~thr[s].open
Clean(c) == /\ \A p \in Pgs : Holds(pgs[p]) => pgs[p].owner # c
            /\ \A a \in Actors : Live(a) => spec[a].owner # c


=============================================================================
