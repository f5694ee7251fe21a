----------------------------- MODULE HeadProofs -----------------------------
(***************************************************************************)
(* What holds of module Head for every set of clients, agents, actors and  *)
(* groups, and every choice of failures.  The argument is in README.md.    *)
(***************************************************************************)
EXTENDS PlacementProofs

----------------------------------------------------------------------------
(* What a step does to the placement groups.                               *)

\* A thread that is not idle serves, or reaps, a client.
ThreadOK == \A s \in Socks : thr[s].pc # "idle" => thr[s].client \in Clients

\* What typing needs to be inductive.  That no two groups share a device
\* (NoDouble of no actors) is here because placement keeps it and its types
\* together.
TypeInv == TypeOK /\ ThreadOK /\ NoDouble({}, pgs)

\* What one step may do to one group's row.
Moves(old, new) ==
  \/ new = old
  \/ old.state = "none" /\ new.state \in {"none", "pending"}
  \/ /\ old.state \in {"none", "pending"}
     /\ new.state = "created"
     /\ PgDevices(new) \subseteq AllDevices
  \/ old.state # "none" /\ new.state \in {"removed", "swept"}

\* What a step does to the groups: still a table, no device twice, legal moves.
GroupsMove ==
  /\ pgs' \in PgTable
  /\ NoDouble({}, pgs)'
  /\ \A p \in Pgs : Moves(pgs[p], pgs'[p])

\* A legal move, then placement.
LEMMA MoveThenLater ==
  ASSUME NEW old, NEW t, \A p \in Pgs : Moves(old[p], t[p]),
         NEW db, NEW u \in Later(AliveIn(db), t)
  PROVE  \A p \in Pgs : Moves(old[p], u[p])
<1> SUFFICES ASSUME NEW p \in Pgs PROVE Moves(old[p], u[p])
  OBVIOUS
<1>1. u[p] \in Placed(AliveIn(db), t[p])
  BY DEF Later
<1>2. CASE u[p] = t[p]
  BY <1>2
<1>3. CASE t[p].state = "pending" /\ u[p].state = "created"
           /\ PgDevices(u[p]) \subseteq UNION {{g} \X AgentGpus[g] : g \in AliveIn(db)}
  <2>1. old[p].state \in {"none", "pending"}
    BY <1>3 DEF Moves
  <2>2. PgDevices(u[p]) \subseteq AllDevices
    BY <1>3 DEF AllDevices, AliveIn
  <2> QED BY <1>3, <2>1, <2>2 DEF Moves
<1> QED BY <1>1, <1>2, <1>3 DEF Placed

\* A handler that changes the table to t and ends in try_place.
LEMMA ThenTryPlace ==
  ASSUME NEW t \in PgTable, NoDouble({}, t), \A p \in Pgs : Moves(pgs[p], t[p]),
         NEW db, pgs' \in try_place(db, t)
  PROVE  GroupsMove
<1>1. {} \in SUBSET LiveIn(db.actors)
  OBVIOUS
<1>2. pgs' \in Safe(db, {}, t)
  BY <1>1, TryPlaceSafe
<1>3. pgs' \in Later(AliveIn(db), t) /\ pgs' \in PgTable /\ NoDouble({}, pgs')
  BY <1>2 DEF Safe, Later
<1>4. \A p \in Pgs : Moves(pgs[p], pgs'[p])
  BY <1>3, MoveThenLater
<1>5. NoDouble({}, pgs)'
  BY <1>3 DEF NoDouble, PgDevices
<1> QED BY <1>3, <1>4, <1>5 DEF GroupsMove

\* A handler that leaves the groups alone.
LEMMA GroupsStay ==
  ASSUME TypeInv, UNCHANGED pgs
  PROVE  GroupsMove
<1>1. pgs' \in PgTable /\ \A p \in Pgs : Moves(pgs[p], pgs'[p])
  BY DEF TypeInv, TypeOK, Moves
<1>2. NoDouble({}, pgs')
  BY DEF TypeInv
<1> QED BY <1>1, <1>2 DEF GroupsMove, NoDouble, PgDevices

\* A handler that only ends some groups: their rows become removed or swept.
LEMMA GroupsEnd ==
  ASSUME TypeInv, NEW t \in PgTable,
         \A p \in Pgs : \/ t[p] = pgs[p]
                        \/ pgs[p].state # "none" /\ t[p].state \in {"removed", "swept"}
  PROVE  NoDouble({}, t) /\ \A p \in Pgs : Moves(pgs[p], t[p])
<1>1. \A p \in Pgs : t[p].state = "created" => t[p] = pgs[p]
  OBVIOUS
<1>2. NoDouble({}, t)
  BY <1>1, NoDoubleFewer DEF TypeInv
<1> QED BY <1>2 DEF Moves

\* GroupsEnd with nothing after it.
LEMMA GroupsOnlyEnd ==
  ASSUME TypeInv, pgs' \in PgTable,
         \A p \in Pgs : \/ pgs'[p] = pgs[p]
                        \/ pgs[p].state # "none" /\ pgs'[p].state \in {"removed", "swept"}
  PROVE  GroupsMove
<1>1. NoDouble({}, pgs') /\ \A p \in Pgs : Moves(pgs[p], pgs'[p])
  BY GroupsEnd
<1> QED BY <1>1 DEF GroupsMove, NoDouble, PgDevices

\* Removing the groups of a set.
LEMMA Removed ==
  ASSUME TypeInv, NEW gone \in SUBSET Pgs, NEW t,
         t = [p \in Pgs |-> IF p \in gone THEN [pgs[p] EXCEPT !.state = "removed"] ELSE pgs[p]]
  PROVE  /\ t \in PgTable
         /\ \A p \in gone : t[p].state = "removed"
         /\ \A p \in Pgs \ gone : t[p] = pgs[p]
<1>1. ASSUME NEW p \in Pgs
      PROVE  /\ pgs[p] \in PgRow
             /\ [pgs[p] EXCEPT !.state = "removed"] \in PgRow
             /\ [pgs[p] EXCEPT !.state = "removed"].state = "removed"
  <2>1. pgs[p] \in PgRow
    BY DEF TypeInv, TypeOK, PgTable
  <2> QED BY <2>1 DEF PgRow, PgState
<1>2. t \in [Pgs -> PgRow]
  BY <1>1
<1>3. \A p \in Pgs : t[p].state = "created" => t[p] = pgs[p]
  BY <1>1
<1>4. t \in PgTable
  BY <1>2, <1>3 DEF PgTable, TypeInv, TypeOK
<1> QED BY <1>1, <1>4

\* What the death of one actor does to the groups: a try_place, or nothing.
LEMMA MarkDeadMoves ==
  ASSUME TypeInv, NEW a \in Actors, mark_actor_dead(a)
  PROVE  GroupsMove
<1>1. CASE Dead(a)
  BY <1>1, GroupsStay DEF mark_actor_dead
<1>2. CASE ~Dead(a)
  <2>1. \E db : pgs' \in try_place(db, pgs)
    BY <1>2 DEF mark_actor_dead
  <2>2. pgs \in PgTable /\ NoDouble({}, pgs) /\ \A p \in Pgs : Moves(pgs[p], pgs[p])
    BY DEF TypeInv, TypeOK, Moves
  <2> QED BY <2>1, <2>2, ThenTryPlace
<1> QED BY <1>1, <1>2

\* What a kill does to the groups.
LEMMA KillMoves ==
  ASSUME TypeInv, NEW a \in Actors, kill_actor(a)
  PROVE  GroupsMove
BY GroupsStay, MarkDeadMoves DEF kill_actor

\* The group a client's requests are filed under is a group.
LEMMA ClientGroupType ==
  ASSUME TypeInv, NEW s \in Socks, thr[s].pc # "idle"
  PROVE  thr[s].client \in Clients /\ client_group(thr[s].client) \in Groups
BY HeadAssumption DEF TypeInv, ThreadOK, client_group

\* A handler that changes the table, ends or makes pending some groups but
\* creates none, and ends in try_place.
ChangesThenPlaces ==
  \E t \in PgTable :
    /\ pgs' \in try_place(Db, t)
    /\ NoDouble({}, t)
    /\ \A q \in Pgs : Moves(pgs[q], t[q])
    /\ \A q \in Pgs : t[q].state = "created" => t[q] = pgs[q]

\* pg_create makes one group pending and places what it can.
LEMMA PgCreateMoves ==
  ASSUME TypeInv, NEW s \in Socks, NEW p \in Pgs, NEW bundles \in BundleSpecs,
         PgCreate(s, p, bundles)
  PROVE  ChangesThenPlaces
<1> DEFINE row == [state |-> "pending", owner |-> thr[s].client,
                   group |-> client_group(thr[s].client), bundles |-> bundles, asg |-> <<>>]
           t == [pgs EXCEPT ![p] = row]
<1>1. pgs' \in try_place(Db, t) /\ pgs[p].state = "none" /\ thr[s].pc # "idle"
  BY DEF PgCreate, Reads
<1>2. row \in PgRow
  <2>1. thr[s].client \in Clients /\ client_group(thr[s].client) \in Groups
    BY <1>1, ClientGroupType
  <2>2. bundles \in Seq(Nat) /\ <<>> \in Seq(Assignment)
    BY HeadAssumption
  <2> QED BY <2>1, <2>2 DEF PgRow, PgState
<1>3. row.state = "pending"
  OBVIOUS
<1> HIDE DEF row
<1>4. t \in PgTable /\ t[p] = row /\ \A q \in Pgs \ {p} : t[q] = pgs[q]
  BY <1>2, <1>3 DEF TypeInv, TypeOK, PgTable
<1> HIDE DEF t
<1>5. \A q \in Pgs : t[q].state = "created" => t[q] = pgs[q]
  BY <1>3, <1>4
<1>6. NoDouble({}, t)
  BY <1>5, NoDoubleFewer DEF TypeInv
<1>7. \A q \in Pgs : Moves(pgs[q], t[q])
  BY <1>1, <1>3, <1>4 DEF Moves
<1> QED BY <1>1, <1>4, <1>5, <1>6, <1>7 DEF ChangesThenPlaces

\* pg_remove ends one group and places what it can.
LEMMA PgRemoveMoves ==
  ASSUME TypeInv, NEW s \in Socks, NEW p \in Pgs, PgRemove(s, p)
  PROVE  ChangesThenPlaces
<1> DEFINE gone == {q \in {p} : Holds(pgs[q])}
           t == DropPg(p)
<1>1. pgs' \in try_place(Db, t)
  BY DEF PgRemove
<1>2. t = [q \in Pgs |-> IF q \in gone THEN [pgs[q] EXCEPT !.state = "removed"] ELSE pgs[q]]
  BY DEF DropPg, TypeInv, TypeOK, PgTable
<1>3. \A q \in gone : pgs[q].state # "none"
  BY DEF Holds
<1>4. gone \in SUBSET Pgs
  OBVIOUS
<1> HIDE DEF t, gone
<1>5. /\ t \in PgTable
      /\ \A q \in gone : t[q].state = "removed"
      /\ \A q \in Pgs \ gone : t[q] = pgs[q]
  BY <1>2, <1>4, Removed
<1>6. NoDouble({}, t) /\ \A q \in Pgs : Moves(pgs[q], t[q])
  BY <1>3, <1>5, GroupsEnd
<1>7. \A q \in Pgs : t[q].state = "created" => t[q] = pgs[q]
  BY <1>5
<1> QED BY <1>1, <1>5, <1>6, <1>7 DEF ChangesThenPlaces

\* A reap's critical section ends groups of one driver, or does nothing.
LEMMA ReapMoves ==
  ASSUME TypeInv, NEW s \in Socks, reap_client_resources(s)
  PROVE  GroupsMove
<1>1. CASE UNCHANGED pgs
  BY <1>1, GroupsStay
<1>2. CASE pgs' = [p \in Pgs |-> IF pgs[p].owner = thr[s].client /\ Holds(pgs[p])
                                 THEN [pgs[p] EXCEPT !.state = "removed"] ELSE pgs[p]]
  <2> DEFINE gone == {p \in Pgs : pgs[p].owner = thr[s].client /\ Holds(pgs[p])}
  <2>1. pgs' = [p \in Pgs |-> IF p \in gone THEN [pgs[p] EXCEPT !.state = "removed"] ELSE pgs[p]]
    BY <1>2
  <2>2. \A p \in gone : pgs[p].state # "none"
    BY DEF Holds
  <2> HIDE DEF gone
  <2>3. gone \in SUBSET Pgs
    BY DEF gone
  <2>4. /\ pgs' \in PgTable
        /\ \A p \in gone : pgs'[p].state = "removed"
        /\ \A p \in Pgs \ gone : pgs'[p] = pgs[p]
    BY <2>1, <2>3, Removed
  <2> QED BY <2>2, <2>4, GroupsOnlyEnd
<1> QED BY <1>1, <1>2 DEF reap_client_resources

\* actor_create leaves the groups alone, or places when its send fails.
LEMMA CreateActorMoves ==
  ASSUME TypeInv, NEW s \in Socks, NEW a \in Actors, NEW p \in Pgs, NEW i,
         create_actor(s, a, p, i)
  PROVE  GroupsMove
<1>1. UNCHANGED pgs \/ \E db : pgs' \in try_place(db, pgs)
  BY DEF create_actor
<1>2. pgs \in PgTable /\ NoDouble({}, pgs) /\ \A q \in Pgs : Moves(pgs[q], pgs[q])
  BY DEF TypeInv, TypeOK, Moves
<1> QED BY <1>1, <1>2, GroupsStay, ThenTryPlace

\* The rows without a group.
LEMMA NoRows ==
  /\ NoPg \in PgRow /\ NoPg.state = "none"
  /\ [NoPg EXCEPT !.state = "swept"] \in PgRow
  /\ [NoPg EXCEPT !.state = "swept"].state = "swept"
<1>1. <<>> \in Seq(Nat) /\ <<>> \in Seq(Assignment)
  OBVIOUS
<1>2. NoPg \in PgRow /\ NoPg.state = "none"
  BY <1>1, HeadAssumption DEF NoPg, PgRow, PgState
<1> HIDE DEF NoPg
<1> QED BY <1>2 DEF PgRow, PgState

\* A registration places after each death it finds, and at its end.
LEMMA RegisterMoves ==
  ASSUME TypeInv, NEW g \in Agents, Register(g)
  PROVE  GroupsMove
<1> DEFINE adopted == [a \in Actors |-> IF a \in Unknown(g)
                                        THEN [state |-> "live", group |-> AgentGroup[g],
                                              adopted |-> TRUE]
                                        ELSE actors[a]]
           rows  == [agents EXCEPT ![g] = "alive"]
           order == {gh \in older : g \notin {gh[1], gh[2]}}
                    \cup {<<h, g>> : h \in {h \in Agents \ {g} : agents[h] # "none"}}
           db    == DbOf(rows, order, adopted)
<1>1. PICK o, t : /\ o \in Orders(Missing(g))
                  /\ t \in MarkAllDead(db, o, pgs)
                  /\ \E db2 : pgs' \in try_place(db2, t)
  BY DEF Register
<1>2. IsDb(db)
  BY DEF IsDb, DbOf
<1>3. o \in Seq(Missing(g))
  <2>1. IsFiniteSet(Missing(g))
    BY FS_Subset, HeadAssumption DEF Missing, HostedBy
  <2> QED BY <1>1, <2>1, OrdersAreSeqs
<1> HIDE DEF db
<1>4. pgs \in PgTable /\ NoDouble({}, pgs) /\ \A p \in Pgs : Moves(pgs[p], pgs[p])
  BY DEF TypeInv, TypeOK, Moves
<1>5. t \in Safe(db, {}, pgs)
  BY <1>1, <1>2, <1>3, <1>4, MarkAllDeadSafe
<1>6. t \in PgTable /\ NoDouble({}, t) /\ t \in Later(AliveIn(db), pgs)
  BY <1>5 DEF Safe, Later
<1>7. \A p \in Pgs : Moves(pgs[p], t[p])
  BY <1>4, <1>6, MoveThenLater
<1> QED BY <1>1, <1>6, <1>7, ThenTryPlace

\* A sweep fails late groups, places after deaths, and forgets old rows.
LEMMA SweepMoves ==
  ASSUME TypeInv, NEW late, NEW slow, NEW dead, NEW oldActors, NEW oldPgs, NEW oldAgents,
         sweep_lifecycle(late, slow, dead, oldActors, oldPgs, oldAgents),
         late \subseteq Pgs, oldPgs \subseteq Pgs
  PROVE  GroupsMove
<1> DEFINE failed == [p \in Pgs |-> IF p \in late THEN [pgs[p] EXCEPT !.state = "removed"]
                                    ELSE pgs[p]]
           swept == [NoPg EXCEPT !.state = "swept"]
           acts == [a \in Actors |-> IF Live(a) /\ spec[a].agent \in dead
                                     THEN [actors[a] EXCEPT !.state = "dead"] ELSE actors[a]]
           rows == [g \in Agents |-> IF g \in dead THEN "gone"
                                     ELSE IF g \in slow THEN "degraded" ELSE agents[g]]
<1>0. PICK t \in IF acts = actors THEN {failed} ELSE try_place(DbOf(rows, older, acts), failed) :
        pgs' = [p \in Pgs |-> IF p \in oldPgs THEN swept ELSE t[p]]
  BY Zenon DEF sweep_lifecycle
<1> HIDE DEF failed, swept, acts, rows
<1>1. /\ t = failed \/ \E db : t \in try_place(db, failed)
      /\ pgs' = [p \in Pgs |-> IF p \in oldPgs THEN swept ELSE t[p]]
  BY <1>0
<1>2. /\ \A p \in late : pgs[p].state = "pending"
      /\ \A p \in oldPgs : pgs[p].state = "removed"
  BY DEF sweep_lifecycle
<1>3. /\ failed \in PgTable
      /\ \A p \in late : failed[p].state = "removed"
      /\ \A p \in Pgs \ late : failed[p] = pgs[p]
  BY Removed DEF failed
<1>4. NoDouble({}, failed) /\ \A p \in Pgs : Moves(pgs[p], failed[p])
  BY <1>2, <1>3, GroupsEnd
<1>5. t \in PgTable /\ NoDouble({}, t) /\ \A p \in Pgs : Moves(pgs[p], t[p])
  <2>1. CASE t = failed
    BY <2>1, <1>3, <1>4
  <2>2. CASE \E db : t \in try_place(db, failed)
    <3>1. PICK db : t \in try_place(db, failed)
      BY <2>2
    <3>2. t \in Safe(db, {}, failed)
      BY <3>1, <1>3, <1>4, TryPlaceSafe
    <3>3. t \in Later(AliveIn(db), failed) /\ t \in PgTable /\ NoDouble({}, t)
      BY <3>2 DEF Safe, Later
    <3> QED BY <3>3, <1>4, MoveThenLater
  <2> QED BY <1>1, <2>1, <2>2
<1>6. swept \in PgRow /\ swept.state = "swept"
  BY NoRows DEF swept
<1>7. pgs' \in PgTable
  BY <1>1, <1>5, <1>6 DEF PgTable
<1>8. \A p \in Pgs : pgs'[p].state = "created" => pgs'[p] = t[p]
  BY <1>1, <1>6
<1>9. NoDouble({}, pgs')
  BY <1>5, <1>8, NoDoubleFewer
<1>10. \A p \in Pgs : Moves(pgs[p], pgs'[p])
  BY <1>1, <1>2, <1>5, <1>6 DEF Moves
<1> QED BY <1>7, <1>9, <1>10 DEF GroupsMove, NoDouble, PgDevices

\* A head change ends every group.
LEMMA HeadMovedMoves ==
  ASSUME TypeInv, head_moved
  PROVE  GroupsMove
<1>1. CASE UNCHANGED pgs
  BY <1>1, GroupsStay
<1>2. CASE pgs' = [p \in Pgs |-> IF Holds(pgs[p]) THEN [pgs[p] EXCEPT !.state = "removed"]
                                 ELSE pgs[p]]
  <2> DEFINE gone == {p \in Pgs : Holds(pgs[p])}
  <2>1. pgs' = [p \in Pgs |-> IF p \in gone THEN [pgs[p] EXCEPT !.state = "removed"] ELSE pgs[p]]
    BY <1>2
  <2>2. \A p \in gone : pgs[p].state # "none"
    BY DEF Holds
  <2> HIDE DEF gone
  <2>3. gone \in SUBSET Pgs
    BY DEF gone
  <2>4. /\ pgs' \in PgTable
        /\ \A p \in gone : pgs'[p].state = "removed"
        /\ \A p \in Pgs \ gone : pgs'[p] = pgs[p]
    BY <2>1, <2>3, Removed
  <2> QED BY <2>2, <2>4, GroupsOnlyEnd
<1> QED BY <1>1, <1>2 DEF head_moved

\* A restart forgets every group.
LEMMA RestartMoves ==
  ASSUME TypeInv, Restart
  PROVE  GroupsMove
<1> DEFINE swept == [NoPg EXCEPT !.state = "swept"]
<1>1. pgs' = [p \in Pgs |-> IF pgs[p].state = "none" THEN NoPg ELSE swept]
  BY DEF Restart
<1>2. NoPg \in PgRow /\ NoPg.state = "none" /\ swept \in PgRow /\ swept.state = "swept"
  BY NoRows
<1> HIDE DEF swept
<1>3. \A p \in Pgs : pgs'[p] \in PgRow /\ pgs'[p].state # "created"
  BY <1>1, <1>2
<1>4. pgs' \in PgTable
  BY <1>1, <1>2, <1>3 DEF PgTable
<1>5. \A p \in Pgs : Moves(pgs[p], pgs'[p])
  BY <1>1, <1>2 DEF Moves
<1>6. NoDouble({}, pgs)'
  BY <1>3 DEF NoDouble
<1> QED BY <1>4, <1>5, <1>6 DEF GroupsMove

----------------------------------------------------------------------------
(* Every step keeps the tables' types and moves groups legally.            *)

\* Every step of the system moves the groups legally.
LEMMA GroupStep ==
  ASSUME TypeInv, [Next]_vars
  PROVE  GroupsMove
<1>1. ASSUME NEW s \in Socks, ThreadStep(s) PROVE GroupsMove
  <2>1. ASSUME NEW a \in Actors, KillNext(s, a) PROVE GroupsMove
    BY <2>1, KillMoves DEF KillNext
  <2>2. CASE reap_client_resources(s)
    BY <2>2, ReapMoves
  <2>3. CASE FinishReap(s)
    <3>1. pgs \in PgTable /\ NoDouble({}, pgs) /\ \A p \in Pgs : Moves(pgs[p], pgs[p])
      BY DEF TypeInv, TypeOK, Moves
    <3> QED BY <2>3, <3>1, ThenTryPlace DEF FinishReap
  <2>4. CASE Hello(s) \/ Close(s) \/ DropRow(s) \/ reap_client(s) \/ ArmReap(s)
    <3>1. UNCHANGED pgs
      BY <2>4 DEF Hello, Close, DropRow, reap_client, ArmReap, daemonVars
    <3> QED BY <3>1, GroupsStay
  <2> QED BY <1>1, <2>1, <2>2, <2>3, <2>4 DEF ThreadStep
<1>2. ASSUME NEW s \in Socks, ClientStep(s) PROVE GroupsMove
  <2>1. ASSUME NEW p \in Pgs, NEW bundles \in BundleSpecs, PgCreate(s, p, bundles)
        PROVE  GroupsMove
    BY <2>1, PgCreateMoves, ThenTryPlace DEF ChangesThenPlaces
  <2>2. ASSUME NEW p \in Pgs, PgRemove(s, p) PROVE GroupsMove
    BY <2>2, PgRemoveMoves, ThenTryPlace DEF ChangesThenPlaces
  <2>3. ASSUME NEW a \in Actors, NEW p \in Pgs, NEW i, create_actor(s, a, p, i)
        PROVE  GroupsMove
    BY <2>3, CreateActorMoves
  <2>4. ASSUME NEW a \in Actors, ActorKill(s, a) PROVE GroupsMove
    BY <2>4, KillMoves DEF ActorKill
  <2>5. ASSUME \/ \E c \in Clients, session \in ConnKinds : Connect(s, c, session)
               \/ HangUp(s)
               \/ \E scope \in {{group} : group \in Groups} \cup {Groups} : ActorStop(s, scope)
        PROVE  GroupsMove
    <3>1. UNCHANGED pgs
      BY <2>5 DEF Connect, HangUp, ActorStop, daemonVars
    <3> QED BY <3>1, GroupsStay
  <2> QED BY <1>2, <2>1, <2>2, <2>3, <2>4, <2>5 DEF ClientStep
<1>3. ASSUME NEW g \in Agents, AgentStep(g) PROVE GroupsMove
  <2>1. CASE Register(g)
    BY <2>1, RegisterMoves
  <2>2. CASE Dial(g) \/ DialFails(g) \/ Cut(g) \/ Crash(g) \/ AgentEof(g)
    <3>1. UNCHANGED pgs
      BY <2>2 DEF Dial, DialFails, Cut, Crash, AgentEof, daemonVars
    <3> QED BY <3>1, GroupsStay
  <2> QED BY <1>3, <2>1, <2>2 DEF AgentStep
<1>4. ASSUME NEW a \in Actors, ActorStep(a) PROVE GroupsMove
  <2>1. ASSUME NEW kind, Report(kind, a) PROVE GroupsMove
    BY <2>1, MarkDeadMoves DEF Report
  <2>2. CASE SpawnArrives(a) \/ Fork(a) \/ SpawnFails(a) \/ CtorFails(a) \/ KillArrives(a) \/ Exits(a)
    <3>1. UNCHANGED pgs
      BY <2>2 DEF SpawnArrives, Fork, SpawnFails, CtorFails, KillArrives, Exits, send_daemon, daemonVars
    <3> QED BY <3>1, GroupsStay
  <2> QED BY <1>4, <2>1, <2>2 DEF ActorStep
<1>5. CASE Sweep
  <2>1. PICK late, slow, dead, oldActors, oldPgs, oldAgents :
          /\ sweep_lifecycle(late, slow, dead, oldActors, oldPgs, oldAgents)
          /\ late \subseteq Pgs
          /\ oldPgs \in Aged({p \in Pgs : pgs[p].state = "removed"})
    BY <1>5 DEF Sweep
  <2>2. oldPgs \subseteq Pgs
    BY <2>1 DEF Aged
  <2> QED BY <2>1, <2>2, SweepMoves
<1>6. CASE head_moved
  BY <1>6, HeadMovedMoves
<1>7. CASE Restart
  BY <1>7, RestartMoves
<1>8. CASE BecomeHead \/ UNCHANGED vars
  <2>1. UNCHANGED pgs
    BY <1>8 DEF BecomeHead, vars
  <2> QED BY <2>1, GroupsStay
<1> QED BY <1>1, <1>2, <1>3, <1>4, <1>5, <1>6, <1>7, <1>8 DEF Next

\* A bundle's assignment is one.
LEMMA AssignmentType ==
  ASSUME TypeInv, NEW p \in Pgs, NEW i \in DOMAIN pgs[p].asg
  PROVE  pgs[p].asg[i] \in Assignment
<1>1. pgs[p] \in PgRow
  BY DEF TypeInv, TypeOK, PgTable
<1>2. pgs[p].asg \in Seq(Assignment)
  BY <1>1 DEF PgRow
<1> QED BY <1>2

\* An actor's row: new, with another state, or no longer adopted.
LEMMA RowUpdates ==
  ASSUME NEW r \in ActorRow
  PROVE  /\ [r EXCEPT !.adopted = FALSE] \in ActorRow
         /\ [r EXCEPT !.state = "dead"] \in ActorRow
         /\ NoActor \in ActorRow
BY HeadAssumption DEF ActorRow, NoActor

\* The row of an actor created, or adopted.
LEMMA NewRow ==
  ASSUME NEW group \in Groups, NEW flag \in BOOLEAN
  PROVE  [state |-> "live", group |-> group, adopted |-> flag] \in ActorRow
BY DEF ActorRow

\* A death changes the actor table only.
LEMMA DeathType ==
  ASSUME TypeInv, NEW a \in Actors, mark_actor_dead(a)
  PROVE  actors' \in [Actors -> ActorRow]
<1>1. actors' = actors \/ actors' = [actors EXCEPT ![a].state = "dead"]
  BY DEF mark_actor_dead
<1>2. actors \in [Actors -> ActorRow]
  BY DEF TypeInv, TypeOK
<1>3. [actors[a] EXCEPT !.state = "dead"] \in ActorRow
  BY <1>2, RowUpdates
<1> QED BY <1>1, <1>2, <1>3

\* A kill changes the actor table and the links only.
LEMMA KillType ==
  ASSUME TypeInv, NEW a \in Actors, kill_actor(a)
  PROVE  /\ actors' \in [Actors -> ActorRow]
         /\ wire' \subseteq {"spawn", "kill", "fail", "exit"} \X Actors
<1>1. CASE mark_actor_dead(a) /\ UNCHANGED wire
  BY <1>1, DeathType DEF TypeInv, TypeOK
<1>2. CASE UNCHANGED actors /\ (UNCHANGED wire \/ Send("kill", a))
  BY <1>2 DEF Send, TypeInv, TypeOK
<1> QED BY <1>1, <1>2 DEF kill_actor

\* Broken links keep their types.
LEMMA BreakType ==
  ASSUME TypeInv, NEW G, Break(G)
  PROVE  /\ link' \in [Agents -> {"down", "dialing", "up"}]
         /\ wire' \subseteq {"spawn", "kill", "fail", "exit"} \X Actors
         /\ proc' \in [Actors -> {"none", "starting", "stale", "running"}]
BY DEF Break, TypeInv, TypeOK

\* Where a thread may be.
Places == {"idle", "hello", "kill", "read", "reap", "drop", "arm", "timer", "check", "kills", "final"}

\* The threads, after thread s is set to x.
LEMMA ThreadPut ==
  ASSUME TypeInv, NEW s \in Socks, NEW x, thr' = [thr EXCEPT ![s] = x],
         x \in Thread, x.pc = "idle" \/ x.client \in Clients
  PROVE  thr' \in [Socks -> Thread] /\ ThreadOK'
BY DEF TypeInv, TypeOK, ThreadOK

\* The updates a thread makes of itself.
LEMMA PcTodo ==
  ASSUME NEW t \in Thread, NEW pc \in Places, NEW todo \in SUBSET Actors
  PROVE  /\ [t EXCEPT !.pc = pc, !.todo = todo] \in Thread
         /\ [t EXCEPT !.pc = pc, !.todo = todo].client = t.client
BY DEF Thread, Places

\* A thread record with a new todo set and a new place.
LEMMA TodoPc ==
  ASSUME NEW t \in Thread, NEW pc \in Places, NEW todo \in SUBSET Actors
  PROVE  /\ [t EXCEPT !.todo = todo, !.pc = pc] \in Thread
         /\ [t EXCEPT !.todo = todo, !.pc = pc].client = t.client
BY DEF Thread, Places

\* A thread record that has noted whether the head moved, and a new place.
LEMMA MovedPc ==
  ASSUME NEW t \in Thread, NEW pc \in Places, NEW b \in BOOLEAN
  PROVE  /\ [t EXCEPT !.moved = b, !.pc = pc] \in Thread
         /\ [t EXCEPT !.moved = b, !.pc = pc].client = t.client
BY DEF Thread, Places

\* A thread record with a new place and a reap token.
LEMMA PcToken ==
  ASSUME NEW t \in Thread, NEW pc \in Places, NEW n \in Nat
  PROVE  /\ [t EXCEPT !.pc = pc, !.token = n] \in Thread
         /\ [t EXCEPT !.pc = pc, !.token = n].client = t.client
BY DEF Thread, Places

\* A thread record whose client's end is gone.
LEMMA HungUp ==
  ASSUME NEW t \in Thread
  PROVE  /\ [t EXCEPT !.open = FALSE] \in Thread
         /\ [t EXCEPT !.open = FALSE].client = t.client
         /\ [t EXCEPT !.open = FALSE].pc = t.pc
BY DEF Thread

\* The thread record of a new connection.
LEMMA NewThread ==
  ASSUME NEW c \in Clients, NEW session \in BOOLEAN
  PROVE  /\ [Idle EXCEPT !.pc = "hello", !.client = c, !.session = session, !.open = TRUE] \in Thread
         /\ [Idle EXCEPT !.pc = "hello", !.client = c, !.session = session, !.open = TRUE].client = c
BY DEF Thread, Idle

\* The record of an idle thread.
LEMMA IdleType == Idle \in Thread /\ Idle.pc = "idle"
BY DEF Idle, Thread

\* A thread's own steps.
LEMMA ThreadTypes ==
  ASSUME TypeInv, pgs' \in PgTable, NEW s \in Socks, ThreadStep(s)
  PROVE  TypeOK' /\ ThreadOK'
<1> USE DEF TypeInv, TypeOK, ThreadOK
<1>0. thr[s] \in Thread /\ (thr[s].pc # "idle" => thr[s].client \in Clients)
  OBVIOUS
<1>1. CASE Hello(s)
  <2>1. PICK x \in Thread : /\ thr' = [thr EXCEPT ![s] = x]
                            /\ x.pc = "idle" \/ x.client \in Clients
    <3>1. CASE thr' = [thr EXCEPT ![s] = Idle]
      BY <3>1, IdleType
    <3>2. ASSUME NEW orphans \in SUBSET Actors,
                 thr' = [thr EXCEPT ![s] = [@ EXCEPT
                           !.pc = IF orphans = {} THEN "read" ELSE "kill", !.todo = orphans]]
          PROVE  \E x \in Thread : /\ thr' = [thr EXCEPT ![s] = x]
                                   /\ x.pc = "idle" \/ x.client \in Clients
      <4> DEFINE pc == IF orphans = {} THEN "read" ELSE "kill"
                 x == [thr[s] EXCEPT !.pc = pc, !.todo = orphans]
      <4>0. pc \in Places
        BY DEF Places
      <4>1. x \in Thread /\ x.client = thr[s].client
        <5> HIDE DEF pc
        <5> QED BY <1>0, <4>0, PcTodo
      <4>2. thr' = [thr EXCEPT ![s] = x]
        BY <3>2
      <4> HIDE DEF x
      <4> QED BY <1>0, <1>1, <4>1, <4>2 DEF Hello
    <3>3. (IF thr[s].session THEN orphans_of(thr[s].client) ELSE {}) \in SUBSET Actors
      BY DEF orphans_of
    <3> QED BY <1>1, <3>1, <3>2, <3>3 DEF Hello
  <2>2. thr' \in [Socks -> Thread] /\ ThreadOK'
    BY <2>1, ThreadPut
  <2>3. clients' \in [Clients -> {"none", "conn", "session"}] /\ actors' \in [Actors -> ActorRow]
    <3>1. \/ UNCHANGED <<clients, actors>>
          \/ /\ clients' = [clients EXCEPT ![thr[s].client] =
                    IF thr[s].session \/ @ = "session" THEN "session" ELSE "conn"]
             /\ actors' = [a \in Actors |-> IF spec[a].owner = thr[s].client
                    THEN [actors[a] EXCEPT !.adopted = FALSE] ELSE actors[a]]
      BY <1>1 DEF Hello
    <3>2. clients' \in [Clients -> {"none", "conn", "session"}]
      BY <3>1
    <3>3. CASE actors' = [a \in Actors |-> IF spec[a].owner = thr[s].client
                          THEN [actors[a] EXCEPT !.adopted = FALSE] ELSE actors[a]]
      BY <3>2, <3>3, RowUpdates
    <3>4. actors' \in [Actors -> ActorRow]
      BY <3>1, <3>3
    <3> QED BY <3>2, <3>4
  <2> QED BY <1>1, <2>2, <2>3 DEF Hello, agentVars
<1>2. ASSUME NEW a \in Actors, KillNext(s, a) PROVE TypeOK' /\ ThreadOK'
  <2>1. /\ actors' \in [Actors -> ActorRow]
        /\ wire' \subseteq {"spawn", "kill", "fail", "exit"} \X Actors
    BY <1>2, KillType DEF KillNext
  <2> DEFINE left == thr[s].todo \ {a}
             pc == IF left = {} THEN IF thr[s].pc = "kill" THEN "read" ELSE "final" ELSE thr[s].pc
             x == [thr[s] EXCEPT !.todo = left, !.pc = pc]
  <2>2. left \in SUBSET Actors /\ pc \in Places
    BY <1>0, <1>2 DEF KillNext, Thread, Places
  <2>3. x \in Thread /\ x.client = thr[s].client
    <3> HIDE DEF left, pc
    <3> QED BY <1>0, <2>2, TodoPc
  <2>4. thr' = [thr EXCEPT ![s] = x] /\ thr[s].client \in Clients
    BY <1>0, <1>2 DEF KillNext
  <2> HIDE DEF x
  <2>5. thr' \in [Socks -> Thread] /\ ThreadOK'
    BY <2>3, <2>4, ThreadPut
  <2> QED BY <1>2, <2>1, <2>5 DEF KillNext, agentVars
<1>3. CASE Close(s)
  <2> DEFINE pc == IF thr[s].session /\ isHead THEN "reap" ELSE "drop"
             x == [thr[s] EXCEPT !.moved = ~isHead, !.pc = pc]
  <2>1. pc \in Places /\ (~isHead) \in BOOLEAN
    BY DEF Places
  <2>2. x \in Thread /\ x.client = thr[s].client
    <3> HIDE DEF pc
    <3> QED BY <1>0, <2>1, MovedPc
  <2>3. thr' = [thr EXCEPT ![s] = x] /\ thr[s].client \in Clients
    BY <1>0, <1>3 DEF Close
  <2> HIDE DEF x
  <2>4. thr' \in [Socks -> Thread] /\ ThreadOK'
    BY <2>2, <2>3, ThreadPut
  <2> QED BY <1>3, <2>4 DEF Close, daemonVars, agentVars
<1>4. CASE DropRow(s)
  BY <1>4 DEF DropRow, Thread, Idle, agentVars
<1>5. CASE reap_client(s)
  BY <1>5 DEF reap_client, Goto, Thread, agentVars
<1>6. CASE ArmReap(s)
  <2> DEFINE x == [thr[s] EXCEPT !.pc = "timer", !.token = nextReap]
  <2>1. x \in Thread /\ x.client = thr[s].client
    BY <1>0, PcToken DEF Places
  <2>2. thr' = [thr EXCEPT ![s] = x] /\ thr[s].client \in Clients
    BY <1>0, <1>6 DEF ArmReap
  <2> HIDE DEF x
  <2>3. thr' \in [Socks -> Thread] /\ ThreadOK'
    BY <2>1, <2>2, ThreadPut
  <2> QED BY <1>6, <2>3 DEF ArmReap, agentVars
<1>7. CASE reap_client_resources(s)
  <2> DEFINE todo == {a \in OwnedBy(thr[s].client) : Live(a)}
             pc == IF todo = {} THEN "final" ELSE "kills"
             x == [thr[s] EXCEPT !.pc = pc, !.todo = todo]
  <2>1. todo \in SUBSET Actors /\ pc \in Places
    BY DEF OwnedBy, Places
  <2>2. x \in Thread /\ x.client = thr[s].client
    <3> HIDE DEF todo, pc
    <3> QED BY <1>0, <2>1, PcTodo
  <2>3. thr[s].client \in Clients
    BY <1>0, <1>7 DEF reap_client_resources
  <2>4. thr' = [thr EXCEPT ![s] = Idle] \/ thr' = [thr EXCEPT ![s] = x]
    BY <1>7 DEF reap_client_resources
  <2> HIDE DEF x
  <2>5. thr' \in [Socks -> Thread] /\ ThreadOK'
    BY <2>2, <2>3, <2>4, IdleType, ThreadPut
  <2>6. reapPending' \in [Clients -> Nat]
    BY <1>7 DEF reap_client_resources
  <2> QED BY <1>7, <2>5, <2>6 DEF reap_client_resources, agentVars
<1>8. CASE FinishReap(s)
  BY <1>8 DEF FinishReap, Thread, Idle, agentVars
<1> QED BY <1>1, <1>2, <1>3, <1>4, <1>5, <1>6, <1>7, <1>8 DEF ThreadStep

\* A client's requests.
LEMMA ClientTypes ==
  ASSUME TypeInv, pgs' \in PgTable, NEW s \in Socks, ClientStep(s)
  PROVE  TypeOK' /\ ThreadOK'
<1> USE DEF TypeInv, TypeOK, ThreadOK
<1>1. ASSUME NEW c \in Clients, NEW session \in ConnKinds, Connect(s, c, session)
      PROVE  TypeOK' /\ ThreadOK'
  <2> DEFINE x == [Idle EXCEPT !.pc = "hello", !.client = c, !.session = session, !.open = TRUE]
  <2>1. x \in Thread /\ x.client = c
    BY HeadAssumption, NewThread
  <2>2. thr' = [thr EXCEPT ![s] = x]
    BY <1>1 DEF Connect
  <2> HIDE DEF x
  <2>3. thr' \in [Socks -> Thread] /\ ThreadOK'
    BY <2>1, <2>2, ThreadPut
  <2> QED BY <1>1, <2>3 DEF Connect, daemonVars, agentVars
<1>2. CASE HangUp(s)
  <2> DEFINE x == [thr[s] EXCEPT !.open = FALSE]
  <2>1. x \in Thread /\ x.client = thr[s].client
    BY HungUp
  <2>2. thr' = [thr EXCEPT ![s] = x] /\ thr[s].client \in Clients
    BY <1>2 DEF HangUp
  <2> HIDE DEF x
  <2>3. thr' \in [Socks -> Thread] /\ ThreadOK'
    BY <2>1, <2>2, ThreadPut
  <2> QED BY <1>2, <2>3 DEF HangUp, daemonVars, agentVars
<1>3. ASSUME NEW p \in Pgs, NEW bundles \in BundleSpecs, PgCreate(s, p, bundles)
      PROVE  TypeOK' /\ ThreadOK'
  BY <1>3 DEF PgCreate, agentVars
<1>4. ASSUME NEW p \in Pgs, PgRemove(s, p) PROVE TypeOK' /\ ThreadOK'
  BY <1>4 DEF PgRemove, agentVars
<1>5. ASSUME NEW a \in Actors, NEW p \in Pgs, NEW i \in DOMAIN pgs[p].asg,
             create_actor(s, a, p, i)
      PROVE  TypeOK' /\ ThreadOK'
  <2> DEFINE born == [state |-> "live", group |-> client_group(thr[s].client), adopted |-> FALSE]
             minted == [owner |-> thr[s].client, agent |-> pgs[p].asg[i].agent,
                        gpus |-> pgs[p].asg[i].gpus, pg |-> p]
  <2>0. /\ thr[s].pc # "idle"
        /\ spec' = [spec EXCEPT ![a] = minted]
        /\ \/ actors' = [actors EXCEPT ![a] = born]
           \/ actors' = [[actors EXCEPT ![a] = born] EXCEPT ![a].state = "dead"]
        /\ wire' = wire \/ wire' = wire \cup {<<"spawn", a>>}
    BY <1>5 DEF create_actor, Reads
  <2>1. thr[s].client \in Clients /\ client_group(thr[s].client) \in Groups
    BY <2>0, ClientGroupType
  <2>2. pgs[p].asg[i] \in Assignment
    BY AssignmentType
  <2>3. spec' \in [Actors -> ActorSpec]
    <3>1. minted \in ActorSpec
      BY <2>1, <2>2 DEF ActorSpec, Assignment
    <3> HIDE DEF minted
    <3> QED BY <2>0, <3>1
  <2>4. actors' \in [Actors -> ActorRow]
    <3>1. born \in ActorRow
      BY <2>1, NewRow
    <3> HIDE DEF born
    <3>2. [born EXCEPT !.state = "dead"] \in ActorRow
      BY <3>1, RowUpdates
    <3> QED BY <2>0, <3>1, <3>2
  <2>5. wire' \subseteq {"spawn", "kill", "fail", "exit"} \X Actors
    BY <2>0
  <2> QED BY <1>5, <2>3, <2>4, <2>5 DEF create_actor, agentVars
<1>6. ASSUME NEW a \in Actors, ActorKill(s, a) PROVE TypeOK' /\ ThreadOK'
  <2>1. /\ actors' \in [Actors -> ActorRow]
        /\ wire' \subseteq {"spawn", "kill", "fail", "exit"} \X Actors
    BY <1>6, KillType DEF ActorKill
  <2> QED BY <1>6, <2>1 DEF ActorKill, agentVars
<1>7. ASSUME NEW scope, ActorStop(s, scope) PROVE TypeOK' /\ ThreadOK'
  <2> DEFINE ids == {a \in Actors : Live(a) /\ actors[a].group \in scope}
             x == [thr[s] EXCEPT !.pc = "kill", !.todo = ids]
  <2>1. thr[s] \in Thread /\ thr[s].client \in Clients
    BY <1>7 DEF ActorStop, Reads
  <2>2. ids \in SUBSET Actors
    OBVIOUS
  <2>3. x \in Thread /\ x.client = thr[s].client
    <3> HIDE DEF ids
    <3> QED BY <2>1, <2>2, PcTodo DEF Places
  <2>4. thr' = [thr EXCEPT ![s] = x]
    BY <1>7 DEF ActorStop
  <2> HIDE DEF x
  <2>5. thr' \in [Socks -> Thread] /\ ThreadOK'
    BY <2>1, <2>3, <2>4, ThreadPut
  <2> QED BY <1>7, <2>5 DEF ActorStop, daemonVars, agentVars
<1> QED BY <1>1, <1>2, <1>3, <1>4, <1>5, <1>6, <1>7 DEF ClientStep

\* An agent's link and its registration.
LEMMA AgentTypes ==
  ASSUME TypeInv, pgs' \in PgTable, NEW g \in Agents, AgentStep(g)
  PROVE  TypeOK' /\ ThreadOK'
<1> USE DEF TypeInv, TypeOK, ThreadOK
<1>1. CASE Dial(g)
  BY <1>1 DEF Dial, Running, HostedBy, daemonVars
<1>2. CASE DialFails(g)
  BY <1>2 DEF DialFails, daemonVars
<1>3. CASE Cut(g)
  BY <1>3, BreakType DEF Cut, daemonVars
<1>4. CASE Crash(g)
  BY <1>4 DEF Crash, daemonVars
<1>5. CASE Register(g)
  <2>1. actors' \in [Actors -> ActorRow]
    <3> DEFINE new == [state |-> "live", group |-> AgentGroup[g], adopted |-> TRUE]
    <3>1. actors' = [a \in Actors |-> IF a \in Missing(g)
                                      THEN [actors[a] EXCEPT !.state = "dead"]
                                      ELSE [x \in Actors |-> IF x \in Unknown(g) THEN new
                                                             ELSE actors[x]][a]]
      BY <1>5 DEF Register
    <3>2. new \in ActorRow
      BY HeadAssumption, NewRow
    <3> HIDE DEF new
    <3> QED BY <3>1, <3>2, RowUpdates
  <2>2. older' \subseteq Agents \X Agents
    BY <1>5 DEF Register
  <2>3. wire' \subseteq {"spawn", "kill", "fail", "exit"} \X Actors
    BY <1>5 DEF Register, Unwanted
  <2>4. /\ agents' \in [Agents -> {"none", "alive", "lost", "degraded", "gone"}]
        /\ link' \in [Agents -> {"down", "dialing", "up"}]
        /\ snap' \in [Agents -> SUBSET Actors]
    BY <1>5 DEF Register
  <2>5. UNCHANGED <<isHead, clients, reapPending, nextReap, thr, spec, proc, doomed>>
    BY <1>5 DEF Register
  <2> QED BY <2>1, <2>2, <2>3, <2>4, <2>5
<1>6. CASE AgentEof(g)
  BY <1>6 DEF AgentEof, agentVars
<1> QED BY <1>1, <1>2, <1>3, <1>4, <1>5, <1>6 DEF AgentStep

\* An actor's process, and its reports.
LEMMA ActorTypes ==
  ASSUME TypeInv, pgs' \in PgTable, NEW a \in Actors, ActorStep(a)
  PROVE  TypeOK' /\ ThreadOK'
<1> USE DEF TypeInv, TypeOK, ThreadOK
<1>1. CASE SpawnArrives(a)
  BY <1>1 DEF SpawnArrives, daemonVars
<1>2. CASE Fork(a)
  BY <1>2 DEF Fork, daemonVars
<1>3. CASE SpawnFails(a)
  BY <1>3 DEF SpawnFails, daemonVars
<1>4. CASE CtorFails(a)
  <2>1. wire' \subseteq {"spawn", "kill", "fail", "exit"} \X Actors
    BY <1>4 DEF CtorFails, send_daemon
  <2> QED BY <1>4, <2>1 DEF CtorFails, daemonVars
<1>5. CASE KillArrives(a)
  BY <1>5 DEF KillArrives, daemonVars
<1>6. CASE Exits(a)
  <2>1. wire' \subseteq {"spawn", "kill", "fail", "exit"} \X Actors
    BY <1>6 DEF Exits, send_daemon
  <2> QED BY <1>6, <2>1 DEF Exits, daemonVars
<1>7. ASSUME NEW kind, Report(kind, a) PROVE TypeOK' /\ ThreadOK'
  <2>1. actors' \in [Actors -> ActorRow]
    BY <1>7, DeathType DEF Report
  <2> QED BY <1>7, <2>1 DEF Report, agentVars
<1> QED BY <1>1, <1>2, <1>3, <1>4, <1>5, <1>6, <1>7 DEF ActorStep

\* Sweeps, and the daemon's own changes.
LEMMA DaemonTypes ==
  ASSUME TypeInv, pgs' \in PgTable, Sweep \/ head_moved \/ BecomeHead \/ Restart \/ UNCHANGED vars
  PROVE  TypeOK' /\ ThreadOK'
<1> USE DEF TypeInv, TypeOK, ThreadOK
<1>1. CASE Sweep
  <2>1. PICK late, slow, dead, oldActors, oldPgs, oldAgents :
               sweep_lifecycle(late, slow, dead, oldActors, oldPgs, oldAgents)
    BY <1>1, Zenon DEF Sweep
  <2>2. actors' \in [Actors -> ActorRow]
    <3>1. actors' = [a \in Actors |-> IF a \in oldActors THEN NoActor
                                      ELSE IF Live(a) /\ spec[a].agent \in dead
                                           THEN [actors[a] EXCEPT !.state = "dead"] ELSE actors[a]]
      BY <2>1 DEF sweep_lifecycle
    <3> QED BY <3>1, RowUpdates
  <2>3. agents' \in [Agents -> {"none", "alive", "lost", "degraded", "gone"}]
    BY <2>1 DEF sweep_lifecycle
  <2>4. older' \subseteq Agents \X Agents
    BY <2>1 DEF sweep_lifecycle
  <2>5. UNCHANGED <<isHead, clients, reapPending, nextReap, thr, link, snap, proc, doomed, spec, wire>>
    BY <2>1, Zenon DEF sweep_lifecycle, agentVars
  <2> QED BY <2>2, <2>3, <2>4, <2>5
<1>2. CASE head_moved
  <2>1. CASE UNCHANGED <<clients, actors, pgs, thr, link, wire, proc>>
    BY <1>2, <2>1 DEF head_moved
  <2>2. CASE ~UNCHANGED <<clients, actors, pgs, thr, link, wire, proc>>
    <3>1. /\ clients' = [c \in Clients |-> "none"]
          /\ actors' = [a \in Actors |-> IF Live(a) THEN [actors[a] EXCEPT !.state = "dead"]
                                         ELSE actors[a]]
          /\ thr' = [s \in Socks |-> IF thr[s].pc \in {"kill", "read"}
                                     THEN [thr[s] EXCEPT !.open = FALSE] ELSE thr[s]]
          /\ Break({g \in Agents : link[g] = "up"})
      BY <1>2, <2>2 DEF head_moved
    <3>2. actors' \in [Actors -> ActorRow]
      BY <3>1 DEF ActorRow
    <3>3. thr' \in [Socks -> Thread] /\ ThreadOK'
      <4>1. \A s \in Socks : /\ thr'[s] \in Thread
                             /\ thr'[s].client = thr[s].client /\ thr'[s].pc = thr[s].pc
        <5> SUFFICES ASSUME NEW s \in Socks
                     PROVE  /\ thr'[s] \in Thread
                            /\ thr'[s].client = thr[s].client /\ thr'[s].pc = thr[s].pc
          OBVIOUS
        <5>1. thr[s] \in Thread
          OBVIOUS
        <5>2. thr'[s] \in {thr[s], [thr[s] EXCEPT !.open = FALSE]}
          BY <3>1
        <5> QED BY ONLY <5>1, <5>2, HungUp
      <4>2. DOMAIN thr' = Socks /\ thr' = [s \in Socks |-> thr'[s]]
        BY <3>1
      <4> QED BY <4>1, <4>2
    <3>4. /\ link' \in [Agents -> {"down", "dialing", "up"}]
          /\ wire' \subseteq {"spawn", "kill", "fail", "exit"} \X Actors
          /\ proc' \in [Actors -> {"none", "starting", "stale", "running"}]
      BY <3>1, BreakType
    <3>5. isHead' \in BOOLEAN /\ UNCHANGED <<reapPending, nextReap, agents, older, spec, snap, doomed>>
      BY <1>2 DEF head_moved
    <3>6. clients' \in [Clients -> {"none", "conn", "session"}]
      BY <3>1
    <3> QED BY <3>2, <3>3, <3>4, <3>5, <3>6
  <2> QED BY <2>1, <2>2
<1>3. CASE BecomeHead
  BY <1>3 DEF BecomeHead, agentVars
<1>4. CASE Restart
  <2>1. actors' \in [Actors -> ActorRow]
    BY <1>4, HeadAssumption DEF Restart, ActorRow, NoActor
  <2>2. thr' \in [Socks -> Thread] /\ ThreadOK'
    BY <1>4, IdleType DEF Restart
  <2>3. /\ link' \in [Agents -> {"down", "dialing", "up"}]
        /\ wire' \subseteq {"spawn", "kill", "fail", "exit"} \X Actors
        /\ proc' \in [Actors -> {"none", "starting", "stale", "running"}]
    BY <1>4, BreakType DEF Restart
  <2> QED BY <1>4, <2>1, <2>2, <2>3 DEF Restart
<1>5. CASE UNCHANGED vars
  BY <1>5 DEF vars
<1> QED BY <1>1, <1>2, <1>3, <1>4, <1>5

----------------------------------------------------------------------------
(* The theorems.                                                           *)

\* The initial state is typed, and no two groups share a device in it.
LEMMA TypeInit == Init => TypeInv
<1> SUFFICES ASSUME Init PROVE TypeInv
  OBVIOUS
<1>1. pgs \in PgTable /\ NoDouble({}, pgs)
  <2>1. \A p \in Pgs : pgs[p] \in PgRow /\ pgs[p].state # "created"
    BY NoRows DEF Init
  <2>2. pgs \in [Pgs -> PgRow]
    BY NoRows DEF Init
  <2> QED BY <2>1, <2>2 DEF PgTable, NoDouble
<1>2. actors \in [Actors -> ActorRow] /\ spec \in [Actors -> ActorSpec]
  BY HeadAssumption DEF Init, NoActor, ActorRow, NoSpec, ActorSpec
<1>3. thr \in [Socks -> Thread] /\ ThreadOK
  BY IdleType DEF Init, ThreadOK
<1> QED BY <1>1, <1>2, <1>3 DEF Init, TypeInv, TypeOK

\* Every step keeps the inductive invariant.
LEMMA TypeStep == TypeInv /\ [Next]_vars => TypeInv'
<1> SUFFICES ASSUME TypeInv, [Next]_vars PROVE TypeInv'
  OBVIOUS
<1>1. pgs' \in PgTable /\ NoDouble({}, pgs)'
  BY GroupStep DEF GroupsMove
<1>2. TypeOK' /\ ThreadOK'
  BY <1>1, ThreadTypes, ClientTypes, AgentTypes, ActorTypes, DaemonTypes DEF Next
<1> QED BY <1>1, <1>2 DEF TypeInv

\* The tables, threads and links always hold what they should: whatever the
\* handlers of daemon.rs do, in whatever order and with whatever failing.
THEOREM TypeCorrect == Spec => []TypeOK
<1>1. TypeInv => TypeOK
  BY DEF TypeInv
<1> QED BY <1>1, TypeInit, TypeStep, PTL DEF Spec

\* The leases of the initial state, and of a step.
LEMMA LedgerInit == Init => L!Init
BY DEF Init, L!Init, L!NoLease, NoPg, LeaseOf

\* Every step is a step of the ledger, or leaves it alone.
LEMMA LedgerStep ==
  ASSUME TypeInv, [Next]_vars
  PROVE  L!Next
<1>1. GroupsMove
  BY GroupStep
<1>2. ASSUME NEW p \in Pgs PROVE L!MayBecome(LeaseOf(pgs[p]), LeaseOf(pgs'[p]))
  <2>1. Moves(pgs[p], pgs'[p])
    BY <1>1 DEF GroupsMove
  <2> QED BY <2>1 DEF Moves, L!MayBecome, L!NoLease, L!Wanted, L!Over, L!Held, LeaseOf
<1>3. ASSUME NEW p \in Pgs, NEW q \in Pgs, p # q
      PROVE  LeaseOf(pgs'[p]).devices \cap LeaseOf(pgs'[q]).devices = {}
  <2>1. pgs'[p].state = "created" /\ pgs'[q].state = "created" =>
          PgDevices(pgs'[p]) \cap PgDevices(pgs'[q]) = {}
    BY <1>1, <1>3 DEF GroupsMove, NoDouble
  <2>2. \A row : row.state # "created" => LeaseOf(row).devices = {}
    BY DEF LeaseOf
  <2>3. \A row : row.state = "created" => LeaseOf(row).devices = PgDevices(row)
    BY DEF LeaseOf
  <2> QED BY <2>1, <2>2, <2>3
<1> QED BY <1>2, <1>3 DEF L!Next

\* Placement implements the ledger for every cluster and every failure: a group
\* gets its devices at once, keeps them until it is removed and shares none.
THEOREM LedgerImplemented == Spec => LedgerSpec
<1>1. TypeInv /\ [Next]_vars => [L!Next]_[p \in Pgs |-> LeaseOf(pgs[p])]
  BY LedgerStep
<1> QED BY <1>1, LedgerInit, TypeInit, TypeStep, PTL DEF Spec, LedgerSpec, L!Spec

=============================================================================
