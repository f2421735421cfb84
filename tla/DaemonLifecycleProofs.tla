------------------------ MODULE DaemonLifecycleProofs ------------------------
(***************************************************************************)
(* Proofs about DaemonLifecycle, for any servers, configurations, faults   *)
(* and numbers of edits and signals: SIGHUPs are dropped only while one is *)
(* pending, a reload leaves the servers it does not change alone, between  *)
(* reloads the servers that run are those of the configuration, and no     *)
(* process runs twice or is left behind but for a cause.                   *)
(*                                                                         *)
(* The last two follow from DaemonInv.  Its heart is ServerInv, what holds *)
(* of one server whatever boot, reload and closeAllClients are doing; a    *)
(* step about one server leaves the others Untouched, so that each action  *)
(* is a lemma about the server it is about.                                *)
(***************************************************************************)
EXTENDS DaemonLifecycle, FiniteSetTheorems, SequenceTheorems, TLAPS

-----------------------------------------------------------------------------
(***************************************************************************)
(* Which actions touch which variables.                                    *)
(***************************************************************************)
LEMMA BootingKeeps ==
  ASSUME Booting PROVE UNCHANGED <<reload, signals, pc>>
  <1>1. ASSUME NEW s \in Servers,
               \/ BootSpawn(s) \/ BootCannotSpawn(s) \/ BootInitialized(s)
               \/ BootInitFails(s) \/ BootTracked(s)
        PROVE  UNCHANGED <<reload, signals, pc>>
    BY <1>1 DEF BootSpawn, BootCannotSpawn, BootInitialized, BootInitFails, BootTracked, BootOnly
  <1>2. BootEnds => UNCHANGED <<reload, signals, pc>>
    BY DEF BootEnds
  <1> QED BY <1>1, <1>2 DEF Booting

LEMMA PingingKeeps ==
  ASSUME Pinging PROVE UNCHANGED <<clients, boot, reload, signals, pc>>
  <1>1. ASSUME NEW s, NEW i, NEW st, PingRecorded(s, i, st)
        PROVE  UNCHANGED <<clients, boot, reload, signals, pc>>
    BY <1>1 DEF PingRecorded, PingOnly
  <1>2. ASSUME NEW s \in Servers, PingLookup(s) \/ PingExpired(s)
        PROVE  UNCHANGED <<clients, boot, reload, signals, pc>>
    BY <1>2 DEF PingLookup, PingExpired, PingOnly
  <1>3. RoundEnds \/ Tick \/ Interrupted \/ ApiFails => UNCHANGED <<clients, boot, reload, signals, pc>>
    BY DEF RoundEnds, Tick, Interrupted, ApiFails, PingOnly
  <1> QED BY <1>1, <1>2, <1>3 DEF Pinging, PingAnswered, PingFails

LEMMA ClosingKeeps ==
  ASSUME Closing PROVE UNCHANGED <<registries, boot, reload, signals, pc>>
  BY DEF Closing, CloseAll, ManageEnds, ChildClosed, ChildCloseTimesOut, CloseOnly

LEMMA AskingKeeps ==
  ASSUME Asking PROVE UNCHANGED <<registries, boot, reload, pc>>
  BY DEF Asking, Hup, Terminate, EditFile, SignalOnly, manager

\* The steps of a reload between its first and its last.
ReloadStep ==
  \/ Stopped \/ StopTimesOut \/ StartServer \/ CannotStart
  \/ Initialized \/ InitFails \/ Tracked
  \/ \E s \in Servers : \/ StopServer("remove", s) \/ StopServer("restart", s)
                        \/ UpdateTools(s) \/ AddServer(s)

LEMMA ReloadStepKeeps ==
  ASSUME ReloadStep PROVE pc = "reload" /\ UNCHANGED <<served, target, signals, pc, boot>>
  <1>1. ASSUME Stopped \/ StopTimesOut \/ StartServer \/ CannotStart
        PROVE pc = "reload" /\ UNCHANGED <<served, target, signals, pc, boot>>
    BY <1>1 DEF Stopped, StopTimesOut, StartServer, CannotStart, ReloadOnly, MainOnly
  <1>2. ASSUME Initialized \/ InitFails \/ Tracked
        PROVE pc = "reload" /\ UNCHANGED <<served, target, signals, pc, boot>>
    BY <1>2 DEF Initialized, InitFails, Tracked, ReloadOnly, MainOnly
  <1>3. ASSUME NEW s \in Servers, NEW k, StopServer(k, s) \/ UpdateTools(s) \/ AddServer(s)
        PROVE pc = "reload" /\ UNCHANGED <<served, target, signals, pc, boot>>
    BY <1>3 DEF StopServer, UpdateTools, AddServer, Turn, ReloadOnly, MainOnly
  <1> QED BY <1>1, <1>2, <1>3 DEF ReloadStep

LEMMA MainSteps == Main <=> \/ TakeReload \/ ReloadStep \/ ReloadEnds \/ NoticeShutdown \/ Return
  BY DEF Main, Reloading, ReloadStep

-----------------------------------------------------------------------------
(***************************************************************************)
(* The reloading flag.                                                     *)
(***************************************************************************)
LEMMA FlagKept ==
  ASSUME FlagInv, UNCHANGED <<signals, pc>> PROVE FlagInv'
  BY DEF FlagInv, FlagMeansPending, Alive, signals

LEMMA FlagHup == ASSUME FlagInv, Hup PROVE FlagInv'
  <1>1. UNCHANGED pc /\ pc # "exited"
    BY DEF Hup, SignalOnly, Alive
  <1>2. reloading' = TRUE /\ queued' = (queued \/ ~reloading)
    BY DEF Hup
  <1> QED BY <1>1, <1>2, Zenon DEF FlagInv, FlagMeansPending, Alive

LEMMA FlagStep == ASSUME FlagInv, [Next]_vars PROVE FlagInv'
  <1>1. CASE Booting \/ Pinging \/ Closing
    BY <1>1, BootingKeeps, PingingKeeps, ClosingKeeps, FlagKept
  <1>2. CASE Asking
    <2>1. CASE Hup BY <2>1, FlagHup
    <2>2. CASE Terminate
      BY <2>2 DEF Terminate, SignalOnly, FlagInv, FlagMeansPending, Alive
    <2>3. ASSUME NEW c, EditFile(c) PROVE FlagInv'
      BY <2>3, FlagKept DEF EditFile, SignalOnly
    <2> QED BY <1>2, <2>1, <2>2, <2>3 DEF Asking
  <1>3. CASE TakeReload
    BY <1>3 DEF TakeReload, Leave, FlagInv, FlagMeansPending, Alive
  <1>4. CASE ReloadStep
    BY <1>4, ReloadStepKeeps, FlagKept
  <1>5. CASE ReloadEnds
    BY <1>5 DEF ReloadEnds, Leave, FlagInv, FlagMeansPending, Alive
  <1>6. CASE NoticeShutdown \/ Return
    BY <1>6 DEF NoticeShutdown, Return, Leave, FlagInv, FlagMeansPending, Alive, signals
  <1>7. CASE Exited \/ UNCHANGED vars
    BY <1>7, FlagKept DEF Exited, vars
  <1> QED BY <1>1, <1>2, <1>3, <1>4, <1>5, <1>6, <1>7, MainSteps DEF Next

\* The reloading flag of reloadState is set exactly while a reload is queued or
\* under way (handleSignals and the main loop of cmd/daemon.go).
THEOREM FlagExact == Spec => []FlagMeansPending
  <1>1. Init => FlagInv
    BY DEF Init, FlagInv, FlagMeansPending, Alive
  <1>2. FlagInv => FlagMeansPending
    BY DEF FlagInv
  <1> QED BY <1>1, <1>2, FlagStep, PTL DEF Spec

-----------------------------------------------------------------------------
(***************************************************************************)
(* What a reload has in hand.                                              *)
(***************************************************************************)
Kinds == {"remove", "update", "restart", "add"}

LEMMA KeepUnchanged ==
  ASSUME KeepInv, UNCHANGED <<clients, boot, reload>>, DOMAIN health' = Servers,
         pc' = pc \/ pc' = "exited", pc = "reload" => pc' = pc
  PROVE  KeepInv'
  <1>1. RegistriesShape'
    BY DEF KeepInv, RegistriesShape, reload
  <1>2. PlanInv'
    BY DEF KeepInv, PlanInv, reload
  <1>3. BootInv'
    BY DEF KeepInv, BootInv, Alive, reload
  <1> QED BY <1>1, <1>2, <1>3 DEF KeepInv

\* Servers leave the set of those boot has yet to register; the one that is
\* registered now is among them no more.
LEMMA KeepBooted ==
  ASSUME KeepInv, UNCHANGED <<reload, pc>>, DOMAIN health' = Servers,
         NEW s \in Servers, NEW st \in {"starting", "added", "done", "failed"},
         boot' = [boot EXCEPT ![s] = st],
         st = "starting" => boot[s] = "todo",
         NEW c,
         clients' = clients \/ (clients' = [clients EXCEPT ![s] = c] /\ st = "added")
  PROVE  KeepInv'
  <1>1. RegistriesShape'
    BY DEF KeepInv, RegistriesShape, reload
  <1>2. PlanInv'
    BY DEF KeepInv, PlanInv, reload
  <1>3. BootInv'
    <2> SUFFICES ASSUME Alive, NEW t \in Servers, boot'[t] \in {"todo", "starting"}
                 PROVE  /\ clients'[t] = NoClient /\ served[t] # Absent
                        /\ pc = "reload" => /\ target[t] # Absent \/ t \in plan.remove \/ failed
                                            /\ op # Idle => op.server # t
      BY DEF BootInv, Alive, reload
    <2>1. DOMAIN boot = Servers /\ DOMAIN clients = Servers
      BY DEF KeepInv, RegistriesShape
    <2>2. boot[t] \in {"todo", "starting"}
      BY <2>1
    <2>3. clients'[t] = clients[t]
      BY <2>1
    <2> QED BY <2>2, <2>3 DEF KeepInv, BootInv
  <1> QED BY <1>1, <1>2, <1>3 DEF KeepInv

LEMMA KeepBooting == ASSUME KeepInv, Booting PROVE KeepInv'
  <1> DOMAIN health = Servers BY DEF KeepInv, RegistriesShape
  <1>1. ASSUME NEW s \in Servers, BootSpawn(s) PROVE KeepInv'
    <2>1. /\ boot' = [boot EXCEPT ![s] = "starting"] /\ boot[s] = "todo"
          /\ clients' = clients /\ health' = health
      BY <1>1 DEF BootSpawn, registries
    <2> QED BY <1>1, <2>1, BootingKeeps, KeepBooted DEF Booting
  <1>2. ASSUME NEW s \in Servers, BootCannotSpawn(s) \/ BootInitFails(s) PROVE KeepInv'
    <2>1. /\ boot' = [boot EXCEPT ![s] = "failed"]
          /\ clients' = clients /\ health' = health
      BY <1>2 DEF BootCannotSpawn, BootInitFails, registries
    <2> QED BY <1>2, <2>1, BootingKeeps, KeepBooted DEF Booting
  <1>3. ASSUME NEW s \in Servers, BootInitialized(s) PROVE KeepInv'
    <2> DEFINE c == [proc |-> BootProc(s), tools |-> first[s].tools]
    <2>1. /\ boot' = [boot EXCEPT ![s] = "added"]
          /\ clients' = [clients EXCEPT ![s] = c] /\ health' = health
      BY <1>3 DEF BootInitialized, AddClient
    <2> QED BY <1>3, <2>1, BootingKeeps, KeepBooted DEF Booting
  <1>4. ASSUME NEW s \in Servers, BootTracked(s) PROVE KeepInv'
    <2>1. boot' = [boot EXCEPT ![s] = "done"] /\ clients' = clients
      BY <1>4 DEF BootTracked
    <2>2. DOMAIN health' = Servers
      BY <1>4 DEF BootTracked, Track
    <2> QED BY <1>4, <2>1, <2>2, BootingKeeps, KeepBooted DEF Booting
  <1>5. CASE BootEnds
    BY <1>5, KeepUnchanged DEF BootEnds, registries
  <1> QED BY <1>1, <1>2, <1>3, <1>4, <1>5 DEF Booting

LEMMA KeepTakeReload == ASSUME KeepInv, TakeReload PROVE KeepInv'
  <1>1. /\ pc = "select" /\ op' = op /\ served' = served /\ clients' = clients
        /\ health' = health /\ boot' = boot
    BY DEF TakeReload, MainOnly, registries
  <1>2. op = Idle
    BY <1>1 DEF KeepInv, PlanInv
  <1>3. CASE file = Broken
    BY <1>1, <1>2, <1>3 DEF TakeReload, Leave, KeepInv, RegistriesShape, PlanInv, BootInv, Alive
  <1>4. CASE file # Broken
    <2>1. pc' = "reload" /\ target' = file /\ plan' = Categorize(served, file)
      BY <1>4 DEF TakeReload
    <2>2. RegistriesShape'
      BY <1>1, <2>1 DEF KeepInv, RegistriesShape, Categorize
    <2>3. PlanInv'
      BY <1>1, <1>2, <2>1 DEF PlanInv, Categorize, Equals, EqualsExceptTools
    <2>4. BootInv'
      BY <1>1, <1>2, <2>1 DEF KeepInv, BootInv, Alive, Categorize
    <2> QED BY <2>2, <2>3, <2>4 DEF KeepInv
  <1> QED BY <1>3, <1>4

LEMMA KeepReloadEnds == ASSUME KeepInv, ReloadEnds PROVE KeepInv'
  <1>1. /\ pc = "reload" /\ op = Idle /\ plan = NoPlan /\ served' = target
        /\ UNCHANGED <<registries, boot, target, plan, op, failed>>
        /\ pc' = IF failed THEN "exited" ELSE "select"
    BY DEF ReloadEnds, MainOnly, Leave
  <1>2. RegistriesShape'
    BY <1>1 DEF KeepInv, RegistriesShape, registries
  <1>3. PlanInv'
    BY <1>1 DEF PlanInv
  <1>4. BootInv'
    BY <1>1 DEF KeepInv, BootInv, Alive, registries, NoPlan
  <1> QED BY <1>2, <1>3, <1>4 DEF KeepInv

\* Dropping servers from the plan, and putting one in hand that is changed and
\* that boot is not about to register.
LEMMA KeepInHand ==
  ASSUME KeepInv, pc = "reload", UNCHANGED <<served, target, pc, boot>>,
         DOMAIN health' = Servers, DOMAIN clients' = Servers,
         \A t \in Servers : boot[t] \in {"todo", "starting"} => clients'[t] = NoClient,
         DOMAIN plan' = Kinds, \A k \in Kinds : plan'[k] \subseteq plan[k],
         \A t \in plan.remove \ plan'.remove :
           boot[t] \in {"todo", "starting"} => failed',
         failed => failed',
         DOMAIN op' = {"do", "server", "proc"},
         op' # Idle => /\ target[op'.server] # served[op'.server]
                       /\ \A t \in Servers : boot[t] \in {"todo", "starting"} => op'.server # t
  PROVE  KeepInv'
  <1>1. RegistriesShape'
    BY DEF KeepInv, RegistriesShape, Kinds
  <1>2. PlanInv'
    <2>1. DOMAIN plan = Kinds
      BY DEF KeepInv, RegistriesShape, Kinds
    <2> QED BY <2>1 DEF KeepInv, PlanInv, Kinds
  <1>3. BootInv'
    BY DEF KeepInv, BootInv, Alive, Kinds
  <1> QED BY <1>1, <1>2, <1>3 DEF KeepInv

LEMMA DidDrops ==
  ASSUME KeepInv, NEW k \in Kinds, NEW s, Did(k, s)
  PROVE  /\ DOMAIN plan' = Kinds
         /\ \A j \in Kinds : plan'[j] = IF j = k THEN plan[j] \ {s} ELSE plan[j]
  BY DEF Did, KeepInv, RegistriesShape, Kinds

\* What KeepInHand asks of the server in hand, about the one in hand before.
LEMMA InHand ==
  ASSUME KeepInv, pc = "reload", op # Idle
  PROVE  /\ DOMAIN op = {"do", "server", "proc"}
         /\ target[op.server] # served[op.server]
         /\ \A t \in Servers : boot[t] \in {"todo", "starting"} => op.server # t
  BY DEF KeepInv, RegistriesShape, PlanInv, BootInv, Alive

LEMMA KeepReloadStep == ASSUME KeepInv, ReloadStep PROVE KeepInv'
  <1>1. pc = "reload" /\ UNCHANGED <<served, target, signals, pc, boot>>
    BY ReloadStepKeeps
  <1>2. /\ DOMAIN clients = Servers /\ DOMAIN health = Servers /\ DOMAIN plan = Kinds
        /\ DOMAIN op = {"do", "server", "proc"}
        /\ \A t \in Servers : boot[t] \in {"todo", "starting"} => clients[t] = NoClient
    BY <1>1 DEF KeepInv, RegistriesShape, BootInv, Alive, Kinds
  <1>3. ASSUME NEW s \in Servers, NEW k \in {"remove", "restart"}, StopServer(k, s) PROVE KeepInv'
    <2>1. CASE clients[s] = NoClient
      <3>1. failed' = TRUE /\ Did(k, s) /\ UNCHANGED <<registries, op>>
        BY <1>3, <2>1 DEF StopServer
      <3> QED BY <1>1, <1>2, <3>1, DidDrops, InHand, KeepInHand DEF registries, Kinds
    <2>2. CASE clients[s] # NoClient
      <3>1. /\ s \in plan[k]
            /\ clients' = [clients EXCEPT ![s] = NoClient]
            /\ health' = [health EXCEPT ![s] = Untracked]
            /\ op' = [do |-> "stop", server |-> s, proc |-> clients[s].proc]
            /\ UNCHANGED <<failed, plan>>
        BY <1>3, <2>2 DEF StopServer
      <3>2. target[s] # served[s] /\ boot[s] \notin {"todo", "starting"}
        BY <1>1, <1>2, <2>2, <3>1 DEF KeepInv, PlanInv, Kinds
      <3> QED BY <1>1, <1>2, <3>1, <3>2, KeepInHand
    <2> QED BY <2>1, <2>2
  \* The server in hand stays in hand, or nothing is; one that is done with is
  \* not one that boot has yet to register.
  <1>4. ASSUME op # Idle, DOMAIN op' = {"do", "server", "proc"},
               op' = Idle \/ op'.server = op.server,
               plan' = plan \/ (\E k \in Kinds : Did(k, op.server)),
               failed => failed', DOMAIN clients' = Servers, DOMAIN health' = Servers,
               \A t \in Servers \ {op.server} : clients'[t] = clients[t]
        PROVE  KeepInv'
    <2>1. /\ target[op.server] # served[op.server]
          /\ \A t \in Servers : boot[t] \in {"todo", "starting"} => op.server # t
      BY <1>1, <1>4, InHand
    <2>2. /\ DOMAIN plan' = Kinds
          /\ \A k \in Kinds : plan'[k] = plan[k] \/ plan'[k] = plan[k] \ {op.server}
      <3>1. ASSUME NEW k \in Kinds, Did(k, op.server)
            PROVE  /\ DOMAIN plan' = Kinds
                   /\ \A j \in Kinds : plan'[j] = plan[j] \/ plan'[j] = plan[j] \ {op.server}
        BY <3>1, DidDrops
      <3>2. CASE plan' = plan BY <1>2, <3>2
      <3> QED BY <1>4, <3>1, <3>2
    <2>3. \A t \in Servers : boot[t] \in {"todo", "starting"} => clients'[t] = NoClient
      BY <1>2, <1>4, <2>1
    <2>4. \A t \in plan.remove \ plan'.remove : boot[t] \in {"todo", "starting"} => failed'
      <3>1. plan'.remove = plan.remove \/ plan'.remove = plan.remove \ {op.server}
        BY <2>2 DEF Kinds
      <3>2. \A t \in plan.remove : t \in Servers
        BY <1>1 DEF KeepInv, PlanInv, RegistriesShape
      <3> QED BY <2>1, <3>1, <3>2
    <2>5. \A k \in Kinds : plan'[k] \subseteq plan[k]
      BY <2>2
    <2> QED BY <1>1, <1>4, <2>1, <2>2, <2>3, <2>4, <2>5, KeepInHand
  <1>5. CASE Stopped \/ StopTimesOut
    BY <1>2, <1>4, <1>5 DEF Stopped, StopTimesOut, registries, Kinds, Idle
  <1>6. CASE StartServer
    BY <1>2, <1>4, <1>6 DEF StartServer, registries, Idle
  <1>7. CASE CannotStart \/ InitFails
    BY <1>2, <1>4, <1>7 DEF CannotStart, InitFails, StartDone, registries, Kinds, Idle
  <1>8. CASE Initialized
    BY <1>2, <1>4, <1>8 DEF Initialized, AddClient, Idle
  <1>9. CASE Tracked
    BY <1>2, <1>4, <1>9 DEF Tracked, Track, StartDone, Kinds, Idle
  <1>10. ASSUME NEW s \in Servers, UpdateTools(s) PROVE KeepInv'
    <2>1. /\ op = Idle /\ op' = op /\ Did("update", s) /\ health' = health
          /\ clients[s] = NoClient => failed' = TRUE /\ clients' = clients
          /\ clients[s] # NoClient =>
               /\ clients' = [clients EXCEPT ![s].tools = target[s].tools]
               /\ failed' = failed
      BY <1>10 DEF UpdateTools, Turn
    <2>2. /\ DOMAIN clients' = Servers
          /\ \A t \in Servers : boot[t] \in {"todo", "starting"} => clients'[t] = NoClient
      BY <1>2, <2>1
    <2>3. /\ DOMAIN plan' = Kinds /\ \A k \in Kinds : plan'[k] \subseteq plan[k]
          /\ plan'.remove = plan.remove
      BY <2>1, DidDrops DEF Kinds
    <2>4. failed => failed'
      BY <2>1
    <2> QED BY <1>1, <1>2, <2>1, <2>2, <2>3, <2>4, KeepInHand
  <1>11. ASSUME NEW s \in Servers, AddServer(s) PROVE KeepInv'
    <2>1. /\ s \in plan.add /\ op' = [do |-> "start", server |-> s, proc |-> 0]
          /\ UNCHANGED <<registries, plan, failed>>
      BY <1>11 DEF AddServer
    <2>2. /\ target[s] # served[s] /\ served[s] = Absent
      BY <1>1, <1>2, <2>1 DEF KeepInv, PlanInv, Kinds
    <2>3. \A t \in Servers : boot[t] \in {"todo", "starting"} => t # s
      BY <1>1, <2>2 DEF KeepInv, BootInv, Alive
    <2> QED BY <1>1, <1>2, <2>1, <2>2, <2>3, KeepInHand DEF registries
  <1> QED BY <1>3, <1>5, <1>6, <1>7, <1>8, <1>9, <1>10, <1>11 DEF ReloadStep

LEMMA KeepStep == ASSUME KeepInv, [Next]_vars PROVE KeepInv'
  <1> DOMAIN health = Servers BY DEF KeepInv, RegistriesShape
  <1>1. CASE Booting BY <1>1, KeepBooting
  <1>2. CASE Pinging
    <2>1. DOMAIN health' = DOMAIN health
      BY <1>2 DEF Pinging, PingLookup, PingExpired, PingAnswered, PingFails, PingRecorded, RoundEnds, Tick,
                  Interrupted, ApiFails
    <2> QED BY <1>2, <2>1, PingingKeeps, KeepUnchanged
  <1>3. CASE Closing \/ Asking
    BY <1>3, ClosingKeeps, AskingKeeps, KeepUnchanged DEF registries
  <1>4. CASE TakeReload BY <1>4, KeepTakeReload
  <1>5. CASE ReloadStep BY <1>5, KeepReloadStep
  <1>6. CASE ReloadEnds BY <1>6, KeepReloadEnds
  <1>7. CASE NoticeShutdown \/ Return
    <2>1. /\ UNCHANGED <<registries, boot, reload>> /\ pc # "reload"
          /\ pc' # "reload"
      BY <1>7 DEF NoticeShutdown, Return, MainOnly, Leave
    <2> QED BY <1>7, <2>1 DEF KeepInv, RegistriesShape, PlanInv, BootInv, Alive, registries,
                              reload, NoticeShutdown, Return, Leave
  <1>8. CASE Exited \/ UNCHANGED vars
    BY <1>8, KeepUnchanged DEF Exited, vars, registries, manager
  <1> QED BY <1>1, <1>2, <1>3, <1>4, <1>5, <1>6, <1>7, <1>8, MainSteps DEF Next

LEMMA KeepInit == ASSUME Init PROVE KeepInv
  <1>1. RegistriesShape
    BY DEF Init, RegistriesShape, NoPlan, Idle
  <1> QED BY <1>1 DEF Init, KeepInv, PlanInv, BootInv

\* A server's configuration changes in the reload that disturbs it.
Disturbed(s) ==
  \/ clients[s] # NoClient /\ clients'[s] # clients[s]
  \/ health[s] # Untracked /\ health'[s] = Untracked

LEMMA OnlyChangedDisturbed ==
  ASSUME KeepInv, [Next]_vars, NEW s \in Servers, Disturbed(s)
  PROVE  pc = "reload" /\ target[s] # served[s]
  <1>0. /\ DOMAIN clients = Servers /\ DOMAIN health = Servers
        /\ DOMAIN plan = Kinds
    BY DEF KeepInv, RegistriesShape, Kinds
  <1>1. CASE Booting
    <2>1. ASSUME NEW t \in Servers, BootSpawn(t) \/ BootCannotSpawn(t) \/ BootInitFails(t) \/ BootEnds
          PROVE  FALSE
      BY <2>1 DEF BootSpawn, BootCannotSpawn, BootInitFails, BootEnds, registries, Disturbed
    <2>2. ASSUME NEW t \in Servers, BootInitialized(t) PROVE FALSE
      BY <1>0, <2>2 DEF BootInitialized, AddClient, KeepInv, BootInv, Disturbed
    <2>3. ASSUME NEW t \in Servers, BootTracked(t) PROVE FALSE
      BY <1>0, <2>3 DEF BootTracked, Track, Disturbed
    <2> QED BY <1>1, <2>1, <2>2, <2>3 DEF Booting
  <1>2. CASE Pinging
    <2>1. ASSUME NEW t, NEW i, NEW st \in {"ok", "bad"}, PingRecorded(t, i, st) PROVE FALSE
      <3>1. [status |-> st, of |-> i] # Untracked
        BY DEF Untracked
      <3> QED BY <1>0, <2>1, <3>1 DEF PingRecorded, PingOnly, Disturbed
    <2>2. ASSUME NEW t \in Servers, \/ PingLookup(t) \/ PingExpired(t) \/ RoundEnds
                                      \/ Tick \/ Interrupted \/ ApiFails
          PROVE  FALSE
      BY <2>2 DEF PingLookup, PingExpired, RoundEnds, Tick, Interrupted, ApiFails, PingOnly, Disturbed
    <2> QED BY <1>2, <2>1, <2>2 DEF Pinging, PingAnswered, PingFails
  <1>3. CASE Closing \/ Asking
    BY <1>3, ClosingKeeps, AskingKeeps DEF registries, Disturbed
  <1>4. CASE TakeReload \/ ReloadEnds \/ NoticeShutdown \/ Return
    BY <1>4 DEF TakeReload, ReloadEnds, NoticeShutdown, Return, registries, Disturbed
  <1>5. CASE ReloadStep
    <2>1. pc = "reload"
      BY <1>5, ReloadStepKeeps
    <2>2. \A k \in Kinds : \A t \in plan[k] : target[t] # served[t]
      BY <1>0, <2>1 DEF KeepInv, PlanInv
    <2>3. ASSUME NEW t \in Servers, NEW k \in {"remove", "restart"}, StopServer(k, t)
          PROVE  target[s] # served[s]
      <3>1. t \in plan[k] /\ (s # t => clients'[s] = clients[s] /\ health'[s] = health[s])
        BY <1>0, <2>3 DEF StopServer, registries
      <3>2. s = t
        BY <3>1 DEF Disturbed
      <3> QED BY <2>2, <3>1, <3>2 DEF Kinds
    <2>4. ASSUME NEW t \in Servers, UpdateTools(t) PROVE target[s] # served[s]
      <3>1. /\ t \in plan.update /\ health' = health
            /\ s # t => clients'[s] = clients[s]
        BY <1>0, <2>4 DEF UpdateTools
      <3>2. s = t
        BY <3>1 DEF Disturbed
      <3> QED BY <2>2, <3>1, <3>2 DEF Kinds
    <2>5. CASE Initialized
      <3>1. s # op.server => clients'[s] = clients[s] /\ health' = health
        BY <1>0, <2>5 DEF Initialized, AddClient
      <3>2. s = op.server /\ op # Idle
        BY <2>5, <3>1 DEF Initialized, Disturbed, Idle
      <3> QED BY <2>1, <3>2, InHand
    <2>6. CASE Tracked
      BY <1>0, <2>6 DEF Tracked, Track, Disturbed
    <2>7. CASE \/ Stopped \/ StopTimesOut \/ StartServer \/ CannotStart \/ InitFails
               \/ \E t \in Servers : AddServer(t)
      BY <2>7 DEF Stopped, StopTimesOut, StartServer, CannotStart, InitFails, AddServer,
                  registries, Disturbed
    <2> QED BY <1>5, <2>1, <2>3, <2>4, <2>5, <2>6, <2>7 DEF ReloadStep
  <1>6. CASE Exited \/ UNCHANGED vars
    BY <1>6 DEF Exited, vars, registries, Disturbed
  <1> QED BY <1>1, <1>2, <1>3, <1>4, <1>5, <1>6, MainSteps DEF Next

\* A registered server keeps its process, its tools and its health record
\* through everything but a reload that changes its configuration
\* (ReloadServers, startMCPServer, pingServer, closeAllClients).
THEOREM UnchangedKept == Spec => UnchangedKeepsClient
  <1>1. Init => KeepInv BY KeepInit
  <1>2. KeepInv /\ [Next]_vars => KeepInv' BY KeepStep
  <1>3. KeepInv /\ [Next]_vars =>
          [\A s \in Servers : Disturbed(s) => pc = "reload" /\ target[s] # served[s]]_vars
    BY OnlyChangedDisturbed
  <1>4. Spec => [][\A s \in Servers : Disturbed(s) => pc = "reload" /\ target[s] # served[s]]_vars
    BY <1>1, <1>2, <1>3, PTL DEF Spec
  <1> QED BY <1>4 DEF UnchangedKeepsClient, Disturbed

-----------------------------------------------------------------------------
(***************************************************************************)
(* The processes of one server.                                            *)
(***************************************************************************)
Entries == {c[s] : c \in Configs, s \in Servers}
Process == [server : Servers, entry : Entries, by : {"boot", "reload"},
            state : {"starting", "up", "leaked", "closed"}]

NoneOpen(s) == \A i \in DOMAIN procs : procs[i].server = s => procs[i].state = "closed"
OnlyOpen(s, p) ==
  /\ p \in DOMAIN procs /\ procs[p].server = s
  /\ \A i \in DOMAIN procs : procs[i].server = s /\ procs[i].state # "closed" => i = p

\* The reload has the server in hand; boot has not registered it yet.
Busy(s)     == op.do # "idle" /\ op.server = s
Awaiting(s) == boot[s] \in {"todo", "starting"}

\* The client of s is its only process that may run, and it has started.
ClientInv(s) ==
  clients[s] # NoClient =>
    /\ clients[s] = [proc |-> clients[s].proc, tools |-> clients[s].tools]
    /\ OnlyOpen(s, clients[s].proc) /\ procs[clients[s].proc].state # "starting"
    /\ manage \notin {"closed", "ended"} => procs[clients[s].proc].state = "up"
    /\ health[s] # Untracked \/ boot[s] = "added" \/ (op.do = "track" /\ op.server = s)

\* What boot has started of s.
BootedInv(s) ==
  /\ boot[s] = "todo" => NoneOpen(s)
  /\ boot[s] \in {"none", "todo"} => \A i \in DOMAIN procs : procs[i].server = s => procs[i].by # "boot"
  /\ boot[s] = "starting" =>
       \E p \in DOMAIN procs : /\ OnlyOpen(s, p) /\ procs[p].by = "boot"
                               /\ procs[p].state = "starting" /\ procs[p].entry = first[s]
  /\ \A i, j \in DOMAIN procs :
       procs[i].server = s /\ procs[i].by = "boot" /\ procs[j].server = s /\ procs[j].by = "boot" => i = j

\* What the reload has in hand of s.
HandInv(s) ==
  Busy(s) =>
    /\ op.do = "stop" => /\ clients[s] = NoClient /\ s \in plan.remove \cup plan.restart
                         /\ OnlyOpen(s, op.proc) /\ procs[op.proc].state # "starting"
    /\ op.do # "stop" => s \in plan.restart \cup plan.add
    /\ op.do = "start" => clients[s] = NoClient /\ NoneOpen(s)
    /\ op.do = "init" => /\ clients[s] = NoClient /\ OnlyOpen(s, op.proc)
                         /\ procs[op.proc].state = "starting" /\ procs[op.proc].entry = target[s]
    /\ op.do = "track" => /\ clients[s] # NoClient /\ clients[s].tools = target[s].tools
                          /\ procs[clients[s].proc].entry.conf = target[s].conf

\* Every process of s that has not ended or been given up has its owner, and no
\* two of them run at once.
OwnedInv(s) ==
  /\ \A i \in DOMAIN procs :
       procs[i].server = s =>
         /\ procs[i].state = "up" =>
              (clients[s] # NoClient /\ clients[s].proc = i) \/ (op.do = "stop" /\ Busy(s) /\ op.proc = i)
         /\ procs[i].state = "starting" => boot[s] = "starting" \/ (op.do = "init" /\ Busy(s))
  /\ \A i, j \in DOMAIN procs :
       /\ procs[i].server = s /\ procs[i].state # "closed"
       /\ procs[j].server = s /\ procs[j].state # "closed"
       => i = j

\* A server that boot could not start is not started later: a reload that is to
\* change it fails.
FailedInv(s) ==
  pc # "exited" /\ boot[s] = "failed" =>
    /\ clients[s] = NoClient /\ served[s] # Absent /\ ~Busy(s)
    /\ pc = "reload" => target[s] # Absent \/ s \in plan.remove \/ failed

\* s is served as the entry e says.
Serves(s, e) ==
  /\ clients[s] # NoClient /\ clients[s].tools = e.tools
  /\ procs[clients[s].proc].entry.conf = e.conf

\* Between reloads a server that is not configured has no process, and one that
\* is configured is served so, or will be when boot gets to it, or boot failed.
ServedInv(s) ==
  pc \in {"select", "waiting"} =>
    /\ served[s] = Absent => clients[s] = NoClient /\ NoneOpen(s)
    /\ served[s] # Absent => \/ Awaiting(s) /\ Equals(first[s], served[s])
                             \/ boot[s] = "failed"
                             \/ Serves(s, served[s])

\* During one, the same of the new configuration but for what is still planned.
PlannedInv(s) ==
  pc = "reload" =>
    /\ s \in plan.add => served[s] = Absent /\ target[s] # Absent
    /\ s \in plan.remove => served[s] # Absent /\ target[s] = Absent
    /\ s \in plan.restart => served[s] # Absent /\ target[s] # Absent
    /\ s \in plan.update =>
         /\ served[s] # Absent /\ target[s] # Absent
         /\ clients[s] # NoClient => procs[clients[s].proc].entry.conf = target[s].conf
         /\ Awaiting(s) => first[s].conf = target[s].conf
         /\ s \notin plan.restart
    /\ s \in plan.add /\ ~Busy(s) => clients[s] = NoClient /\ NoneOpen(s)
    /\ target[s] = Absent /\ ~failed => s \in plan.remove \/ (clients[s] = NoClient /\ NoneOpen(s))
    /\ target[s] # Absent /\ ~failed => \/ s \in plan.update \cup plan.restart \cup plan.add
                                        \/ Awaiting(s) /\ Equals(first[s], target[s])
                                        \/ boot[s] = "failed"
                                        \/ Serves(s, target[s])

ServerInv(s) ==
  /\ ClientInv(s) /\ BootedInv(s) /\ HandInv(s) /\ OwnedInv(s)
  /\ FailedInv(s) /\ ServedInv(s) /\ PlannedInv(s)

-----------------------------------------------------------------------------
(***************************************************************************)
(* The daemon.                                                             *)
(***************************************************************************)
ShapeInv ==
  /\ procs \in Seq(Process)
  /\ first \in Configs /\ served \in Configs /\ target \in Configs /\ file \in Configs \cup {Broken}
  /\ op.do \in {"idle", "stop", "start", "init", "track"}
  /\ op.do # "idle" => pc = "reload" /\ op.server \in Servers
  /\ op.do = "idle" => op = Idle
  /\ failed \in BOOLEAN
  /\ pc \in {"select", "reload", "waiting", "exited"}

\* Where StartAndManage is, and what it has closed.
ManageInv ==
  /\ manage \in {"boot", "firstping", "loop", "tick", "closing", "closed", "ended"}
  /\ manage # "boot" => \A s \in Servers : boot[s] \in {"none", "done", "failed"}
  /\ manage \in {"firstping", "loop", "tick"} => \A s \in Servers : boot[s] # "failed"
  /\ closing # {} => manage = "closed"
  /\ \A i \in closing : i \in DOMAIN procs /\ procs[i].state # "starting"
  /\ manage \in {"closed", "ended"} /\ "late" \notin seen =>
       /\ pc # "reload"
       /\ \A i \in DOMAIN procs : procs[i].state \in {"closed", "leaked"} \/ i \in closing
  /\ pc = "exited" <=> exit # "no"
  /\ exit \in {"graceful", "manager"} => manage = "ended"

\* What can end the daemon has happened.
Cause == seen \cap {"config", "start", "stop", "api", "early", "expired"} # {}

\* As long as nothing went wrong, the servers that a reload is to stop or to
\* update are registered.
PlanHasClients ==
  pc = "reload" /\ ~Cause =>
    \A s \in plan.update \cup plan.restart \cup plan.remove : Busy(s) \/ clients[s] # NoClient

\* The first round of pings, if no reload came in between.
RoundInv ==
  /\ manage = "boot" => listed = {} /\ sent = {} /\ ~pingError
  /\ manage \in {"boot", "firstping"} /\ "early" \notin seen =>
       /\ pingError => "expired" \in seen
       /\ \A s \in Servers : boot[s] # "none" => health[s] # Untracked
       /\ \A s \in Servers : clients[s] # NoClient => boot[s] # "none"
       /\ \A s \in listed : clients[s] # NoClient
       /\ \A p \in sent : p[1] \in Servers /\ health[p[1]] # Untracked

EndsInv ==
  /\ bootError => Cause
  /\ exit \in {"manager", "reload"} => Cause
  /\ \A s \in Servers : boot[s] = "failed" => Cause
  /\ pc = "reload" /\ failed => Cause
  /\ pc = "reload" /\ manage \in {"boot", "firstping"} => "early" \in seen

CauseInv == EndsInv /\ PlanHasClients /\ RoundInv

ServersInv == \A s \in Servers : ServerInv(s)

DaemonInv == KeepInv /\ ShapeInv /\ ServersInv /\ ManageInv /\ CauseInv

-----------------------------------------------------------------------------
(***************************************************************************)
(* Steps that leave a server alone.                                        *)
(***************************************************************************)
KeptProcs(s) ==
  /\ \A i \in DOMAIN procs' : procs'[i].server = s => i \in DOMAIN procs /\ procs'[i] = procs[i]
  /\ \A i \in DOMAIN procs : procs[i].server = s => i \in DOMAIN procs' /\ procs'[i] = procs[i]

\* Its processes, its client and what boot and reload are about to do with it.
Untouched(s) ==
  /\ KeptProcs(s) /\ clients'[s] = clients[s] /\ boot'[s] = boot[s] /\ first' = first
  /\ Busy(s)' <=> Busy(s)
  /\ Busy(s) => op'.do = op.do /\ op'.proc = op.proc
  /\ health[s] # Untracked => health'[s] # Untracked
  /\ manage \in {"closed", "ended"} => manage' \in {"closed", "ended"}
  /\ pc' = pc /\ served' = served /\ target' = target /\ failed' \in {failed, TRUE}
  /\ \A k \in Kinds : s \in plan'[k] <=> s \in plan[k]

LEMMA KeptOpen ==
  ASSUME NEW s, KeptProcs(s)
  PROVE  /\ NoneOpen(s) => NoneOpen(s)'
         /\ \A p : OnlyOpen(s, p) => OnlyOpen(s, p)' /\ procs'[p] = procs[p]
  BY DEF KeptProcs, NoneOpen, OnlyOpen

LEMMA KeptServer ==
  ASSUME NEW s, ServerInv(s), Untouched(s) PROVE ServerInv(s)'
  <1>1. /\ NoneOpen(s) => NoneOpen(s)'
        /\ \A p : OnlyOpen(s, p) => OnlyOpen(s, p)' /\ procs'[p] = procs[p]
    BY KeptOpen DEF Untouched
  <1>2. clients[s] # NoClient =>
          /\ OnlyOpen(s, clients[s].proc) /\ OnlyOpen(s, clients[s].proc)'
          /\ procs'[clients[s].proc] = procs[clients[s].proc]
    BY <1>1 DEF ServerInv, ClientInv, Untouched, OnlyOpen
  <1>3. ClientInv(s)'
    BY <1>2 DEF ServerInv, ClientInv, Untouched, Busy
  <1>4. BootedInv(s)'
    <2>1. boot[s] \in {"none", "todo"} => \A i \in DOMAIN procs' : procs'[i].server = s => procs'[i].by # "boot"
      BY DEF ServerInv, BootedInv, Untouched, KeptProcs
    <2>2. \A i, j \in DOMAIN procs' :
            procs'[i].server = s /\ procs'[i].by = "boot" /\ procs'[j].server = s /\ procs'[j].by = "boot" => i = j
      BY DEF ServerInv, BootedInv, Untouched, KeptProcs
    <2>3. boot[s] = "starting" =>
            \E p \in DOMAIN procs' : /\ OnlyOpen(s, p)' /\ procs'[p].by = "boot"
                                     /\ procs'[p].state = "starting" /\ procs'[p].entry = first[s]
      BY <1>1 DEF ServerInv, BootedInv, OnlyOpen
    <2> QED BY <1>1, <2>1, <2>2, <2>3 DEF ServerInv, BootedInv, Untouched
  <1>5. HandInv(s)'
    <2>1. CASE Busy(s)
      <3>1. op'.do = op.do /\ op'.proc = op.proc /\ clients'[s] = clients[s] /\ target' = target
            /\ \A k \in Kinds : s \in plan'[k] <=> s \in plan[k]
        BY <2>1 DEF Untouched
      <3> QED BY <1>1, <1>2, <2>1, <3>1 DEF ServerInv, HandInv, OnlyOpen, Kinds
    <2>2. CASE ~Busy(s)
      BY <2>2 DEF HandInv, Untouched
    <2> QED BY <2>1, <2>2
  <1>6. OwnedInv(s)'
    BY DEF ServerInv, OwnedInv, Untouched, KeptProcs
  <1>7. Awaiting(s)' = Awaiting(s) /\ \A e : Serves(s, e) => Serves(s, e)'
    BY <1>2 DEF Awaiting, Serves, Untouched
  <1>8. ServedInv(s)'
    BY <1>1, <1>7 DEF ServerInv, ServedInv, Untouched
  <1>9. PlannedInv(s)'
    <2>1. /\ s \in plan'.add <=> s \in plan.add
          /\ s \in plan'.remove <=> s \in plan.remove
          /\ s \in plan'.restart <=> s \in plan.restart
          /\ s \in plan'.update <=> s \in plan.update
      BY DEF Untouched, Kinds
    <2>2. /\ pc' = pc /\ served' = served /\ target' = target /\ first' = first /\ failed' \in {failed, TRUE}
          /\ clients'[s] = clients[s] /\ boot'[s] = boot[s] /\ (Busy(s)' <=> Busy(s))
      BY DEF Untouched
    <2>3. pc = "reload" => PlannedInv(s)
      BY DEF ServerInv
    <2>4. clients[s] # NoClient => procs'[clients[s].proc] = procs[clients[s].proc]
      BY <1>2
    <2>5. pc = "reload" => (~failed' => ~failed)
      BY <2>2
    <2> QED BY <1>1, <1>7, <2>1, <2>2, <2>3, <2>4, <2>5 DEF PlannedInv
  <1>10. FailedInv(s)'
    <2>1. s \in plan'.remove <=> s \in plan.remove
      BY DEF Untouched, Kinds
    <2>2. FailedInv(s)
      BY DEF ServerInv
    <2>3. /\ pc' = pc /\ served' = served /\ target' = target
          /\ clients'[s] = clients[s] /\ boot'[s] = boot[s] /\ (Busy(s)' <=> Busy(s))
      BY DEF Untouched
    <2>4. failed => failed'
      BY DEF Untouched
    <2> QED BY <2>1, <2>2, <2>3, <2>4 DEF FailedInv
  <1> QED BY <1>3, <1>4, <1>5, <1>6, <1>8, <1>9, <1>10 DEF ServerInv

\* A process is started.
LEMMA SpawnStep ==
  ASSUME ShapeInv, NEW s \in Servers, NEW e \in Entries, NEW by \in {"boot", "reload"}, Spawn(s, e, by)
  PROVE  LET p == Len(procs) + 1 IN
         /\ procs' \in Seq(Process) /\ DOMAIN procs' = DOMAIN procs \cup {p} /\ p \notin DOMAIN procs
         /\ procs'[p] = [server |-> s, entry |-> e, by |-> by, state |-> "starting"]
         /\ \A i \in DOMAIN procs : procs'[i] = procs[i]
         /\ \A t \in Servers \ {s} : KeptProcs(t)
  <1> DEFINE p == Len(procs) + 1
             new == [server |-> s, entry |-> e, by |-> by, state |-> "starting"]
  <1>1. procs \in Seq(Process) /\ new \in Process /\ procs' = Append(procs, new)
    BY DEF ShapeInv, Process, Spawn
  <1>2. /\ procs' \in Seq(Process) /\ Len(procs') = p /\ p \in Nat
        /\ procs'[p] = new /\ \A i \in 1..Len(procs) : procs'[i] = procs[i]
    BY <1>1
  <1>3. DOMAIN procs = 1..Len(procs) /\ DOMAIN procs' = 1..p /\ Len(procs) \in Nat
    BY <1>1, <1>2
  <1>4. DOMAIN procs' = DOMAIN procs \cup {p} /\ p \notin DOMAIN procs
    BY <1>3
  <1>5. new.server = s
    OBVIOUS
  <1> HIDE DEF new
  <1>6. \A t \in Servers \ {s} : KeptProcs(t)
    BY <1>2, <1>3, <1>4, <1>5 DEF KeptProcs
  <1> QED BY <1>2, <1>3, <1>4, <1>6 DEF new

\* The state of a process changes.
LEMMA StateStep ==
  ASSUME ShapeInv, NEW i \in DOMAIN procs, NEW st \in {"starting", "up", "leaked", "closed"},
         procs' = SetState(i, st)
  PROVE  /\ procs' \in Seq(Process) /\ DOMAIN procs' = DOMAIN procs
         /\ procs'[i].state = st /\ procs'[i].server = procs[i].server
         /\ procs'[i].entry = procs[i].entry /\ procs'[i].by = procs[i].by
         /\ \A j \in DOMAIN procs : j # i => procs'[j] = procs[j]
         /\ \A j \in DOMAIN procs : procs'[j].server = procs[j].server
                                    /\ procs'[j].by = procs[j].by /\ procs'[j].entry = procs[j].entry
         /\ \A t \in Servers \ {procs[i].server} : KeptProcs(t)
  <1>1. procs \in Seq(Process) /\ i \in 1..Len(procs) /\ procs[i] \in Process
    BY DEF ShapeInv
  <1>2. procs' = [procs EXCEPT ![i] = [procs[i] EXCEPT !.state = st]]
    BY DEF SetState
  <1>3. [procs[i] EXCEPT !.state = st] \in Process
    BY <1>1 DEF Process
  <1>4. procs' \in Seq(Process) /\ DOMAIN procs' = DOMAIN procs
    BY <1>1, <1>2, <1>3, ExceptSeq
  <1>5. \A j \in DOMAIN procs : procs'[j] = IF j = i THEN [procs[i] EXCEPT !.state = st] ELSE procs[j]
    BY <1>2
  <1>6. /\ procs'[i].state = st /\ procs'[i].server = procs[i].server
        /\ procs'[i].entry = procs[i].entry /\ procs'[i].by = procs[i].by
    BY <1>1, <1>5 DEF Process
  <1>7. \A t \in Servers \ {procs[i].server} : KeptProcs(t)
    BY <1>4, <1>5, <1>6 DEF KeptProcs
  <1> QED BY <1>4, <1>5, <1>6, <1>7

LEMMA OthersUntouched ==
  ASSUME ServersInv, NEW s \in Servers, ServerInv(s)', \A t \in Servers \ {s} : Untouched(t)
  PROVE  ServersInv'
  BY KeptServer DEF ServersInv

LEMMA AllUntouched ==
  ASSUME ServersInv, \A t \in Servers : Untouched(t) PROVE ServersInv'
  BY KeptServer DEF ServersInv

-----------------------------------------------------------------------------
(***************************************************************************)
(* The boot.                                                               *)
(***************************************************************************)
LEMMA AwaitingFacts ==
  ASSUME KeepInv, ShapeInv, Alive, NEW s \in Servers, Awaiting(s)
  PROVE  /\ clients[s] = NoClient /\ served[s] # Absent /\ ~Busy(s)
         /\ pc = "reload" => target[s] # Absent \/ s \in plan.remove \/ failed
  <1>1. /\ clients[s] = NoClient /\ served[s] # Absent
        /\ pc = "reload" => /\ target[s] # Absent \/ s \in plan.remove \/ failed
                            /\ op # Idle => op.server # s
    BY DEF KeepInv, BootInv, Awaiting
  <1>2. op.do # "idle" => pc = "reload" /\ op # Idle
    BY DEF ShapeInv, Idle
  <1> QED BY <1>1, <1>2 DEF Busy

\* A server that boot has come to: to its start, its registration, its failure.
LEMMA AwaitedPlan ==
  ASSUME DaemonInv, Alive, NEW s \in Servers, Awaiting(s), UNCHANGED <<reload, pc, first>>,
         \/ Awaiting(s)' /\ clients'[s] = NoClient
         \/ boot'[s] = "failed" /\ clients'[s] = NoClient
         \/ boot'[s] = "added" /\ Serves(s, first[s])'
  PROVE  FailedInv(s)' /\ ServedInv(s)' /\ PlannedInv(s)' /\ HandInv(s)'
  <1>1. /\ clients[s] = NoClient /\ served[s] # Absent /\ ~Busy(s)
        /\ pc = "reload" => target[s] # Absent \/ s \in plan.remove \/ failed
    BY AwaitingFacts DEF DaemonInv
  <1>2. ServerInv(s) /\ pc' = pc /\ served' = served /\ target' = target /\ plan' = plan /\ op' = op
        /\ failed' = failed /\ first' = first
    BY DEF DaemonInv, ServersInv, reload
  <1>3. ~Busy(s)'
    BY <1>1, <1>2 DEF Busy
  <1>4. \A e : ~Serves(s, e)
    BY <1>1 DEF Serves
  <1>5. boot[s] # "failed" /\ (boot'[s] \in {"failed", "added"} => ~Awaiting(s)')
    BY DEF Awaiting
  <1>6. HandInv(s)'
    BY <1>3 DEF HandInv
  <1>7. \A e : Equals(first[s], e) /\ Serves(s, first[s])' => Serves(s, e)'
    BY DEF Equals, Serves
  <1>8. Serves(s, first[s])' => procs'[clients'[s].proc].entry.conf = first[s].conf
    BY <1>2 DEF Serves
  <1>9. ServedInv(s)'
    <2>1. pc \in {"select", "waiting"} => Equals(first[s], served[s])
      BY <1>1, <1>2, <1>4, <1>5 DEF ServerInv, ServedInv
    <2> QED BY <1>1, <1>2, <1>5, <1>7, <2>1 DEF ServedInv
  <1>10. PlannedInv(s)'
    <2> SUFFICES ASSUME pc = "reload" PROVE PlannedInv(s)'
      BY <1>2 DEF PlannedInv
    <2>1. PlannedInv(s)
      BY <1>2 DEF ServerInv
    <2>2. s \notin plan.add
      BY <1>1, <2>1 DEF PlannedInv
    <2>3. target[s] = Absent /\ ~failed => s \in plan.remove
      BY <1>1
    <2>4. s \in plan.update =>
            /\ served[s] # Absent /\ target[s] # Absent /\ s \notin plan.restart
            /\ clients'[s] # NoClient => procs'[clients'[s].proc].entry.conf = target[s].conf
            /\ first[s].conf = target[s].conf
      BY <1>2, <1>8, <2>1 DEF PlannedInv
    <2>5. target[s] # Absent /\ ~failed => \/ s \in plan.update \cup plan.restart \cup plan.add
                                           \/ Equals(first[s], target[s])
      BY <1>4, <1>5, <2>1 DEF PlannedInv
    <2>6. target[s] # Absent /\ ~failed => \/ s \in plan.update \cup plan.restart \cup plan.add
                                           \/ Awaiting(s)' /\ Equals(first[s], target[s])
                                           \/ boot'[s] = "failed"
                                           \/ Serves(s, target[s])'
      BY <1>2, <1>7, <2>5
    <2> QED BY <1>2, <2>1, <2>2, <2>3, <2>4, <2>6 DEF PlannedInv
  <1>11. FailedInv(s)'
    BY <1>1, <1>2, <1>3, <1>5 DEF FailedInv, Awaiting
  <1> QED BY <1>6, <1>9, <1>10, <1>11

LEMMA FirstEntry == ASSUME ShapeInv, NEW s \in Servers PROVE first[s] \in Entries /\ target[s] \in Entries
  BY DEF ShapeInv, Entries

LEMMA BootSpawnStep == ASSUME DaemonInv, NEW s \in Servers, BootSpawn(s) PROVE ServersInv'
  <1>1. /\ KeepInv /\ ShapeInv /\ ServersInv /\ ServerInv(s) /\ DOMAIN boot = Servers
    BY DEF DaemonInv, ServersInv, KeepInv, RegistriesShape
  <1>2. /\ Alive /\ boot[s] = "todo" /\ Spawn(s, first[s], "boot") /\ boot' = [boot EXCEPT ![s] = "starting"]
        /\ UNCHANGED <<clients, health, manage, first, reload, pc>>
    BY DEF BootSpawn, BootOnly, registries, world
  <1>p. PICK p : p = Len(procs) + 1
    OBVIOUS
  <1>3. /\ DOMAIN procs' = DOMAIN procs \cup {p} /\ p \notin DOMAIN procs
        /\ procs'[p] = [server |-> s, entry |-> first[s], by |-> "boot", state |-> "starting"]
        /\ \A i \in DOMAIN procs : procs'[i] = procs[i]
        /\ \A t \in Servers \ {s} : KeptProcs(t)
    BY <1>1, <1>2, <1>p, SpawnStep, FirstEntry
  <1>4. /\ procs'[p].server = s /\ procs'[p].entry = first[s] /\ procs'[p].by = "boot"
        /\ procs'[p].state = "starting"
    BY <1>3
  <1>5. Awaiting(s) /\ clients[s] = NoClient /\ NoneOpen(s) /\ boot'[s] = "starting" /\ Awaiting(s)'
        /\ \A i \in DOMAIN procs : procs[i].server = s => procs[i].by # "boot"
    BY <1>1, <1>2, AwaitingFacts DEF Awaiting, ServerInv, BootedInv
  <1>6. \A i \in DOMAIN procs' : procs'[i].server = s /\ procs'[i].state # "closed" => i = p
    BY <1>3, <1>5 DEF NoneOpen
  <1>7. OnlyOpen(s, p)'
    BY <1>3, <1>4, <1>6 DEF OnlyOpen
  <1>8. ClientInv(s)'
    BY <1>2, <1>5 DEF ClientInv
  <1>9. BootedInv(s)'
    <2>1. \A i \in DOMAIN procs' : procs'[i].server = s /\ procs'[i].by = "boot" => i = p
      BY <1>3, <1>5
    <2> QED BY <1>2, <1>3, <1>4, <1>5, <1>7, <2>1 DEF BootedInv
  <1>10. OwnedInv(s)'
    <2>1. \A i \in DOMAIN procs' : procs'[i].server = s => procs'[i].state # "up"
      BY <1>4, <1>6
    <2> QED BY <1>5, <1>6, <2>1 DEF OwnedInv
  <1>11. FailedInv(s)' /\ ServedInv(s)' /\ PlannedInv(s)' /\ HandInv(s)'
    BY <1>2, <1>5, AwaitedPlan
  <1>12. \A t \in Servers \ {s} : Untouched(t)
    BY <1>1, <1>2, <1>3 DEF Untouched, Busy, reload
  <1> QED BY <1>1, <1>8, <1>9, <1>10, <1>11, <1>12, OthersUntouched DEF ServerInv

LEMMA BootCannotSpawnStep == ASSUME DaemonInv, NEW s \in Servers, BootCannotSpawn(s) PROVE ServersInv'
  <1>1. /\ KeepInv /\ ShapeInv /\ ServersInv /\ ServerInv(s) /\ DOMAIN boot = Servers
    BY DEF DaemonInv, ServersInv, KeepInv, RegistriesShape
  <1>2. /\ Alive /\ boot[s] = "todo" /\ boot' = [boot EXCEPT ![s] = "failed"]
        /\ UNCHANGED <<procs, clients, health, manage, first, reload, pc>>
    BY DEF BootCannotSpawn, BootOnly, registries, world
  <1>3. Awaiting(s) /\ clients[s] = NoClient /\ boot'[s] = "failed"
    BY <1>1, <1>2, AwaitingFacts DEF Awaiting
  <1>4. ClientInv(s)'
    BY <1>2, <1>3 DEF ClientInv
  <1>5. BootedInv(s)' /\ OwnedInv(s)'
    BY <1>1, <1>2, <1>3 DEF ServerInv, BootedInv, OwnedInv, NoneOpen, Busy, reload
  <1>6. FailedInv(s)' /\ ServedInv(s)' /\ PlannedInv(s)' /\ HandInv(s)'
    BY <1>2, <1>3, AwaitedPlan
  <1>7. \A t \in Servers \ {s} : Untouched(t)
    BY <1>1, <1>2 DEF Untouched, Busy, reload, KeptProcs
  <1> QED BY <1>1, <1>4, <1>5, <1>6, <1>7, OthersUntouched DEF ServerInv

\* The process that boot waits for.
LEMMA BootProcIs ==
  ASSUME DaemonInv, Alive, NEW s \in Servers, boot[s] = "starting"
  PROVE  LET p == BootProc(s) IN
         /\ p \in DOMAIN procs /\ OnlyOpen(s, p) /\ procs[p].server = s /\ procs[p].state = "starting"
         /\ procs[p].by = "boot" /\ procs[p].entry = first[s]
         /\ Awaiting(s) /\ clients[s] = NoClient /\ ~Busy(s)
  <1>1. BootedInv(s)
    BY DEF DaemonInv, ServersInv, ServerInv
  <1>2. PICK p \in DOMAIN procs : /\ OnlyOpen(s, p) /\ procs[p].by = "boot"
                                  /\ procs[p].state = "starting" /\ procs[p].entry = first[s]
    BY <1>1 DEF BootedInv
  <1>3. procs[p].server = s
    BY <1>2 DEF OnlyOpen
  <1>4. BootProc(s) \in DOMAIN procs /\ procs[BootProc(s)].server = s /\ procs[BootProc(s)].by = "boot"
    BY <1>2, <1>3 DEF BootProc
  <1>5. BootProc(s) = p
    BY <1>1, <1>2, <1>3, <1>4 DEF BootedInv
  <1>6. Awaiting(s) /\ clients[s] = NoClient /\ ~Busy(s)
    BY AwaitingFacts DEF Awaiting, DaemonInv
  <1> QED BY <1>2, <1>3, <1>5, <1>6

\* The state of the one process of s that may run changes.
LEMMA StateOnly ==
  ASSUME ShapeInv, NEW s \in Servers, NEW p, OnlyOpen(s, p),
         NEW st \in {"starting", "up", "leaked", "closed"}, procs' = SetState(p, st)
  PROVE  /\ p \in DOMAIN procs' /\ procs'[p].state = st /\ DOMAIN procs' = DOMAIN procs
         /\ \A i \in DOMAIN procs : /\ procs'[i].server = procs[i].server /\ procs'[i].by = procs[i].by
                                    /\ procs'[i].entry = procs[i].entry
         /\ \A i \in DOMAIN procs' : procs'[i].server = s /\ procs'[i].state # "closed" => i = p
         /\ OnlyOpen(s, p)' /\ (st = "closed" => NoneOpen(s)')
         /\ \A t \in Servers \ {s} : KeptProcs(t)
  <1>1. p \in DOMAIN procs /\ procs[p].server = s
    BY DEF OnlyOpen
  <1>2. /\ DOMAIN procs' = DOMAIN procs /\ procs'[p].state = st
        /\ \A i \in DOMAIN procs : /\ procs'[i].server = procs[i].server /\ procs'[i].by = procs[i].by
                                   /\ procs'[i].entry = procs[i].entry
        /\ \A i \in DOMAIN procs : i # p => procs'[i] = procs[i]
        /\ \A t \in Servers \ {s} : KeptProcs(t)
    BY <1>1, StateStep
  <1>3. \A i \in DOMAIN procs' : procs'[i].server = s /\ procs'[i].state # "closed" => i = p
    BY <1>2 DEF OnlyOpen
  <1>4. OnlyOpen(s, p)'
    BY <1>1, <1>2, <1>3 DEF OnlyOpen
  <1>5. st = "closed" => NoneOpen(s)'
    BY <1>1, <1>2, <1>3 DEF NoneOpen
  <1> QED BY <1>1, <1>2, <1>3, <1>4, <1>5

\* Boot is past s, and the processes keep their names.
LEMMA BootedKept ==
  ASSUME NEW s, BootedInv(s), DOMAIN procs' = DOMAIN procs,
         \A i \in DOMAIN procs : procs'[i].server = procs[i].server /\ procs'[i].by = procs[i].by,
         ~Awaiting(s)', boot'[s] = "none" => boot[s] = "none"
  PROVE  BootedInv(s)'
  BY DEF BootedInv, Awaiting

LEMMA BootInitializedStep == ASSUME DaemonInv, NEW s \in Servers, BootInitialized(s) PROVE ServersInv'
  <1>1. /\ KeepInv /\ ShapeInv /\ ServersInv /\ ServerInv(s) /\ DOMAIN boot = Servers /\ DOMAIN clients = Servers
    BY DEF DaemonInv, ServersInv, KeepInv, RegistriesShape
  <1>p. PICK p : p = BootProc(s)
    OBVIOUS
  <1>2. /\ Alive /\ boot[s] = "starting" /\ procs' = SetState(p, "up")
        /\ clients' = [clients EXCEPT ![s] = [proc |-> p, tools |-> first[s].tools]]
        /\ boot' = [boot EXCEPT ![s] = "added"]
        /\ UNCHANGED <<health, manage, first, reload, pc>>
    BY <1>p DEF BootInitialized, BootOnly, AddClient, world
  <1>3. /\ OnlyOpen(s, p) /\ procs[p].entry = first[s] /\ Awaiting(s) /\ ~Busy(s)
    BY <1>2, <1>p, BootProcIs
  <1>4. /\ p \in DOMAIN procs' /\ procs'[p].state = "up" /\ DOMAIN procs' = DOMAIN procs
        /\ \A i \in DOMAIN procs : /\ procs'[i].server = procs[i].server /\ procs'[i].by = procs[i].by
                                   /\ procs'[i].entry = procs[i].entry
        /\ \A i \in DOMAIN procs' : procs'[i].server = s /\ procs'[i].state # "closed" => i = p
        /\ OnlyOpen(s, p)' /\ \A t \in Servers \ {s} : KeptProcs(t)
    BY <1>1, <1>2, <1>3, StateOnly
  <1>5. p # 0
    BY <1>1, <1>4 DEF ShapeInv
  <1>6. /\ clients'[s] = [proc |-> p, tools |-> first[s].tools] /\ clients'[s] # NoClient
        /\ clients'[s].proc = p /\ clients'[s].tools = first[s].tools /\ boot'[s] = "added"
    BY <1>1, <1>2, <1>5 DEF NoClient
  <1>7. ClientInv(s)'
    BY <1>4, <1>6 DEF ClientInv
  <1>8. BootedInv(s)'
    BY <1>1, <1>4, <1>6, BootedKept DEF ServerInv, Awaiting
  <1>9. OwnedInv(s)'
    <2>1. \A i \in DOMAIN procs' : procs'[i].server = s => procs'[i].state # "starting"
      BY <1>4
    <2>2. \A i \in DOMAIN procs' : procs'[i].server = s /\ procs'[i].state = "up" => i = clients'[s].proc
      BY <1>4, <1>6
    <2> QED BY <1>4, <1>6, <2>1, <2>2 DEF OwnedInv
  <1>10. Serves(s, first[s])'
    BY <1>2, <1>3, <1>4, <1>6 DEF Serves
  <1>11. FailedInv(s)' /\ ServedInv(s)' /\ PlannedInv(s)' /\ HandInv(s)'
    BY <1>2, <1>3, <1>6, <1>10, AwaitedPlan
  <1>12. \A t \in Servers \ {s} : Untouched(t)
    BY <1>1, <1>2, <1>4 DEF Untouched, Busy, reload
  <1> QED BY <1>1, <1>7, <1>8, <1>9, <1>11, <1>12, OthersUntouched DEF ServerInv

LEMMA BootInitFailsStep == ASSUME DaemonInv, NEW s \in Servers, BootInitFails(s) PROVE ServersInv'
  <1>1. /\ KeepInv /\ ShapeInv /\ ServersInv /\ ServerInv(s) /\ DOMAIN boot = Servers
    BY DEF DaemonInv, ServersInv, KeepInv, RegistriesShape
  <1>p. PICK p : p = BootProc(s)
    OBVIOUS
  <1>2. /\ Alive /\ boot[s] = "starting" /\ procs' = SetState(p, "leaked")
        /\ boot' = [boot EXCEPT ![s] = "failed"]
        /\ UNCHANGED <<clients, health, manage, first, reload, pc>>
    BY <1>p DEF BootInitFails, BootOnly, registries, world
  <1>3. /\ OnlyOpen(s, p) /\ Awaiting(s) /\ clients[s] = NoClient /\ boot'[s] = "failed"
    BY <1>1, <1>2, <1>p, BootProcIs
  <1>4. /\ p \in DOMAIN procs' /\ procs'[p].state = "leaked" /\ DOMAIN procs' = DOMAIN procs
        /\ \A i \in DOMAIN procs : /\ procs'[i].server = procs[i].server /\ procs'[i].by = procs[i].by
                                   /\ procs'[i].entry = procs[i].entry
        /\ \A i \in DOMAIN procs' : procs'[i].server = s /\ procs'[i].state # "closed" => i = p
        /\ \A t \in Servers \ {s} : KeptProcs(t)
    BY <1>1, <1>2, <1>3, StateOnly
  <1>5. ClientInv(s)'
    BY <1>2, <1>3 DEF ClientInv
  <1>6. BootedInv(s)'
    BY <1>1, <1>3, <1>4, BootedKept DEF ServerInv, Awaiting
  <1>7. OwnedInv(s)'
    <2>1. \A i \in DOMAIN procs' : procs'[i].server = s => procs'[i].state \notin {"starting", "up"}
      BY <1>4
    <2> QED BY <1>4, <2>1 DEF OwnedInv
  <1>8. FailedInv(s)' /\ ServedInv(s)' /\ PlannedInv(s)' /\ HandInv(s)'
    BY <1>2, <1>3, AwaitedPlan
  <1>9. \A t \in Servers \ {s} : Untouched(t)
    BY <1>1, <1>2, <1>4 DEF Untouched, Busy, reload
  <1> QED BY <1>1, <1>5, <1>6, <1>7, <1>8, <1>9, OthersUntouched DEF ServerInv

LEMMA BootTrackedStep == ASSUME DaemonInv, NEW s \in Servers, BootTracked(s) PROVE ServersInv'
  <1>1. /\ ShapeInv /\ ServersInv /\ ServerInv(s) /\ DOMAIN boot = Servers /\ DOMAIN health = Servers
    BY DEF DaemonInv, ServersInv, KeepInv, RegistriesShape
  <1>2. /\ boot[s] = "added" /\ boot' = [boot EXCEPT ![s] = "done"] /\ health' = Track(s)
        /\ UNCHANGED <<procs, clients, manage, first, reload, pc>>
    BY DEF BootTracked, BootOnly, world
  <1>3. /\ health'[s] # Untracked /\ boot'[s] = "done"
        /\ \A t \in Servers \ {s} : health'[t] = health[t] /\ boot'[t] = boot[t]
    BY <1>1, <1>2 DEF Track, Unknown, Untracked
  <1>4. ~Awaiting(s) /\ ~Awaiting(s)' /\ boot[s] # "failed" /\ boot'[s] # "failed" /\ (Busy(s)' <=> Busy(s))
    BY <1>2, <1>3 DEF Awaiting, Busy, reload
  <1>5. ClientInv(s)'
    BY <1>1, <1>2, <1>3 DEF ServerInv, ClientInv, OnlyOpen
  <1>6. BootedInv(s)'
    BY <1>1, <1>2, <1>3, <1>4, BootedKept DEF ServerInv
  <1>7. HandInv(s)' /\ OwnedInv(s)'
    BY <1>1, <1>2, <1>3, <1>4 DEF ServerInv, HandInv, OwnedInv, OnlyOpen, NoneOpen, reload
  <1>8. FailedInv(s)' /\ ServedInv(s)' /\ PlannedInv(s)'
    BY <1>1, <1>2, <1>3, <1>4 DEF ServerInv, FailedInv, ServedInv, PlannedInv, NoneOpen, Serves, reload
  <1>9. \A t \in Servers \ {s} : Untouched(t)
    BY <1>1, <1>2, <1>3 DEF Untouched, Busy, reload, KeptProcs
  <1> QED BY <1>1, <1>5, <1>6, <1>7, <1>8, <1>9, OthersUntouched DEF ServerInv

\* Steps that only move the round of pings, StartAndManage or the signals on.
LEMMA QuietSteps ==
  ASSUME DaemonInv, UNCHANGED <<procs, clients, boot, first, reload, pc>>,
         manage \in {"closed", "ended"} => manage' \in {"closed", "ended"},
         \A s \in Servers : health[s] # Untracked => health'[s] # Untracked
  PROVE  ServersInv'
  <1>1. \A s \in Servers : Untouched(s)
    BY DEF Untouched, Busy, reload, KeptProcs
  <1> QED BY <1>1, AllUntouched DEF DaemonInv

LEMMA PingingStep == ASSUME DaemonInv, Pinging PROVE ServersInv'
  <1>1. UNCHANGED <<procs, clients, boot, first, reload, pc>>
    <2>1. ASSUME NEW s, NEW i, NEW st, PingRecorded(s, i, st)
          PROVE  UNCHANGED <<procs, clients, boot, first, reload, pc>>
      BY <2>1 DEF PingRecorded, PingOnly, world
    <2>2. ASSUME NEW s \in Servers, PingLookup(s) \/ PingExpired(s)
          PROVE  UNCHANGED <<procs, clients, boot, first, reload, pc>>
      BY <2>2 DEF PingLookup, PingExpired, PingOnly, world
    <2>3. RoundEnds \/ Tick \/ Interrupted \/ ApiFails => UNCHANGED <<procs, clients, boot, first, reload, pc>>
      BY DEF RoundEnds, Tick, Interrupted, ApiFails, PingOnly, world
    <2> QED BY <2>1, <2>2, <2>3 DEF Pinging, PingAnswered, PingFails
  <1>2. manage \in {"closed", "ended"} => manage' \in {"closed", "ended"}
    BY DEF Pinging, PingLookup, PingExpired, PingAnswered, PingFails, PingRecorded, RoundEnds, Tick, Interrupted, ApiFails
  <1>3. DOMAIN health = Servers
    BY DEF DaemonInv, KeepInv, RegistriesShape
  <1>4. \A s \in Servers : health[s] # Untracked => health'[s] # Untracked
    <2>2. ASSUME NEW p \in sent, PingAnswered(p[1], p[2]) \/ PingFails(p[1], p[2])
          PROVE  \A t \in Servers : health[t] # Untracked => health'[t] # Untracked
      <3>1. PICK st \in {"ok", "bad"} : PingRecorded(p[1], p[2], st)
        BY <2>2 DEF PingAnswered, PingFails
      <3>2. [status |-> st, of |-> p[2]] # Untracked
        BY DEF Untracked
      <3> QED BY <1>3, <3>1, <3>2 DEF PingRecorded
    <2>3. ASSUME NEW s \in Servers, PingLookup(s) \/ PingExpired(s) PROVE UNCHANGED health
      BY <2>3 DEF PingLookup, PingExpired
    <2>4. RoundEnds \/ Tick \/ Interrupted \/ ApiFails => UNCHANGED health
      BY DEF RoundEnds, Tick, Interrupted, ApiFails
    <2> QED BY <2>2, <2>3, <2>4 DEF Pinging
  <1> QED BY <1>1, <1>2, <1>4, QuietSteps

LEMMA AskingStep == ASSUME DaemonInv, Asking PROVE ServersInv'
  <1>1. UNCHANGED <<procs, clients, health, boot, manage, first, reload, pc>>
    BY DEF Asking, Hup, Terminate, EditFile, SignalOnly, manager, registries, world
  <1> QED BY <1>1, QuietSteps

LEMMA BootingStep == ASSUME DaemonInv, Booting PROVE ServersInv'
  <1>1. CASE BootEnds
    <2>1. UNCHANGED <<procs, clients, health, boot, first, reload, pc>> /\ manage = "boot"
      BY <1>1 DEF BootEnds, registries, world
    <2> QED BY <2>1, QuietSteps
  <1> QED BY <1>1, BootSpawnStep, BootCannotSpawnStep, BootInitializedStep, BootInitFailsStep, BootTrackedStep
      DEF Booting

-----------------------------------------------------------------------------
(***************************************************************************)
(* closeAllClients.                                                        *)
(***************************************************************************)
\* A client that closeAllClients waits for is closed, or given up.
LEMMA ChildStep ==
  ASSUME DaemonInv, NEW c \in closing, NEW st \in {"closed", "leaked"}, procs' = SetState(c, st),
         procs[c].state = "closed" => st = "closed",
         UNCHANGED <<clients, health, boot, manage, first, reload, pc>>
  PROVE  ServersInv'
  <1>1. manage = "closed" /\ c \in DOMAIN procs /\ procs[c].state # "starting" /\ ShapeInv
        /\ \A s \in Servers : boot[s] \in {"none", "done", "failed"}
    BY DEF DaemonInv, ManageInv
  <1>2. /\ DOMAIN procs' = DOMAIN procs /\ procs'[c].state = st
        /\ \A i \in DOMAIN procs : /\ procs'[i].server = procs[i].server /\ procs'[i].by = procs[i].by
                                   /\ procs'[i].entry = procs[i].entry
        /\ \A i \in DOMAIN procs : i # c => procs'[i] = procs[i]
    BY <1>1, StateStep
  <1>3. \A i \in DOMAIN procs : /\ procs'[i].state # "closed" => procs[i].state # "closed"
                                /\ procs'[i].state = "starting" <=> procs[i].state = "starting"
                                /\ procs'[i].state = "up" => procs[i].state = "up"
    BY <1>1, <1>2
  <1> SUFFICES ASSUME NEW s \in Servers PROVE ServerInv(s)'
    BY DEF ServersInv
  <1>4. ServerInv(s) /\ ~Awaiting(s) /\ Awaiting(s)' = Awaiting(s) /\ Busy(s)' = Busy(s)
        /\ clients'[s] = clients[s] /\ boot'[s] = boot[s] /\ op' = op /\ plan' = plan
        /\ target' = target /\ served' = served /\ failed' = failed
    BY <1>1 DEF DaemonInv, ServersInv, Awaiting, Busy, reload
  <1>5. /\ NoneOpen(s) => NoneOpen(s)'
        /\ \A p : OnlyOpen(s, p) => OnlyOpen(s, p)'
    BY <1>2, <1>3 DEF NoneOpen, OnlyOpen
  <1>6. ClientInv(s)'
    <2>1. CASE clients[s] # NoClient
      <3>1. OnlyOpen(s, clients[s].proc) /\ procs[clients[s].proc].state # "starting"
        BY <1>4, <2>1 DEF ServerInv, ClientInv
      <3>2. procs'[clients[s].proc].state # "starting" /\ OnlyOpen(s, clients[s].proc)'
        BY <1>3, <1>4, <1>5, <3>1 DEF OnlyOpen
      <3> QED BY <1>1, <1>4, <3>2 DEF ServerInv, ClientInv
    <2>2. CASE clients[s] = NoClient
      BY <1>4, <2>2 DEF ClientInv
    <2> QED BY <2>1, <2>2
  <1>7. BootedInv(s)'
    BY <1>2, <1>4, BootedKept DEF ServerInv
  <1>8. HandInv(s)'
    <2>1. op.do \in {"stop", "init"} /\ Busy(s) => op.proc \in DOMAIN procs
      BY <1>4 DEF ServerInv, HandInv, OnlyOpen
    <2>2. op.do = "track" /\ Busy(s) => clients[s] # NoClient /\ clients[s].proc \in DOMAIN procs
      BY <1>4 DEF ServerInv, HandInv, ClientInv, OnlyOpen
    <2>3. OnlyOpen(s, op.proc) => OnlyOpen(s, op.proc)'
      BY <1>4, <1>5 DEF OnlyOpen
    <2> QED BY <1>2, <1>3, <1>4, <1>5, <2>1, <2>2, <2>3 DEF ServerInv, HandInv
  <1>9. OwnedInv(s)'
    BY <1>2, <1>3, <1>4 DEF ServerInv, OwnedInv
  <1>10. \A e : Serves(s, e) => Serves(s, e)'
    BY <1>2, <1>4 DEF ServerInv, ClientInv, OnlyOpen, Serves
  <1>11. clients[s] # NoClient => procs'[clients[s].proc].entry = procs[clients[s].proc].entry
    BY <1>2, <1>4 DEF ServerInv, ClientInv, OnlyOpen
  <1>12. ServedInv(s)'
    BY <1>4, <1>5, <1>10 DEF ServerInv, ServedInv
  <1>13. PlannedInv(s)'
    BY <1>4, <1>5, <1>10, <1>11 DEF ServerInv, PlannedInv
  <1>14. FailedInv(s)'
    BY <1>4 DEF ServerInv, FailedInv
  <1> QED BY <1>6, <1>7, <1>8, <1>9, <1>12, <1>13, <1>14 DEF ServerInv

LEMMA ClosingStep == ASSUME DaemonInv, Closing PROVE ServersInv'
  <1>1. UNCHANGED <<clients, health, boot, first, reload, pc>>
    BY DEF Closing, CloseAll, ManageEnds, ChildClosed, ChildCloseTimesOut, CloseOnly, registries, world
  <1>2. CASE CloseAll \/ ManageEnds
    BY <1>1, <1>2, QuietSteps DEF CloseAll, ManageEnds
  <1>3. ASSUME NEW c \in closing, ChildClosed(c) \/ ChildCloseTimesOut(c) PROVE ServersInv'
    <2>1. manage' = manage
      BY <1>3 DEF ChildClosed, ChildCloseTimesOut
    <2>2. CASE procs' = procs
      BY <1>1, <2>1, <2>2, QuietSteps
    <2>3. CASE procs' # procs
      <3>1. \/ procs' = SetState(c, "closed")
            \/ procs' = SetState(c, "leaked") /\ procs[c].state # "closed"
        BY <1>3, <2>3 DEF ChildClosed, ChildCloseTimesOut
      <3> QED BY <1>1, <2>1, <3>1, ChildStep
    <2> QED BY <2>2, <2>3
  <1> QED BY <1>2, <1>3 DEF Closing

-----------------------------------------------------------------------------
(***************************************************************************)
(* The main loop.                                                          *)
(***************************************************************************)
\* The main loop moves on with nothing in hand.
LEMMA NothingInHand ==
  ASSUME NEW s, ServerInv(s), op = Idle, op' = Idle,
         UNCHANGED <<procs, clients, health, boot, manage, first>>
  PROVE  ClientInv(s)' /\ BootedInv(s)' /\ HandInv(s)' /\ OwnedInv(s)'
  <1>1. ~Busy(s) /\ ~Busy(s)' /\ op.do = "idle" /\ op'.do = "idle"
    BY DEF Busy, Idle
  <1>2. \A p : OnlyOpen(s, p)' = OnlyOpen(s, p)
    BY DEF OnlyOpen
  <1>3. ClientInv(s)'
    BY <1>1, <1>2 DEF ServerInv, ClientInv, OnlyOpen
  <1>4. BootedInv(s)'
    BY <1>2 DEF ServerInv, BootedInv, NoneOpen, OnlyOpen
  <1>5. HandInv(s)'
    BY <1>1 DEF HandInv
  <1>6. OwnedInv(s)'
    BY <1>1 DEF ServerInv, OwnedInv
  <1> QED BY <1>3, <1>4, <1>5, <1>6

LEMMA TakeReloadStep == ASSUME DaemonInv, TakeReload PROVE ServersInv'
  <1>1. /\ pc = "select" /\ op' = op /\ op = Idle
        /\ UNCHANGED <<procs, clients, health, boot, manage, first, served>>
    BY DEF TakeReload, MainOnly, registries, world, DaemonInv, KeepInv, PlanInv
  <1> SUFFICES ASSUME NEW s \in Servers PROVE ServerInv(s)'
    BY DEF ServersInv
  <1>2. ServerInv(s)
    BY DEF DaemonInv, ServersInv
  <1>3. ClientInv(s)' /\ BootedInv(s)' /\ HandInv(s)' /\ OwnedInv(s)'
    BY <1>1, <1>2, NothingInHand
  <1>4. CASE file = Broken
    <2>1. pc' = "exited"
      BY <1>4 DEF TakeReload, Leave
    <2> QED BY <1>3, <2>1 DEF ServerInv, FailedInv, ServedInv, PlannedInv
  <1>5. CASE file # Broken
    <2>1. pc' = "reload" /\ target' = file /\ plan' = Categorize(served, file)
      BY <1>5 DEF TakeReload
    <2>2. /\ s \in plan'.remove <=> served[s] # Absent /\ target'[s] = Absent
          /\ s \in plan'.add <=> served[s] = Absent /\ target'[s] # Absent
          /\ s \in plan'.update <=> /\ served[s] # Absent /\ target'[s] # Absent
                                    /\ EqualsExceptTools(served[s], target'[s])
          /\ s \in plan'.restart <=> /\ served[s] # Absent /\ target'[s] # Absent
                                     /\ ~EqualsExceptTools(served[s], target'[s])
                                     /\ ~Equals(served[s], target'[s])
      BY <2>1 DEF Categorize
    <2>3. /\ served[s] = Absent => clients[s] = NoClient /\ NoneOpen(s)
          /\ served[s] # Absent => \/ Awaiting(s) /\ Equals(first[s], served[s])
                                   \/ boot[s] = "failed"
                                   \/ Serves(s, served[s])
      BY <1>1, <1>2 DEF ServerInv, ServedInv
    <2>4. /\ NoneOpen(s)' = NoneOpen(s) /\ Awaiting(s)' = Awaiting(s) /\ clients' = clients
          /\ \A e : Serves(s, e) => /\ clients[s] # NoClient /\ clients[s].tools = e.tools
                                    /\ procs'[clients[s].proc].entry.conf = e.conf
      BY <1>1 DEF NoneOpen, Awaiting, Serves
    <2>5. s \in plan'.update =>
            /\ clients'[s] # NoClient => procs'[clients'[s].proc].entry.conf = target'[s].conf
            /\ Awaiting(s)' => first'[s].conf = target'[s].conf
            /\ s \notin plan'.restart
      <3>1. ASSUME s \in plan'.update
            PROVE  served[s] # Absent /\ served[s].conf = target'[s].conf /\ s \notin plan'.restart
        BY <2>2, <3>1 DEF EqualsExceptTools
      <3>2. ASSUME s \in plan'.update, clients[s] # NoClient
            PROVE  procs'[clients[s].proc].entry.conf = served[s].conf
        <4>1. ~Awaiting(s)
          BY <1>1, <3>2, AwaitingFacts DEF DaemonInv, Alive
        <4>2. boot[s] # "failed" => Serves(s, served[s])
          BY <2>3, <3>1, <3>2, <4>1
        <4>3. boot[s] = "failed" => clients[s] = NoClient
          BY <1>1, <1>2 DEF ServerInv, FailedInv
        <4> QED BY <2>4, <3>2, <4>2, <4>3
      <3>3. ASSUME s \in plan'.update, Awaiting(s) PROVE first[s].conf = served[s].conf
        <4>1. clients[s] = NoClient /\ boot[s] # "failed"
          BY <1>1, <3>3, AwaitingFacts DEF DaemonInv, Alive, Awaiting
        <4> QED BY <2>3, <3>1, <3>3, <4>1 DEF Serves, Equals
      <3> QED BY <1>1, <2>4, <3>1, <3>2, <3>3
    <2>6. /\ s \in plan'.add => clients'[s] = NoClient /\ NoneOpen(s)'
          /\ target'[s] = Absent => s \in plan'.remove \/ (clients'[s] = NoClient /\ NoneOpen(s)')
      BY <2>2, <2>3, <2>4
    <2>7. target'[s] # Absent =>
            \/ s \in plan'.update \cup plan'.restart \cup plan'.add
            \/ Awaiting(s)' /\ Equals(first'[s], target'[s])
            \/ boot'[s] = "failed"
            \/ Serves(s, target[s])'
      <3> SUFFICES ASSUME target'[s] # Absent, s \notin plan'.update \cup plan'.restart \cup plan'.add
                   PROVE  \/ Awaiting(s)' /\ Equals(first'[s], target'[s])
                          \/ boot'[s] = "failed"
                          \/ Serves(s, target[s])'
        OBVIOUS
      <3>1. served[s] # Absent /\ Equals(served[s], target'[s])
        BY <2>2
      <3>2. Serves(s, served[s]) => Serves(s, target[s])'
        BY <2>4, <3>1 DEF Serves, Equals
      <3>3. Equals(first[s], served[s]) => Equals(first'[s], target'[s])
        BY <1>1, <3>1 DEF Equals
      <3> QED BY <1>1, <2>3, <2>4, <3>1, <3>2, <3>3
    <2>8. PlannedInv(s)'
      BY <1>1, <2>2, <2>5, <2>6, <2>7 DEF PlannedInv
    <2>9. FailedInv(s)'
      <3>1. FailedInv(s) /\ ~Busy(s)'
        BY <1>1, <1>2 DEF ServerInv, Busy, Idle
      <3> QED BY <1>1, <2>1, <2>2, <3>1 DEF FailedInv
    <2> QED BY <1>3, <2>1, <2>8, <2>9 DEF ServerInv, ServedInv
  <1> QED BY <1>4, <1>5

\* During a reload, when the plan for s is carried out, or has failed.
LEMMA PlanDone ==
  ASSUME NEW s, KeepInv, PlannedInv(s), pc = "reload", UNCHANGED <<served, target, first, boot, pc>>,
         NEW k \in Kinds, s \in plan[k], Did(k, s), failed => failed',
         \/ failed'
         \/ target[s] = Absent /\ clients'[s] = NoClient /\ NoneOpen(s)'
         \/ target[s] # Absent /\ Serves(s, target[s])'
  PROVE  PlannedInv(s)'
  <1>1. \A j \in Kinds : plan'[j] = IF j = k THEN plan[j] \ {s} ELSE plan[j]
    BY DidDrops
  <1>2. s \notin plan'.add /\ s \notin plan'.remove /\ s \notin plan'.restart /\ s \notin plan'.update
    BY <1>1 DEF PlannedInv, Kinds
  <1> QED BY <1>2 DEF PlannedInv

\* s is taken in hand, or stays in hand, to be removed, restarted or added.
LEMMA PlanInHand ==
  ASSUME NEW s, PlannedInv(s), pc = "reload", UNCHANGED <<served, target, first, boot, pc, plan, failed>>,
         s \in plan.remove \cup plan.restart \cup plan.add, Busy(s)'
  PROVE  PlannedInv(s)'
  <1>1. s \notin plan.update /\ (target[s] = Absent => s \in plan.remove)
        /\ (target[s] # Absent => s \in plan.restart \cup plan.add)
    BY DEF PlannedInv
  <1> QED BY <1>1 DEF PlannedInv

\* A step of a reload about s leaves the other servers alone.
LEMMA OthersAlone ==
  ASSUME ShapeInv, NEW s, pc = "reload", UNCHANGED <<served, target, first, boot, manage, pc>>,
         failed' \in {failed, TRUE},
         \/ plan' = plan
         \/ DOMAIN plan = Kinds /\ \E k \in Kinds : Did(k, s),
         op.do = "idle" \/ op.server = s, op'.do = "idle" \/ op'.server = s,
         \A t \in Servers \ {s} :
           /\ KeptProcs(t) /\ clients'[t] = clients[t]
           /\ health[t] # Untracked => health'[t] # Untracked
  PROVE  \A t \in Servers \ {s} : Untouched(t)
  <1> SUFFICES ASSUME NEW t \in Servers \ {s} PROVE Untouched(t)
    OBVIOUS
  <1>1. ~Busy(t) /\ ~Busy(t)'
    BY DEF Busy
  <1>2. \A k \in Kinds : t \in plan'[k] <=> t \in plan[k]
    BY DEF Did
  <1> QED BY <1>1, <1>2 DEF Untouched

\* What the steps of a reload share.
LEMMA ReloadFacts ==
  ASSUME DaemonInv, ReloadOnly, pc = "reload"
  PROVE  /\ UNCHANGED <<served, target, first, boot, manage, pc>>
         /\ KeepInv /\ ShapeInv /\ ServersInv /\ DOMAIN plan = Kinds
         /\ DOMAIN clients = Servers /\ DOMAIN health = Servers
  BY DEF ReloadOnly, MainOnly, world, DaemonInv, KeepInv, RegistriesShape, Kinds

\* The server in hand is not one that boot is concerned with.
LEMMA HandFacts ==
  ASSUME DaemonInv, pc = "reload", op.do # "idle", NEW s, s = op.server
  PROVE  /\ s \in Servers /\ ServerInv(s) /\ Busy(s) /\ ~Awaiting(s) /\ boot[s] # "failed"
         /\ DOMAIN op = {"do", "server", "proc"}
  <1>1. s \in Servers /\ ServerInv(s) /\ Busy(s) /\ KeepInv /\ ShapeInv /\ Alive
    BY DEF DaemonInv, ServersInv, ShapeInv, Busy, Alive
  <1>2. ~Awaiting(s) /\ boot[s] # "failed"
    BY <1>1, AwaitingFacts DEF ServerInv, FailedInv, Alive
  <1> QED BY <1>1, <1>2 DEF KeepInv, RegistriesShape

LEMMA StopServerStep ==
  ASSUME DaemonInv, NEW s \in Servers, NEW k \in {"remove", "restart"}, StopServer(k, s)
  PROVE  ServersInv'
  <1>1. pc = "reload" /\ op = Idle /\ s \in plan[k] /\ procs' = procs /\ ReloadOnly /\ k \in Kinds
    BY DEF StopServer, Turn, Kinds
  <1>2. /\ UNCHANGED <<served, target, first, boot, manage, pc>>
        /\ KeepInv /\ ShapeInv /\ ServersInv /\ DOMAIN plan = Kinds
        /\ DOMAIN clients = Servers /\ DOMAIN health = Servers
    BY <1>1, ReloadFacts
  <1>3. ServerInv(s) /\ op.do = "idle" /\ ~Busy(s) /\ \A t : KeptProcs(t)
    BY <1>1, <1>2 DEF ServersInv, Busy, Idle, KeptProcs
  <1>4. CASE clients[s] = NoClient
    <2>1. failed' = TRUE /\ Did(k, s) /\ clients' = clients /\ health' = health /\ op' = op
      BY <1>4 DEF StopServer, registries
    <2>2. ClientInv(s)' /\ BootedInv(s)' /\ HandInv(s)' /\ OwnedInv(s)'
      BY <1>1, <1>2, <1>3, <2>1, NothingInHand
    <2>3. PlannedInv(s)'
      BY <1>1, <1>2, <1>3, <2>1, PlanDone DEF ServerInv
    <2>4. FailedInv(s)' /\ ServedInv(s)'
      BY <1>1, <1>2, <1>3, <2>1 DEF ServerInv, FailedInv, ServedInv, Busy
    <2>5. \A t \in Servers \ {s} : Untouched(t)
      BY <1>1, <1>2, <1>3, <2>1, OthersAlone
    <2> QED BY <1>2, <2>2, <2>3, <2>4, <2>5, OthersUntouched DEF ServerInv
  <1>5. CASE clients[s] # NoClient
    <2>1. /\ clients' = [clients EXCEPT ![s] = NoClient] /\ health' = [health EXCEPT ![s] = Untracked]
          /\ op' = [do |-> "stop", server |-> s, proc |-> clients[s].proc]
          /\ plan' = plan /\ failed' = failed
      BY <1>5 DEF StopServer
    <2>2. /\ clients'[s] = NoClient /\ op'.do = "stop" /\ op'.server = s /\ op'.proc = clients[s].proc
          /\ Busy(s)' /\ s \in plan.remove \cup plan.restart
      BY <1>1, <1>2, <2>1 DEF Busy
    <2>3. /\ OnlyOpen(s, clients[s].proc) /\ procs[clients[s].proc].state # "starting"
          /\ boot[s] # "failed" /\ ~Awaiting(s)
      BY <1>1, <1>2, <1>3, <1>5, AwaitingFacts DEF ServerInv, ClientInv, FailedInv, Alive
    <2>4. OnlyOpen(s, op.proc)'
      BY <1>1, <2>2, <2>3 DEF OnlyOpen
    <2>5. ClientInv(s)'
      BY <2>2 DEF ClientInv
    <2>6. BootedInv(s)'
      BY <1>1, <1>2, <1>3, <2>3, BootedKept DEF ServerInv, Awaiting
    <2>7. HandInv(s)'
      BY <1>1, <2>1, <2>2, <2>3, <2>4 DEF HandInv
    <2>8. OwnedInv(s)'
      <3>1. /\ procs'[op'.proc].state # "starting"
            /\ \A i \in DOMAIN procs' : procs'[i].server = s /\ procs'[i].state # "closed" => i = op'.proc
        BY <1>1, <2>2, <2>3 DEF OnlyOpen
      <3> QED BY <2>2, <3>1 DEF OwnedInv
    <2>9. PlannedInv(s)'
      BY <1>1, <1>2, <1>3, <2>1, <2>2, PlanInHand DEF ServerInv
    <2>10. FailedInv(s)' /\ ServedInv(s)'
      BY <1>1, <1>2, <2>3 DEF FailedInv, ServedInv
    <2>11. \A t \in Servers \ {s} : Untouched(t)
      BY <1>1, <1>2, <1>3, <2>1, <2>2, OthersAlone
    <2> QED BY <1>2, <2>5, <2>6, <2>7, <2>8, <2>9, <2>10, <2>11, OthersUntouched DEF ServerInv
  <1> QED BY <1>4, <1>5

\* s is no longer in hand, and nothing of it is registered: every process of it
\* that may run has been closed or given up.
LEMMA OutOfHand ==
  ASSUME NEW s, ServerInv(s), ~Awaiting(s), boot[s] # "failed", pc' = "reload",
         UNCHANGED <<boot, first>>, clients'[s] = NoClient, DOMAIN procs' = DOMAIN procs,
         \A i \in DOMAIN procs : /\ procs'[i].server = procs[i].server /\ procs'[i].by = procs[i].by
                                 /\ procs'[i].server = s /\ procs'[i].state # "closed"
                                    => procs[i].state # "closed",
         \A i \in DOMAIN procs' : procs'[i].server = s => procs'[i].state \in {"closed", "leaked"},
         PlannedInv(s)', HandInv(s)'
  PROVE  ServerInv(s)'
  <1>1. ClientInv(s)'
    BY DEF ClientInv
  <1>2. BootedInv(s)'
    BY BootedKept DEF ServerInv, Awaiting
  <1>3. OwnedInv(s)'
    BY DEF ServerInv, OwnedInv
  <1>4. FailedInv(s)' /\ ServedInv(s)'
    BY DEF FailedInv, ServedInv
  <1> QED BY <1>1, <1>2, <1>3, <1>4 DEF ServerInv

LEMMA StoppedStep == ASSUME DaemonInv, Stopped PROVE ServersInv'
  <1>p. PICK s : s = op.server
    OBVIOUS
  <1>1. pc = "reload" /\ op.do = "stop" /\ procs' = SetState(op.proc, "closed") /\ ReloadOnly
        /\ UNCHANGED <<clients, health, failed>>
    BY DEF Stopped, registries
  <1>2. /\ UNCHANGED <<served, target, first, boot, manage, pc>>
        /\ KeepInv /\ ShapeInv /\ ServersInv /\ DOMAIN plan = Kinds
    BY <1>1, ReloadFacts
  <1>3. /\ s \in Servers /\ ServerInv(s) /\ Busy(s) /\ ~Awaiting(s) /\ boot[s] # "failed"
        /\ DOMAIN op = {"do", "server", "proc"}
    BY <1>p, <1>1, HandFacts
  <1>4. clients[s] = NoClient /\ s \in plan.remove \cup plan.restart /\ OnlyOpen(s, op.proc)
    BY <1>1, <1>3 DEF ServerInv, HandInv
  <1>5. /\ DOMAIN procs' = DOMAIN procs /\ NoneOpen(s)'
        /\ \A i \in DOMAIN procs : procs'[i].server = procs[i].server /\ procs'[i].by = procs[i].by
        /\ \A i \in DOMAIN procs' : procs'[i].server = s => procs'[i].state = "closed"
        /\ \A t \in Servers \ {s} : KeptProcs(t)
    <2>1. NoneOpen(s)'
      BY <1>1, <1>2, <1>3, <1>4, StateOnly
    <2> QED BY <1>1, <1>2, <1>3, <1>4, <2>1, StateOnly DEF NoneOpen
  <1>6. \A i \in DOMAIN procs : procs'[i].state # "closed" => procs[i].state # "closed"
    <2>1. op.proc \in DOMAIN procs /\ procs[op.proc].server = s
      BY <1>4 DEF OnlyOpen
    <2> QED BY <1>1, <1>2, <1>5, <2>1, StateStep
  <1>7. HandInv(s)' /\ PlannedInv(s)' /\ (op'.do = "idle" \/ op'.server = s)
        /\ (plan' = plan \/ \E k \in Kinds : Did(k, s))
    <2>1. CASE s \in plan.restart
      <3>1. plan' = plan /\ op'.do = "start" /\ op'.server = s
        BY <1>p, <1>3, <2>1 DEF Stopped
      <3>2. Busy(s)'
        BY <3>1 DEF Busy
      <3>3. HandInv(s)'
        BY <1>1, <1>4, <1>5, <2>1, <3>1 DEF HandInv
      <3>4. PlannedInv(s)'
        BY <1>1, <1>2, <1>3, <1>4, <3>1, <3>2, PlanInHand DEF ServerInv
      <3> QED BY <3>1, <3>3, <3>4
    <2>2. CASE s \notin plan.restart
      <3>1. op' = Idle /\ Did("remove", s) /\ s \in plan.remove
        BY <1>p, <1>4, <2>2 DEF Stopped
      <3>2. op'.do = "idle" /\ ~Busy(s)'
        BY <3>1 DEF Busy, Idle
      <3>3. HandInv(s)'
        BY <3>2 DEF HandInv
      <3>4. target[s] = Absent
        BY <1>1, <1>3, <3>1 DEF ServerInv, PlannedInv
      <3>5. PlannedInv(s)'
        BY <1>1, <1>2, <1>3, <1>4, <1>5, <3>1, <3>4, PlanDone DEF ServerInv, Kinds
      <3> QED BY <3>1, <3>2, <3>3, <3>5 DEF Kinds
    <2> QED BY <2>1, <2>2
  <1>8. ServerInv(s)'
    BY <1>1, <1>2, <1>3, <1>4, <1>5, <1>6, <1>7, OutOfHand
  <1>9. \A t \in Servers \ {s} : Untouched(t)
    BY <1>p, <1>1, <1>2, <1>5, <1>7, OthersAlone
  <1> QED BY <1>2, <1>3, <1>8, <1>9, OthersUntouched

\* The end of a start: s leaves the plan, and nothing is in hand any more.
LEMMA StartIsDone ==
  ASSUME StartDone, NEW s, s = op.server, s \in plan.restart \cup plan.add
  PROVE  /\ op'.do = "idle" /\ ~Busy(s)' /\ HandInv(s)'
         /\ \E k \in Kinds : s \in plan[k] /\ Did(k, s)
  <1>1. op' = Idle
    BY DEF StartDone
  <1>2. op'.do = "idle"
    BY <1>1 DEF Idle
  <1>3. \E k \in Kinds : s \in plan[k] /\ Did(k, s)
    <2>1. CASE s \in plan.restart
      BY <2>1 DEF StartDone, Kinds
    <2>2. CASE s \notin plan.restart
      BY <2>2 DEF StartDone, Kinds
    <2> QED BY <2>1, <2>2
  <1> QED BY <1>2, <1>3 DEF Busy, HandInv

\* The reload gives s up: its process did not start, initialize or close.
LEMMA GivenUp ==
  ASSUME DaemonInv, pc = "reload", op.do \in {"stop", "start", "init"}, ReloadOnly, NEW s, s = op.server,
         failed' = TRUE, clients' = clients, health' = health, op' = Idle,
         NEW k \in Kinds, s \in plan[k], Did(k, s),
         \/ procs' = procs /\ (NoneOpen(s) \/ (op.do = "stop" /\ procs[op.proc].state = "closed"))
         \/ procs' = SetState(op.proc, "leaked") /\ op.do \in {"stop", "init"} /\ procs[op.proc].state # "closed"
  PROVE  ServersInv'
  <1>1. /\ UNCHANGED <<served, target, first, boot, manage, pc>>
        /\ KeepInv /\ ShapeInv /\ ServersInv /\ DOMAIN plan = Kinds
    BY ReloadFacts
  <1>2. s \in Servers /\ ServerInv(s) /\ Busy(s) /\ ~Awaiting(s) /\ boot[s] # "failed"
    BY HandFacts
  <1>3. clients[s] = NoClient /\ (op.do \in {"stop", "init"} => OnlyOpen(s, op.proc))
    BY <1>2 DEF ServerInv, HandInv
  <1>4. op'.do = "idle"
    BY DEF Idle
  <1>5. HandInv(s)'
    BY <1>4 DEF HandInv, Busy
  <1>6. PlannedInv(s)'
    BY <1>1, <1>2, PlanDone DEF ServerInv
  <1>7. /\ DOMAIN procs' = DOMAIN procs
        /\ \A i \in DOMAIN procs : /\ procs'[i].server = procs[i].server /\ procs'[i].by = procs[i].by
                                   /\ procs'[i].server = s /\ procs'[i].state # "closed"
                                      => procs[i].state # "closed"
        /\ \A i \in DOMAIN procs' : procs'[i].server = s => procs'[i].state \in {"closed", "leaked"}
        /\ \A t \in Servers \ {s} : KeptProcs(t)
    <2>1. CASE procs' = procs /\ (NoneOpen(s) \/ (op.do = "stop" /\ procs[op.proc].state = "closed"))
      BY <1>3, <2>1 DEF NoneOpen, OnlyOpen, KeptProcs
    <2>2. CASE procs' = SetState(op.proc, "leaked") /\ op.do \in {"stop", "init"} /\ procs[op.proc].state # "closed"
      <3>1. procs' = SetState(op.proc, "leaked") /\ OnlyOpen(s, op.proc) /\ procs[op.proc].state # "closed"
        BY <1>3, <2>2
      <3>2. /\ DOMAIN procs' = DOMAIN procs
            /\ \A i \in DOMAIN procs : procs'[i].server = procs[i].server /\ procs'[i].by = procs[i].by
            /\ \A i \in DOMAIN procs' : procs'[i].server = s /\ procs'[i].state # "closed" => i = op.proc
            /\ procs'[op.proc].state = "leaked"
            /\ \A t \in Servers \ {s} : KeptProcs(t)
        BY <1>1, <1>2, <3>1, StateOnly
      <3> QED BY <3>2
    <2> QED BY <2>1, <2>2
  <1>8. ServerInv(s)'
    BY <1>1, <1>2, <1>3, <1>5, <1>6, <1>7, OutOfHand
  <1>9. \A t \in Servers \ {s} : Untouched(t)
    BY <1>1, <1>4, <1>7, OthersAlone
  <1> QED BY <1>1, <1>2, <1>8, <1>9, OthersUntouched

LEMMA StopTimesOutStep == ASSUME DaemonInv, StopTimesOut PROVE ServersInv'
  <1>p. PICK s : s = op.server
    OBVIOUS
  <1>1. pc = "reload" /\ op.do = "stop" /\ ReloadOnly /\ failed' = TRUE /\ op' = Idle
        /\ UNCHANGED <<clients, health>>
    BY DEF StopTimesOut, registries
  <1>2. ServerInv(s) /\ Busy(s)
    BY <1>p, <1>1, HandFacts
  <1>3. s \in plan.remove \cup plan.restart
    BY <1>1, <1>2 DEF ServerInv, HandInv
  <1>4. \E k \in Kinds : s \in plan[k] /\ Did(k, s)
    <2>1. CASE s \in plan.restart
      BY <1>p, <2>1 DEF StopTimesOut, Kinds
    <2>2. CASE s \notin plan.restart
      BY <1>p, <1>3, <2>2 DEF StopTimesOut, Kinds
    <2> QED BY <2>1, <2>2
  <1>5. \/ procs' = procs /\ procs[op.proc].state = "closed"
        \/ procs' = SetState(op.proc, "leaked") /\ procs[op.proc].state # "closed"
    BY DEF StopTimesOut
  <1> QED BY <1>p, <1>1, <1>4, <1>5, GivenUp

LEMMA CannotStartStep == ASSUME DaemonInv, CannotStart PROVE ServersInv'
  <1>p. PICK s : s = op.server
    OBVIOUS
  <1>1. pc = "reload" /\ op.do = "start" /\ ReloadOnly /\ failed' = TRUE /\ StartDone /\ op' = Idle
        /\ UNCHANGED <<procs, clients, health>>
    BY DEF CannotStart, StartDone, registries
  <1>2. s \in plan.restart \cup plan.add /\ NoneOpen(s)
    BY <1>p, <1>1, HandFacts DEF ServerInv, HandInv
  <1>3. PICK k \in Kinds : s \in plan[k] /\ Did(k, s)
    BY <1>p, <1>1, <1>2, StartIsDone
  <1> QED BY <1>p, <1>1, <1>2, <1>3, GivenUp

LEMMA InitFailsStep == ASSUME DaemonInv, InitFails PROVE ServersInv'
  <1>p. PICK s : s = op.server
    OBVIOUS
  <1>1. pc = "reload" /\ op.do = "init" /\ ReloadOnly /\ failed' = TRUE /\ StartDone /\ op' = Idle
        /\ UNCHANGED <<clients, health>> /\ procs' = SetState(op.proc, "leaked")
    BY DEF InitFails, StartDone, registries
  <1>2. s \in plan.restart \cup plan.add /\ procs[op.proc].state = "starting"
    BY <1>p, <1>1, HandFacts DEF ServerInv, HandInv
  <1>3. PICK k \in Kinds : s \in plan[k] /\ Did(k, s)
    BY <1>p, <1>1, <1>2, StartIsDone
  <1> QED BY <1>p, <1>1, <1>2, <1>3, GivenUp

LEMMA UpdateToolsStep == ASSUME DaemonInv, NEW s \in Servers, UpdateTools(s) PROVE ServersInv'
  <1>1. pc = "reload" /\ op = Idle /\ s \in plan.update /\ ReloadOnly /\ Did("update", s)
        /\ UNCHANGED <<health, procs, op>>
    BY DEF UpdateTools, Turn
  <1>2. /\ UNCHANGED <<served, target, first, boot, manage, pc>>
        /\ KeepInv /\ ShapeInv /\ ServersInv /\ DOMAIN plan = Kinds
        /\ DOMAIN clients = Servers
    BY <1>1, ReloadFacts
  <1>3. ServerInv(s) /\ op.do = "idle" /\ ~Busy(s) /\ ~Busy(s)' /\ \A t : KeptProcs(t)
    BY <1>1, <1>2 DEF ServersInv, Busy, Idle, KeptProcs
  <1>4. CASE clients[s] = NoClient
    <2>1. failed' = TRUE /\ clients' = clients
      BY <1>4 DEF UpdateTools
    <2>2. ClientInv(s)' /\ BootedInv(s)' /\ HandInv(s)' /\ OwnedInv(s)'
      BY <1>1, <1>2, <1>3, <2>1, NothingInHand
    <2>3. PlannedInv(s)'
      BY <1>1, <1>2, <1>3, <2>1, PlanDone DEF ServerInv, Kinds
    <2>4. FailedInv(s)' /\ ServedInv(s)'
      BY <1>1, <1>2, <1>3, <2>1 DEF ServerInv, FailedInv, ServedInv
    <2>5. \A t \in Servers \ {s} : Untouched(t)
      BY <1>1, <1>2, <1>3, <2>1, OthersAlone DEF Kinds
    <2> QED BY <1>2, <2>2, <2>3, <2>4, <2>5, OthersUntouched DEF ServerInv
  <1>5. CASE clients[s] # NoClient
    <2>1. clients' = [clients EXCEPT ![s].tools = target[s].tools] /\ failed' = failed
      BY <1>5 DEF UpdateTools
    <2>2. clients[s] = [proc |-> clients[s].proc, tools |-> clients[s].tools]
      BY <1>3, <1>5 DEF ServerInv, ClientInv
    <2>3. OnlyOpen(s, clients[s].proc) /\ boot[s] # "failed" /\ ~Awaiting(s)
      BY <1>1, <1>2, <1>3, <1>5, AwaitingFacts DEF ServerInv, ClientInv, FailedInv, Alive
    <2>4. clients'[s] = [clients[s] EXCEPT !.tools = target[s].tools]
      BY <1>2, <2>1
    <2>5. clients'[s] = [proc |-> clients[s].proc, tools |-> target[s].tools]
      BY <2>2, <2>4
    <2>6. clients[s].proc # 0
      BY <1>2, <2>3 DEF OnlyOpen, ShapeInv
    <2>7. clients'[s] # NoClient /\ clients'[s].proc = clients[s].proc /\ clients'[s].tools = target[s].tools
          /\ clients'[s] = [proc |-> clients'[s].proc, tools |-> clients'[s].tools]
      BY <2>5, <2>6 DEF NoClient
    <2>8. OnlyOpen(s, clients[s].proc)'
      BY <1>1, <2>3, <2>7 DEF OnlyOpen
    <2>9. ClientInv(s)'
      BY <1>1, <1>2, <1>3, <1>5, <2>7, <2>8 DEF ServerInv, ClientInv, OnlyOpen
    <2>10. BootedInv(s)' /\ HandInv(s)'
      BY <1>1, <1>2, <1>3, <2>3, BootedKept DEF ServerInv, Awaiting, HandInv
    <2>11. OwnedInv(s)'
      BY <1>1, <1>2, <1>3, <1>5, <2>7 DEF ServerInv, OwnedInv
    <2>12. target[s] # Absent /\ procs[clients[s].proc].entry.conf = target[s].conf
      BY <1>1, <1>3, <1>5 DEF ServerInv, PlannedInv
    <2>13. Serves(s, target[s])'
      BY <1>1, <1>2, <2>7, <2>12 DEF Serves
    <2>14. PlannedInv(s)'
      BY <1>1, <1>2, <1>3, <2>1, <2>12, <2>13, PlanDone DEF ServerInv, Kinds
    <2>15. FailedInv(s)' /\ ServedInv(s)'
      BY <1>1, <1>2, <2>3 DEF FailedInv, ServedInv
    <2>16. \A t \in Servers \ {s} : Untouched(t)
      BY <1>1, <1>2, <1>3, <2>1, OthersAlone DEF Kinds
    <2> QED BY <1>2, <2>9, <2>10, <2>11, <2>14, <2>15, <2>16, OthersUntouched DEF ServerInv
  <1> QED BY <1>4, <1>5

LEMMA AddServerStep == ASSUME DaemonInv, NEW s \in Servers, AddServer(s) PROVE ServersInv'
  <1>1. pc = "reload" /\ op = Idle /\ s \in plan.add /\ ReloadOnly
        /\ UNCHANGED <<clients, health, procs, plan, failed>>
        /\ op' = [do |-> "start", server |-> s, proc |-> 0]
    BY DEF AddServer, Turn, registries
  <1>2. /\ UNCHANGED <<served, target, first, boot, manage, pc>>
        /\ KeepInv /\ ShapeInv /\ ServersInv /\ DOMAIN plan = Kinds
    BY <1>1, ReloadFacts
  <1>3. /\ ServerInv(s) /\ op.do = "idle" /\ ~Busy(s) /\ \A t : KeptProcs(t)
        /\ op'.do = "start" /\ op'.server = s /\ Busy(s)'
    BY <1>1, <1>2 DEF ServersInv, Busy, Idle, KeptProcs
  <1>4. clients[s] = NoClient /\ NoneOpen(s) /\ served[s] = Absent
    BY <1>1, <1>3 DEF ServerInv, PlannedInv
  <1>5. boot[s] # "failed" /\ ~Awaiting(s)
    BY <1>1, <1>2, <1>3, <1>4, AwaitingFacts DEF ServerInv, FailedInv, Alive
  <1>6. HandInv(s)'
    BY <1>1, <1>3, <1>4 DEF HandInv, NoneOpen
  <1>7. PlannedInv(s)'
    BY <1>1, <1>2, <1>3, PlanInHand DEF ServerInv
  <1>8. ServerInv(s)'
    BY <1>1, <1>2, <1>3, <1>4, <1>5, <1>6, <1>7, OutOfHand DEF NoneOpen
  <1>9. \A t \in Servers \ {s} : Untouched(t)
    BY <1>1, <1>2, <1>3, OthersAlone
  <1> QED BY <1>2, <1>8, <1>9, OthersUntouched

LEMMA StartServerStep == ASSUME DaemonInv, StartServer PROVE ServersInv'
  <1>p. PICK s, p : s = op.server /\ p = Len(procs) + 1
    OBVIOUS
  <1>1. pc = "reload" /\ op.do = "start" /\ ReloadOnly /\ Spawn(s, target[s], "reload")
        /\ op' = [op EXCEPT !.do = "init", !.proc = p]
        /\ UNCHANGED <<clients, health, plan, failed>>
    BY <1>p DEF StartServer, registries
  <1>2. /\ UNCHANGED <<served, target, first, boot, manage, pc>>
        /\ KeepInv /\ ShapeInv /\ ServersInv /\ DOMAIN plan = Kinds
    BY <1>1, ReloadFacts
  <1>3. /\ s \in Servers /\ ServerInv(s) /\ Busy(s) /\ ~Awaiting(s) /\ boot[s] # "failed"
        /\ DOMAIN op = {"do", "server", "proc"}
    BY <1>p, <1>1, HandFacts
  <1>4. clients[s] = NoClient /\ s \in plan.restart \cup plan.add /\ NoneOpen(s)
    BY <1>1, <1>3 DEF ServerInv, HandInv
  <1>5. /\ DOMAIN procs' = DOMAIN procs \cup {p} /\ p \notin DOMAIN procs
        /\ procs'[p] = [server |-> s, entry |-> target[s], by |-> "reload", state |-> "starting"]
        /\ \A i \in DOMAIN procs : procs'[i] = procs[i]
        /\ \A t \in Servers \ {s} : KeptProcs(t)
    BY <1>p, <1>1, <1>2, <1>3, SpawnStep, FirstEntry
  <1>6. /\ procs'[p].server = s /\ procs'[p].entry = target[s] /\ procs'[p].by = "reload"
        /\ procs'[p].state = "starting"
    BY <1>5
  <1>7. op'.do = "init" /\ op'.server = s /\ op'.proc = p /\ Busy(s)'
    BY <1>p, <1>1, <1>3 DEF Busy
  <1>8. \A i \in DOMAIN procs' : procs'[i].server = s /\ procs'[i].state # "closed" => i = p
    BY <1>4, <1>5 DEF NoneOpen
  <1>9. OnlyOpen(s, op.proc)'
    BY <1>5, <1>6, <1>7, <1>8 DEF OnlyOpen
  <1>10. ClientInv(s)'
    BY <1>1, <1>4 DEF ClientInv
  <1>11. BootedInv(s)'
    <2>1. \A i \in DOMAIN procs' : procs'[i].server = s /\ procs'[i].by = "boot" => i \in DOMAIN procs
      BY <1>5, <1>6
    <2>2. boot'[s] \notin {"todo", "starting"}
      BY <1>2, <1>3 DEF Awaiting
    <2> QED BY <1>2, <1>3, <1>5, <2>1, <2>2 DEF ServerInv, BootedInv
  <1>12. HandInv(s)'
    BY <1>1, <1>2, <1>4, <1>6, <1>7, <1>9 DEF HandInv
  <1>13. OwnedInv(s)'
    <2>1. \A i \in DOMAIN procs' : procs'[i].server = s => procs'[i].state # "up"
      BY <1>6, <1>8
    <2> QED BY <1>7, <1>8, <2>1 DEF OwnedInv
  <1>14. PlannedInv(s)'
    BY <1>1, <1>2, <1>3, <1>4, <1>7, PlanInHand DEF ServerInv
  <1>15. FailedInv(s)' /\ ServedInv(s)'
    BY <1>1, <1>2, <1>3 DEF FailedInv, ServedInv
  <1>16. \A t \in Servers \ {s} : Untouched(t)
    BY <1>p, <1>1, <1>2, <1>5, <1>7, OthersAlone
  <1> QED BY <1>2, <1>3, <1>10, <1>11, <1>12, <1>13, <1>14, <1>15, <1>16, OthersUntouched DEF ServerInv

LEMMA InitializedStep == ASSUME DaemonInv, Initialized PROVE ServersInv'
  <1>p. PICK s, p : s = op.server /\ p = op.proc
    OBVIOUS
  <1>1. pc = "reload" /\ op.do = "init" /\ ReloadOnly /\ procs' = SetState(p, "up")
        /\ clients' = [clients EXCEPT ![s] = [proc |-> p, tools |-> target[s].tools]]
        /\ op' = [op EXCEPT !.do = "track"] /\ UNCHANGED <<health, plan, failed>>
    BY <1>p DEF Initialized, AddClient
  <1>2. /\ UNCHANGED <<served, target, first, boot, manage, pc>>
        /\ KeepInv /\ ShapeInv /\ ServersInv /\ DOMAIN plan = Kinds /\ DOMAIN clients = Servers
    BY <1>1, ReloadFacts
  <1>3. /\ s \in Servers /\ ServerInv(s) /\ Busy(s) /\ ~Awaiting(s) /\ boot[s] # "failed"
        /\ DOMAIN op = {"do", "server", "proc"}
    BY <1>p, <1>1, HandFacts
  <1>4. s \in plan.restart \cup plan.add /\ OnlyOpen(s, p) /\ procs[p].entry = target[s]
    BY <1>p, <1>1, <1>3 DEF ServerInv, HandInv
  <1>5. /\ p \in DOMAIN procs' /\ procs'[p].state = "up" /\ DOMAIN procs' = DOMAIN procs
        /\ \A i \in DOMAIN procs : /\ procs'[i].server = procs[i].server /\ procs'[i].by = procs[i].by
                                   /\ procs'[i].entry = procs[i].entry
        /\ \A i \in DOMAIN procs' : procs'[i].server = s /\ procs'[i].state # "closed" => i = p
        /\ OnlyOpen(s, p)' /\ \A t \in Servers \ {s} : KeptProcs(t)
    BY <1>1, <1>2, <1>3, <1>4, StateOnly
  <1>6. p # 0
    BY <1>2, <1>4 DEF ShapeInv, OnlyOpen
  <1>7. /\ clients'[s] = [proc |-> p, tools |-> target[s].tools] /\ clients'[s] # NoClient
        /\ clients'[s].proc = p /\ clients'[s].tools = target[s].tools
    BY <1>1, <1>2, <1>3, <1>6 DEF NoClient
  <1>8. op'.do = "track" /\ op'.server = s /\ Busy(s)'
    BY <1>p, <1>1, <1>3 DEF Busy
  <1>9. procs'[p].entry = target[s]
    BY <1>4, <1>5
  <1>10. ClientInv(s)'
    BY <1>5, <1>7, <1>8 DEF ClientInv
  <1>11. BootedInv(s)'
    BY <1>2, <1>3, <1>5, BootedKept DEF ServerInv, Awaiting
  <1>12. HandInv(s)'
    BY <1>1, <1>2, <1>4, <1>7, <1>8, <1>9 DEF HandInv
  <1>13. OwnedInv(s)'
    <2>1. \A i \in DOMAIN procs' : procs'[i].server = s => procs'[i].state # "starting"
      BY <1>5
    <2>2. \A i \in DOMAIN procs' : procs'[i].server = s /\ procs'[i].state = "up" => i = clients'[s].proc
      BY <1>5, <1>7
    <2> QED BY <1>5, <1>7, <2>1, <2>2 DEF OwnedInv
  <1>14. PlannedInv(s)'
    BY <1>1, <1>2, <1>3, <1>4, <1>8, PlanInHand DEF ServerInv
  <1>15. FailedInv(s)' /\ ServedInv(s)'
    BY <1>1, <1>2, <1>3 DEF FailedInv, ServedInv
  <1>16. \A t \in Servers \ {s} : Untouched(t)
    <2>1. \A t \in Servers \ {s} : clients'[t] = clients[t]
      BY <1>1, <1>2
    <2> QED BY <1>p, <1>1, <1>2, <1>5, <1>8, <2>1, OthersAlone
  <1> QED BY <1>2, <1>3, <1>10, <1>11, <1>12, <1>13, <1>14, <1>15, <1>16, OthersUntouched DEF ServerInv

LEMMA TrackedStep == ASSUME DaemonInv, Tracked PROVE ServersInv'
  <1>p. PICK s : s = op.server
    OBVIOUS
  <1>1. pc = "reload" /\ op.do = "track" /\ ReloadOnly /\ StartDone /\ health' = Track(s)
        /\ UNCHANGED <<clients, procs, failed>>
    BY <1>p DEF Tracked
  <1>2. /\ UNCHANGED <<served, target, first, boot, manage, pc>>
        /\ KeepInv /\ ShapeInv /\ ServersInv /\ DOMAIN plan = Kinds /\ DOMAIN health = Servers
    BY <1>1, ReloadFacts
  <1>3. s \in Servers /\ ServerInv(s) /\ Busy(s) /\ ~Awaiting(s) /\ boot[s] # "failed"
    BY <1>p, <1>1, HandFacts
  <1>4. /\ s \in plan.restart \cup plan.add /\ clients[s] # NoClient
        /\ clients[s].tools = target[s].tools /\ procs[clients[s].proc].entry.conf = target[s].conf
    BY <1>1, <1>3 DEF ServerInv, HandInv
  <1>5. op'.do = "idle" /\ ~Busy(s)' /\ HandInv(s)'
    BY <1>p, <1>1, <1>4, StartIsDone
  <1>6. PICK k \in Kinds : s \in plan[k] /\ Did(k, s)
    BY <1>p, <1>1, <1>4, StartIsDone
  <1>7. health'[s] # Untracked /\ \A t \in Servers : health[t] # Untracked => health'[t] # Untracked
    BY <1>1, <1>2, <1>3 DEF Track, Unknown, Untracked
  <1>8. target[s] # Absent
    BY <1>1, <1>3, <1>4 DEF ServerInv, PlannedInv
  <1>9. Serves(s, target[s])'
    BY <1>1, <1>2, <1>4 DEF Serves
  <1>10. ClientInv(s)'
    BY <1>1, <1>2, <1>3, <1>7 DEF ServerInv, ClientInv, OnlyOpen
  <1>11. BootedInv(s)'
    BY <1>1, <1>2, <1>3, BootedKept DEF ServerInv, Awaiting
  <1>12. OwnedInv(s)'
    BY <1>1, <1>2, <1>3 DEF ServerInv, OwnedInv, Busy
  <1>13. PlannedInv(s)'
    BY <1>1, <1>2, <1>3, <1>6, <1>8, <1>9, PlanDone DEF ServerInv
  <1>14. FailedInv(s)' /\ ServedInv(s)'
    BY <1>1, <1>2, <1>3 DEF FailedInv, ServedInv
  <1>15. \A t \in Servers \ {s} : Untouched(t)
    BY <1>p, <1>1, <1>2, <1>5, <1>6, <1>7, OthersAlone DEF KeptProcs
  <1> QED BY <1>2, <1>3, <1>5, <1>10, <1>11, <1>12, <1>13, <1>14, <1>15, OthersUntouched DEF ServerInv

LEMMA ReloadStepStep == ASSUME DaemonInv, ReloadStep PROVE ServersInv'
  BY StopServerStep, StoppedStep, StopTimesOutStep, UpdateToolsStep, AddServerStep, StartServerStep,
     CannotStartStep, InitializedStep, InitFailsStep, TrackedStep
  DEF ReloadStep

\* The plan is carried out: what is served now is the new configuration.
LEMMA ReloadEndsStep == ASSUME DaemonInv, ReloadEnds PROVE ServersInv'
  <1>1. /\ pc = "reload" /\ op = Idle /\ op' = Idle /\ plan = NoPlan /\ served' = target
        /\ UNCHANGED <<procs, clients, health, boot, manage, first>>
        /\ pc' = IF failed THEN "exited" ELSE "select"
    BY DEF ReloadEnds, MainOnly, Leave, registries, world
  <1> SUFFICES ASSUME NEW s \in Servers PROVE ServerInv(s)'
    BY DEF ServersInv
  <1>2. ServerInv(s)
    BY DEF DaemonInv, ServersInv
  <1>3. ClientInv(s)' /\ BootedInv(s)' /\ HandInv(s)' /\ OwnedInv(s)'
    BY <1>1, <1>2, NothingInHand
  <1>4. PlannedInv(s)'
    BY <1>1 DEF PlannedInv
  <1>5. CASE failed
    BY <1>1, <1>3, <1>4, <1>5 DEF ServerInv, FailedInv, ServedInv
  <1>6. CASE ~failed
    <2>1. s \notin plan.remove /\ s \notin plan.update \cup plan.restart \cup plan.add
      BY <1>1 DEF NoPlan
    <2>2. /\ target[s] = Absent => clients[s] = NoClient /\ NoneOpen(s)
          /\ target[s] # Absent => \/ Awaiting(s) /\ Equals(first[s], target[s])
                                   \/ boot[s] = "failed"
                                   \/ Serves(s, target[s])
      BY <1>1, <1>2, <1>6, <2>1 DEF ServerInv, PlannedInv
    <2>3. NoneOpen(s)' = NoneOpen(s) /\ Awaiting(s)' = Awaiting(s) /\ \A e : Serves(s, e) => Serves(s, e)'
      BY <1>1 DEF NoneOpen, Awaiting, Serves
    <2>4. ServedInv(s)'
      BY <1>1, <2>2, <2>3 DEF ServedInv
    <2>5. FailedInv(s)'
      BY <1>1, <1>2, <1>6, <2>1 DEF ServerInv, FailedInv, Busy, Idle
    <2> QED BY <1>3, <1>4, <2>4, <2>5 DEF ServerInv
  <1> QED BY <1>5, <1>6

LEMMA LeavingStep == ASSUME DaemonInv, NoticeShutdown \/ Return PROVE ServersInv'
  <1>1. /\ pc \in {"select", "waiting"} /\ pc' \in {"waiting", "exited"} /\ op = Idle /\ op' = Idle
        /\ UNCHANGED <<procs, clients, health, boot, manage, first, served>>
    BY DEF NoticeShutdown, Return, Leave, MainOnly, registries, reload, world, DaemonInv, KeepInv, PlanInv
  <1> SUFFICES ASSUME NEW s \in Servers PROVE ServerInv(s)'
    BY DEF ServersInv
  <1>2. ServerInv(s)
    BY DEF DaemonInv, ServersInv
  <1>3. ClientInv(s)' /\ BootedInv(s)' /\ HandInv(s)' /\ OwnedInv(s)'
    BY <1>1, <1>2, NothingInHand
  <1>4. NoneOpen(s)' = NoneOpen(s) /\ Awaiting(s)' = Awaiting(s) /\ \A e : Serves(s, e) => Serves(s, e)'
    BY <1>1 DEF NoneOpen, Awaiting, Serves
  <1>5. ServedInv(s)' /\ PlannedInv(s)'
    BY <1>1, <1>2, <1>4 DEF ServerInv, ServedInv, PlannedInv
  <1>6. FailedInv(s)'
    BY <1>1, <1>2 DEF ServerInv, FailedInv, Busy, Idle
  <1> QED BY <1>3, <1>5, <1>6 DEF ServerInv

LEMMA ServersStep == ASSUME DaemonInv, [Next]_vars PROVE ServersInv'
  <1>1. CASE Exited \/ UNCHANGED vars
    <2>1. UNCHANGED <<procs, clients, health, boot, manage, first, reload, pc>>
      BY <1>1 DEF Exited, vars, registries, manager, world
    <2> QED BY <2>1, QuietSteps
  <1> QED BY <1>1, BootingStep, PingingStep, ClosingStep, AskingStep, MainSteps, TakeReloadStep, ReloadStepStep,
             ReloadEndsStep, LeavingStep DEF Next

-----------------------------------------------------------------------------
(***************************************************************************)
(* The shape of the state.                                                 *)
(***************************************************************************)
LEMMA ShapeKept ==
  ASSUME ShapeInv, procs' \in Seq(Process), UNCHANGED <<first, file, reload, pc>> PROVE ShapeInv'
  BY DEF ShapeInv, reload

LEMMA ShapeBooting == ASSUME DaemonInv, Booting PROVE ShapeInv'
  <1>1. ShapeInv /\ UNCHANGED <<first, file, reload, pc>>
    BY BootingKeeps DEF DaemonInv, Booting, BootSpawn, BootCannotSpawn, BootInitialized, BootInitFails,
                        BootTracked, BootOnly, BootEnds, world
  <1>2. procs' \in Seq(Process)
    <2>1. ASSUME NEW s \in Servers, BootSpawn(s) PROVE procs' \in Seq(Process)
      BY <1>1, <2>1, SpawnStep, FirstEntry DEF BootSpawn
    <2>2. ASSUME NEW s \in Servers, BootInitialized(s) \/ BootInitFails(s) PROVE procs' \in Seq(Process)
      <3>1. Alive /\ boot[s] = "starting"
        BY <2>2 DEF BootInitialized, BootInitFails
      <3>2. BootProc(s) \in DOMAIN procs
        BY <3>1, BootProcIs
      <3>3. PICK st \in {"up", "leaked"} : procs' = SetState(BootProc(s), st)
        BY <2>2 DEF BootInitialized, BootInitFails
      <3> QED BY <1>1, <3>2, <3>3, StateStep
    <2>3. ASSUME BootEnds \/ \E s \in Servers : BootCannotSpawn(s) \/ BootTracked(s)
          PROVE  procs' \in Seq(Process)
      <3>1. procs' = procs
        BY <2>3 DEF BootEnds, BootCannotSpawn, BootTracked
      <3> QED BY <1>1, <3>1 DEF ShapeInv
    <2> QED BY <2>1, <2>2, <2>3 DEF Booting
  <1> QED BY <1>1, <1>2, ShapeKept

LEMMA ShapeClosing == ASSUME DaemonInv, Closing PROVE ShapeInv'
  <1>1. ShapeInv /\ UNCHANGED <<first, file, reload, pc>>
    BY DEF DaemonInv, Closing, CloseAll, ManageEnds, ChildClosed, ChildCloseTimesOut, CloseOnly, world
  <1>2. procs' \in Seq(Process)
    <2>1. CASE procs' = procs
      BY <1>1, <2>1 DEF ShapeInv
    <2>2. CASE procs' # procs
      <3>1. PICK c \in closing, st \in {"closed", "leaked"} : procs' = SetState(c, st)
        BY <2>2 DEF Closing, CloseAll, ManageEnds, ChildClosed, ChildCloseTimesOut
      <3>2. c \in DOMAIN procs
        BY DEF DaemonInv, ManageInv
      <3> QED BY <1>1, <3>1, <3>2, StateStep
    <2> QED BY <2>1, <2>2
  <1> QED BY <1>1, <1>2, ShapeKept

\* The process in hand exists.
LEMMA HandProc ==
  ASSUME DaemonInv, pc = "reload", op.do \in {"stop", "init"} PROVE op.proc \in DOMAIN procs
  BY HandFacts DEF ServerInv, HandInv, OnlyOpen

LEMMA ShapeReload == ASSUME DaemonInv, ReloadStep PROVE ShapeInv'
  <1>1. pc = "reload" /\ ReloadOnly
    BY ReloadStepKeeps DEF ReloadStep, Stopped, StopTimesOut, StartServer, CannotStart, Initialized, InitFails,
                           Tracked, StopServer, UpdateTools, AddServer
  <1>2. ShapeInv /\ UNCHANGED <<first, file, served, target, pc>>
    BY <1>1 DEF DaemonInv, ReloadOnly, MainOnly, world
  <1>3. failed' \in BOOLEAN
    <2>1. ReloadStep => failed' = failed \/ failed' = TRUE
      BY DEF ReloadStep, Stopped, StopTimesOut, StartServer, CannotStart, Initialized, InitFails, Tracked,
             StopServer, UpdateTools, AddServer
    <2> QED BY <1>2, <2>1 DEF ShapeInv
  <1>4. procs' \in Seq(Process)
    <2>1. CASE StartServer
      <3>1. op.server \in Servers /\ Spawn(op.server, target[op.server], "reload")
        BY <1>2, <2>1 DEF ShapeInv, StartServer
      <3> QED BY <1>2, <3>1, SpawnStep, FirstEntry
    <2>2. CASE ~StartServer
      <3>1. \/ procs' = procs
            \/ /\ op.do \in {"stop", "init"}
               /\ \E st \in {"closed", "leaked", "up"} : procs' = SetState(op.proc, st)
        BY <2>2 DEF ReloadStep, Stopped, StopTimesOut, StartServer, CannotStart, Initialized, InitFails, Tracked,
               StopServer, UpdateTools, AddServer
      <3> QED BY <1>1, <1>2, <3>1, HandProc, StateStep DEF ShapeInv
    <2> QED BY <2>1, <2>2
  <1>5. /\ op'.do \in {"idle", "stop", "start", "init", "track"}
        /\ op'.do # "idle" => op'.server \in Servers
        /\ op'.do = "idle" => op' = Idle
    <2>1. op = Idle => op.do = "idle"
      BY DEF Idle
    <2>2. DOMAIN op = {"do", "server", "proc"}
      BY DEF DaemonInv, KeepInv, RegistriesShape
    <2>3. ASSUME NEW s \in Servers, \/ StopServer("remove", s) \/ StopServer("restart", s)
                                    \/ UpdateTools(s) \/ AddServer(s)
          PROVE  \/ op' = op
                 \/ op' = [do |-> "stop", server |-> s, proc |-> clients[s].proc]
                 \/ op' = [do |-> "start", server |-> s, proc |-> 0]
      BY <2>3 DEF StopServer, UpdateTools, AddServer
    <2>4. ASSUME Stopped \/ StopTimesOut \/ StartServer \/ CannotStart \/ Initialized \/ InitFails \/ Tracked
          PROVE  \/ op' = Idle
                 \/ /\ op.do # "idle"
                    /\ \/ op' = [op EXCEPT !.do = "start"] \/ op' = [op EXCEPT !.do = "track"]
                       \/ op' = [op EXCEPT !.do = "init", !.proc = Len(procs) + 1]
      BY <2>4 DEF Stopped, StopTimesOut, StartServer, CannotStart, Initialized, InitFails, Tracked, StartDone
    <2>5. CASE op' = Idle
      BY <2>5 DEF Idle
    <2>6. ASSUME op.do # "idle",
                 \/ op' = [op EXCEPT !.do = "start"] \/ op' = [op EXCEPT !.do = "track"]
                 \/ op' = [op EXCEPT !.do = "init", !.proc = Len(procs) + 1]
          PROVE  op'.do \in {"start", "init", "track"} /\ op'.server \in Servers
      BY <1>2, <2>2, <2>6 DEF ShapeInv
    <2>7. CASE op' = op
      BY <1>2, <2>7 DEF ShapeInv
    <2>8. ASSUME NEW s \in Servers,
                 \/ op' = [do |-> "stop", server |-> s, proc |-> clients[s].proc]
                 \/ op' = [do |-> "start", server |-> s, proc |-> 0]
          PROVE  op'.do \in {"stop", "start"} /\ op'.server \in Servers
      BY <2>8
    <2> QED BY <2>3, <2>4, <2>5, <2>6, <2>7, <2>8 DEF ReloadStep
  <1> QED BY <1>1, <1>2, <1>3, <1>4, <1>5 DEF ShapeInv

LEMMA ShapeStep == ASSUME DaemonInv, [Next]_vars PROVE ShapeInv'
  <1> ShapeInv /\ KeepInv
    BY DEF DaemonInv
  <1>1. CASE Pinging
    <2>1. UNCHANGED <<first, file, reload, pc, procs>>
      BY <1>1 DEF Pinging, PingLookup, PingExpired, PingAnswered, PingFails, PingRecorded, RoundEnds, Tick, Interrupted,
                  ApiFails, PingOnly, world
    <2> QED BY <2>1, ShapeKept DEF ShapeInv
  <1>2. CASE Asking
    BY <1>2 DEF Asking, Hup, Terminate, EditFile, SignalOnly, ShapeInv, reload, world
  <1>3. CASE TakeReload
    <2>1. /\ pc = "select" /\ op' = op /\ op = Idle /\ failed' = FALSE
          /\ UNCHANGED <<procs, first, served, file>>
      BY <1>3 DEF TakeReload, MainOnly, world, KeepInv, PlanInv
    <2>2. pc' \in {"reload", "exited"} /\ target' \in Configs
      BY <1>3 DEF TakeReload, Leave, ShapeInv
    <2> QED BY <2>1, <2>2 DEF ShapeInv, Idle
  <1>4. CASE ReloadEnds
    BY <1>4 DEF ReloadEnds, MainOnly, world, Leave, ShapeInv, Idle
  <1>5. CASE NoticeShutdown \/ Return
    <2>1. /\ pc \in {"select", "waiting"} /\ pc' \in {"waiting", "exited"} /\ op = Idle
          /\ UNCHANGED <<procs, first, file, reload>>
      BY <1>5 DEF NoticeShutdown, Return, Leave, MainOnly, world, KeepInv, PlanInv
    <2> QED BY <2>1 DEF ShapeInv, reload, Idle
  <1>6. CASE Exited \/ UNCHANGED vars
    BY <1>6 DEF Exited, vars, world, reload, ShapeInv
  <1> QED BY <1>1, <1>2, <1>3, <1>4, <1>5, <1>6, ShapeBooting, ShapeClosing, ShapeReload, MainSteps DEF Next

-----------------------------------------------------------------------------
(***************************************************************************)
(* Where StartAndManage is.                                                *)
(***************************************************************************)
LEMMA ManageKept ==
  ASSUME ManageInv, UNCHANGED <<procs, manage, boot, closing, pc, exit>>, seen \subseteq seen' PROVE ManageInv'
  BY DEF ManageInv

LEMMA ManageBooting == ASSUME DaemonInv, Booting PROVE ManageInv'
  <1> ManageInv BY DEF DaemonInv
  <1>1. UNCHANGED <<closing, pc, exit>>
    BY DEF Booting, BootSpawn, BootCannotSpawn, BootInitialized, BootInitFails, BootTracked, BootOnly, BootEnds
  <1>2. ASSUME NEW s \in Servers, \/ BootSpawn(s) \/ BootCannotSpawn(s) \/ BootInitialized(s)
                                  \/ BootInitFails(s) \/ BootTracked(s)
        PROVE  ManageInv'
    <2>1. boot[s] \in {"todo", "starting", "added"} /\ manage' = manage
      BY <1>2 DEF BootSpawn, BootCannotSpawn, BootInitialized, BootInitFails, BootTracked
    <2>2. manage = "boot" /\ manage' = "boot"
      BY <2>1 DEF ManageInv
    <2> QED BY <1>1, <2>2 DEF ManageInv
  <1>3. CASE BootEnds
    <2>1. /\ manage = "boot" /\ manage' \in {"closing", "firstping"} /\ boot' = boot
          /\ \A s \in Servers : boot[s] \in {"none", "done", "failed"}
          /\ manage' = "firstping" => \A s \in Servers : boot[s] # "failed"
      BY <1>3 DEF BootEnds
    <2> QED BY <1>1, <2>1 DEF ManageInv
  <1> QED BY <1>2, <1>3 DEF Booting

LEMMA ManagePinging == ASSUME DaemonInv, Pinging PROVE ManageInv'
  <1> ManageInv BY DEF DaemonInv
  <1>1. UNCHANGED <<procs, boot, closing, pc, exit>> /\ seen \subseteq seen'
    BY DEF Pinging, PingLookup, PingExpired, PingAnswered, PingFails, PingRecorded, RoundEnds, Tick, Interrupted, ApiFails,
           PingOnly
  <1>2. \/ manage' = manage
        \/ manage \in {"firstping", "loop", "tick"} /\ manage' \in {"loop", "tick", "closing"}
    BY DEF Pinging, PingLookup, PingExpired, PingAnswered, PingFails, PingRecorded, RoundEnds, Tick, Interrupted, ApiFails
  <1>3. CASE manage' = manage
    BY <1>1, <1>3, ManageKept
  <1>4. CASE manage \in {"firstping", "loop", "tick"} /\ manage' \in {"loop", "tick", "closing"}
    BY <1>1, <1>4 DEF ManageInv
  <1> QED BY <1>2, <1>3, <1>4

\* When closeAllClients lists the clients and no reload is under way, every
\* process that runs is one of them.
LEMMA ManageCloseAll == ASSUME DaemonInv, CloseAll PROVE ManageInv'
  <1>1. /\ ManageInv /\ ServersInv /\ ShapeInv
        /\ manage = "closing" /\ manage' = "closed" /\ closing' = {clients[s].proc : s \in Registered}
        /\ UNCHANGED <<procs, boot, pc, exit>>
        /\ pc = "reload" => "late" \in seen'
    BY DEF DaemonInv, CloseAll, CloseOnly
  <1>2. \A i \in closing' : i \in DOMAIN procs /\ procs[i].state # "starting"
    <2>1. ASSUME NEW s \in Servers, clients[s] # NoClient
          PROVE  clients[s].proc \in DOMAIN procs /\ procs[clients[s].proc].state # "starting"
      BY <1>1, <2>1 DEF ServersInv, ServerInv, ClientInv, OnlyOpen
    <2> QED BY <1>1, <2>1 DEF Registered
  <1>3. ASSUME pc # "reload", NEW i \in DOMAIN procs
        PROVE  procs[i].state \in {"closed", "leaked"} \/ i \in closing'
    <2>1. procs[i] \in Process
      BY <1>1 DEF ShapeInv
    <2>2. PICK s \in Servers : s = procs[i].server
      BY <2>1 DEF Process
    <2>3. procs[i].state \in {"starting", "up", "leaked", "closed"}
      BY <2>1 DEF Process
    <2>4. op.do = "idle" /\ boot[s] # "starting" /\ OwnedInv(s)
      BY <1>1, <1>3 DEF ShapeInv, ManageInv, ServersInv, ServerInv
    <2>5. procs[i].state # "starting"
      BY <2>2, <2>4 DEF OwnedInv
    <2>6. procs[i].state = "up" => clients[s] # NoClient /\ clients[s].proc = i
      BY <2>2, <2>4 DEF OwnedInv
    <2> QED BY <1>1, <2>3, <2>5, <2>6 DEF Registered
  <1> QED BY <1>1, <1>2, <1>3 DEF ManageInv

LEMMA ManageClosing == ASSUME DaemonInv, Closing PROVE ManageInv'
  <1> ManageInv /\ ShapeInv BY DEF DaemonInv
  <1>1. ASSUME NEW c \in closing, ChildClosed(c) \/ ChildCloseTimesOut(c) PROVE ManageInv'
    <2>1. /\ closing' = closing \ {c} /\ UNCHANGED <<manage, boot, pc, exit, seen>>
          /\ \/ procs' = procs /\ procs[c].state = "closed"
             \/ \E st \in {"closed", "leaked"} : procs' = SetState(c, st)
      BY <1>1 DEF ChildClosed, ChildCloseTimesOut, CloseOnly
    <2>2. c \in DOMAIN procs /\ procs[c].state # "starting" /\ manage = "closed"
      BY DEF ManageInv
    <2>3. /\ DOMAIN procs' = DOMAIN procs /\ procs'[c].state \in {"closed", "leaked"}
          /\ \A i \in DOMAIN procs : i # c => procs'[i] = procs[i]
      <3>1. ASSUME NEW st \in {"closed", "leaked"}, procs' = SetState(c, st)
            PROVE  /\ DOMAIN procs' = DOMAIN procs /\ procs'[c].state \in {"closed", "leaked"}
                   /\ \A i \in DOMAIN procs : i # c => procs'[i] = procs[i]
        BY <2>2, <3>1, StateStep
      <3> QED BY <2>1, <3>1
    <2> QED BY <2>1, <2>2, <2>3 DEF ManageInv
  <1>2. CASE ManageEnds
    BY <1>2 DEF ManageEnds, CloseOnly, ManageInv
  <1> QED BY <1>1, <1>2, ManageCloseAll DEF Closing

LEMMA ManageReload == ASSUME DaemonInv, ReloadStep PROVE ManageInv'
  <1>1. pc = "reload" /\ ReloadOnly /\ seen \subseteq seen'
    BY ReloadStepKeeps DEF ReloadStep, Stopped, StopTimesOut, StartServer, CannotStart, Initialized, InitFails,
                           Tracked, StopServer, UpdateTools, AddServer
  <1>2. ManageInv /\ ShapeInv /\ UNCHANGED <<manage, boot, closing, pc, exit>>
    BY <1>1 DEF DaemonInv, ReloadOnly, MainOnly
  <1>3. \A i \in closing : i \in DOMAIN procs' /\ procs'[i].state # "starting"
    <2>1. CASE StartServer
      <3>1. op.server \in Servers /\ Spawn(op.server, target[op.server], "reload")
        BY <1>2, <2>1 DEF ShapeInv, StartServer
      <3>2. \A i \in DOMAIN procs : i \in DOMAIN procs' /\ procs'[i] = procs[i]
        BY <1>2, <3>1, SpawnStep, FirstEntry
      <3> QED BY <1>2, <3>2 DEF ManageInv
    <2>2. CASE ~StartServer
      <3>1. \/ procs' = procs
            \/ /\ op.do \in {"stop", "init"}
               /\ \E st \in {"closed", "leaked", "up"} : procs' = SetState(op.proc, st)
        BY <2>2 DEF ReloadStep, Stopped, StopTimesOut, StartServer, CannotStart, Initialized, InitFails, Tracked,
               StopServer, UpdateTools, AddServer
      <3>2. ASSUME op.do \in {"stop", "init"}, NEW st \in {"closed", "leaked", "up"}, procs' = SetState(op.proc, st)
            PROVE  \A i \in DOMAIN procs : /\ i \in DOMAIN procs'
                                           /\ procs[i].state # "starting" => procs'[i].state # "starting"
        BY <1>1, <1>2, <3>2, HandProc, StateStep
      <3> QED BY <1>2, <3>1, <3>2 DEF ManageInv
    <2> QED BY <2>1, <2>2
  <1>4. manage \in {"closed", "ended"} => "late" \in seen'
    BY <1>1, <1>2 DEF ManageInv
  <1> QED BY <1>2, <1>3, <1>4 DEF ManageInv

LEMMA ManageStep == ASSUME DaemonInv, [Next]_vars PROVE ManageInv'
  <1> ManageInv BY DEF DaemonInv
  <1>1. CASE Asking
    BY <1>1, ManageKept DEF Asking, Hup, Terminate, EditFile, SignalOnly, manager
  <1>2. CASE TakeReload
    <2>1. pc = "select" /\ UNCHANGED <<procs, manage, boot, closing>> /\ seen \subseteq seen'
      BY <1>2 DEF TakeReload, MainOnly
    <2>2. CASE file = Broken
      <3>1. pc' = "exited" /\ exit' = "reload"
        BY <1>2, <2>2 DEF TakeReload, Leave
      <3> QED BY <2>1, <3>1 DEF ManageInv
    <2>3. CASE file # Broken
      <3>1. pc' = "reload" /\ exit' = exit /\ (manage \in {"closed", "ended"} => "late" \in seen')
        BY <1>2, <2>3 DEF TakeReload
      <3> QED BY <2>1, <3>1 DEF ManageInv
    <2> QED BY <2>2, <2>3
  <1>3. CASE ReloadEnds
    <2>1. /\ pc = "reload" /\ UNCHANGED <<procs, manage, boot, closing, seen>>
          /\ \/ pc' = "exited" /\ exit' = "reload"
             \/ pc' = "select" /\ exit' = exit
      BY <1>3 DEF ReloadEnds, MainOnly, Leave
    <2> QED BY <2>1 DEF ManageInv
  <1>4. CASE NoticeShutdown \/ Return
    <2>1. /\ pc \in {"select", "waiting"} /\ UNCHANGED <<procs, manage, boot, closing, seen>>
          /\ \/ pc' = "exited" /\ exit' \in {"manager", "graceful"} /\ manage = "ended"
             \/ pc' = "waiting" /\ exit' = exit
      BY <1>4 DEF NoticeShutdown, Return, MainOnly, Leave
    <2> QED BY <2>1 DEF ManageInv
  <1>5. CASE Exited \/ UNCHANGED vars
    BY <1>5, ManageKept DEF Exited, vars, manager
  <1> QED BY <1>1, <1>2, <1>3, <1>4, <1>5, ManageBooting, ManagePinging, ManageClosing, ManageReload, MainSteps
      DEF Next

-----------------------------------------------------------------------------
(***************************************************************************)
(* What can end the daemon.                                                *)
(***************************************************************************)
LEMMA CauseGrows == ASSUME seen \subseteq seen' PROVE Cause => Cause'
  BY DEF Cause

LEMMA EndsKept ==
  ASSUME EndsInv, UNCHANGED <<bootError, exit, boot, pc, failed, manage>>, seen \subseteq seen' PROVE EndsInv'
  BY CauseGrows DEF EndsInv

LEMMA EndsBooting == ASSUME DaemonInv, Booting PROVE EndsInv'
  <1> EndsInv /\ DOMAIN boot = Servers BY DEF DaemonInv, CauseInv, KeepInv, RegistriesShape
  <1>1. UNCHANGED <<exit, pc, failed>> /\ seen \subseteq seen'
    BY DEF Booting, BootSpawn, BootCannotSpawn, BootInitialized, BootInitFails, BootTracked, BootOnly, BootEnds,
           reload
  <1>2. ASSUME NEW s \in Servers, \/ BootSpawn(s) \/ BootCannotSpawn(s) \/ BootInitialized(s)
                                  \/ BootInitFails(s) \/ BootTracked(s)
        PROVE  EndsInv'
    <2>1. UNCHANGED <<manage, bootError>>
      BY <1>2 DEF BootSpawn, BootCannotSpawn, BootInitialized, BootInitFails, BootTracked, BootOnly
    <2>2. \/ boot'[s] # "failed" /\ \A t \in Servers \ {s} : boot'[t] = boot[t]
          \/ "start" \in seen'
      BY <1>2 DEF BootSpawn, BootCannotSpawn, BootInitialized, BootInitFails, BootTracked
    <2>3. "start" \in seen' => Cause'
      BY DEF Cause
    <2> QED BY <1>1, <2>1, <2>2, <2>3, CauseGrows DEF EndsInv
  <1>3. CASE BootEnds
    <2>1. /\ manage = "boot" /\ UNCHANGED <<boot, seen>>
          /\ bootError' = bootError \/ \E s \in Servers : boot[s] = "failed"
      BY <1>3 DEF BootEnds
    <2> QED BY <1>1, <2>1, CauseGrows DEF EndsInv
  <1> QED BY <1>2, <1>3 DEF Booting

LEMMA EndsPinging == ASSUME DaemonInv, Pinging PROVE EndsInv'
  <1> EndsInv /\ RoundInv BY DEF DaemonInv, CauseInv
  <1>1. UNCHANGED <<boot, exit, pc, failed>> /\ seen \subseteq seen'
    BY DEF Pinging, PingLookup, PingExpired, PingAnswered, PingFails, PingRecorded, RoundEnds, Tick, Interrupted, ApiFails,
           PingOnly, reload
  <1>2. /\ manage' = manage \/ manage' \in {"loop", "tick", "closing"}
        /\ bootError' = bootError \/ "api" \in seen' \/ (manage = "firstping" /\ pingError)
    BY DEF Pinging, PingLookup, PingExpired, PingAnswered, PingFails, PingRecorded, RoundEnds, Tick, Interrupted, ApiFails
  <1>3. "api" \in seen' => Cause'
    BY DEF Cause
  <1>4. manage = "firstping" /\ pingError => Cause
    BY DEF RoundInv, Cause
  <1> QED BY <1>1, <1>2, <1>3, <1>4, CauseGrows DEF EndsInv

LEMMA EndsReload == ASSUME DaemonInv, ReloadStep PROVE EndsInv'
  <1> EndsInv /\ PlanHasClients BY DEF DaemonInv, CauseInv
  <1>1. pc = "reload" /\ ReloadOnly /\ seen \subseteq seen'
    BY ReloadStepKeeps DEF ReloadStep, Stopped, StopTimesOut, StartServer, CannotStart, Initialized, InitFails,
                           Tracked, StopServer, UpdateTools, AddServer
  <1>2. UNCHANGED <<manage, boot, bootError, pc, exit>>
    BY <1>1 DEF ReloadOnly, MainOnly
  <1>3. failed' = failed \/ Cause'
    <2>1. ASSUME NEW s \in Servers, NEW k \in {"remove", "restart"}, StopServer(k, s) \/ UpdateTools(s)
          PROVE  failed' = failed \/ Cause'
      <3>1. op = Idle /\ seen' = seen /\ s \in plan.update \cup plan.restart \cup plan.remove
        BY <2>1 DEF StopServer, UpdateTools, Turn
      <3>2. failed' = failed \/ clients[s] = NoClient
        BY <2>1 DEF StopServer, UpdateTools
      <3>3. ~Busy(s)
        BY <3>1 DEF Busy, Idle
      <3> QED BY <1>1, <3>1, <3>2, <3>3, CauseGrows DEF PlanHasClients
    <2>2. ASSUME \/ Stopped \/ StopTimesOut \/ StartServer \/ CannotStart \/ Initialized \/ InitFails \/ Tracked
                 \/ \E s \in Servers : AddServer(s)
          PROVE  failed' = failed \/ "stop" \in seen' \/ "start" \in seen'
      BY <2>2 DEF Stopped, StopTimesOut, StartServer, CannotStart, Initialized, InitFails, Tracked, AddServer
    <2>3. "stop" \in seen' \/ "start" \in seen' => Cause'
      BY DEF Cause
    <2> QED BY <2>1, <2>2, <2>3 DEF ReloadStep
  <1> QED BY <1>1, <1>2, <1>3, CauseGrows DEF EndsInv

LEMMA EndsStep == ASSUME DaemonInv, [Next]_vars PROVE EndsInv'
  <1> EndsInv BY DEF DaemonInv, CauseInv
  <1>1. CASE Asking
    BY <1>1, EndsKept DEF Asking, Hup, Terminate, EditFile, SignalOnly, manager, reload
  <1>2. CASE Closing
    <2>1. UNCHANGED <<bootError, exit, boot, pc, failed>> /\ seen \subseteq seen'
          /\ manage' \in {"closed", "ended", manage}
      BY <1>2 DEF Closing, CloseAll, ManageEnds, ChildClosed, ChildCloseTimesOut, CloseOnly, reload
    <2> QED BY <2>1, CauseGrows DEF EndsInv
  <1>3. CASE TakeReload
    <2>1. /\ pc = "select" /\ UNCHANGED <<manage, boot, bootError>> /\ seen \subseteq seen' /\ failed' = FALSE
      BY <1>3 DEF TakeReload, MainOnly
    <2>2. CASE file = Broken
      <3>1. pc' = "exited" /\ "config" \in seen'
        BY <1>3, <2>2 DEF TakeReload, Leave
      <3>2. Cause'
        BY <3>1 DEF Cause
      <3> QED BY <2>1, <3>1, <3>2, CauseGrows DEF EndsInv
    <2>3. CASE file # Broken
      <3>1. pc' = "reload" /\ exit' = exit /\ (manage \in {"boot", "firstping"} => "early" \in seen')
        BY <1>3, <2>3 DEF TakeReload
      <3> QED BY <2>1, <3>1, CauseGrows DEF EndsInv
    <2> QED BY <2>2, <2>3
  <1>4. CASE ReloadEnds
    <2>1. /\ pc = "reload" /\ UNCHANGED <<manage, boot, bootError, seen>>
          /\ \/ pc' = "exited" /\ exit' = "reload" /\ failed
             \/ pc' = "select" /\ exit' = exit
      BY <1>4 DEF ReloadEnds, MainOnly, Leave
    <2> QED BY <2>1, CauseGrows DEF EndsInv
  <1>5. CASE NoticeShutdown \/ Return
    <2>1. /\ UNCHANGED <<manage, boot, bootError, seen>> /\ pc' \in {"exited", "waiting"}
          /\ exit' \in {"graceful", exit} \/ bootError
      BY <1>5 DEF NoticeShutdown, Return, MainOnly, Leave
    <2> QED BY <2>1, CauseGrows DEF EndsInv
  <1>6. CASE Exited \/ UNCHANGED vars
    BY <1>6, EndsKept DEF Exited, vars, manager, reload
  <1> QED BY <1>1, <1>2, <1>3, <1>4, <1>5, <1>6, EndsBooting, EndsPinging, EndsReload, MainSteps DEF Next

LEMMA PlanKept ==
  ASSUME PlanHasClients, UNCHANGED <<plan, op, pc>>, seen \subseteq seen',
         \A s \in Servers : clients[s] # NoClient => clients'[s] # NoClient,
         \A k \in Kinds : plan[k] \subseteq Servers, DOMAIN plan = Kinds
  PROVE  PlanHasClients'
  <1>1. \A s \in plan.update \cup plan.restart \cup plan.remove : s \in Servers
    BY DEF Kinds
  <1> QED BY <1>1, CauseGrows DEF PlanHasClients, Busy

\* A step of a reload about s, which stays in hand or leaves the plan.
LEMMA PlanShrinks ==
  ASSUME PlanHasClients, pc = "reload", seen \subseteq seen', NEW s,
         op.do = "idle" \/ op.server = s, \A t \in Servers \ {s} : clients'[t] = clients[t],
         \A k \in Kinds : plan'[k] \subseteq plan[k] /\ plan[k] \subseteq Servers,
         Busy(s)' \/ s \notin plan'.update \cup plan'.restart \cup plan'.remove
  PROVE  PlanHasClients'
  <1> SUFFICES ASSUME ~Cause', NEW t \in plan'.update \cup plan'.restart \cup plan'.remove
               PROVE  Busy(t)' \/ clients'[t] # NoClient
    BY DEF PlanHasClients
  <1>1. ~Cause /\ t \in plan.update \cup plan.restart \cup plan.remove /\ t \in Servers
    BY CauseGrows DEF Kinds
  <1>2. CASE t = s
    BY <1>2
  <1>3. CASE t # s
    BY <1>1, <1>3 DEF PlanHasClients, Busy
  <1> QED BY <1>2, <1>3

LEMMA DidLeaves ==
  ASSUME KeepInv, NEW k \in Kinds, NEW s, Did(k, s), s \in plan[k], PlannedInv(s), pc = "reload"
  PROVE  /\ \A j \in Kinds : plan'[j] \subseteq plan[j]
         /\ s \notin plan'.update \cup plan'.restart \cup plan'.remove
  <1>1. \A j \in Kinds : plan'[j] = IF j = k THEN plan[j] \ {s} ELSE plan[j]
    BY DidDrops
  <1>2. s \notin plan'.remove /\ s \notin plan'.restart /\ s \notin plan'.update
    BY <1>1 DEF PlannedInv, Kinds
  <1> QED BY <1>1, <1>2

LEMMA PlanReload == ASSUME DaemonInv, ReloadStep PROVE PlanHasClients'
  <1>1. pc = "reload" /\ ReloadOnly /\ seen \subseteq seen'
    BY ReloadStepKeeps DEF ReloadStep, Stopped, StopTimesOut, StartServer, CannotStart, Initialized, InitFails,
                           Tracked, StopServer, UpdateTools, AddServer
  <1>2. /\ PlanHasClients /\ KeepInv /\ ShapeInv /\ ServersInv /\ DOMAIN plan = Kinds
        /\ DOMAIN clients = Servers /\ \A k \in Kinds : plan[k] \subseteq Servers
    BY <1>1 DEF DaemonInv, CauseInv, KeepInv, RegistriesShape, PlanInv, Kinds
  <1>3. ASSUME NEW s \in Servers, NEW k \in {"remove", "restart"}, StopServer(k, s) PROVE PlanHasClients'
    <2>1. op = Idle /\ s \in plan[k] /\ op.do = "idle" /\ k \in Kinds /\ PlannedInv(s)
      BY <1>2, <1>3 DEF StopServer, Turn, Idle, Kinds, ServersInv, ServerInv
    <2>2. CASE clients[s] = NoClient
      <3>1. Did(k, s) /\ clients' = clients
        BY <1>3, <2>2 DEF StopServer, registries
      <3> QED BY <1>1, <1>2, <2>1, <3>1, DidLeaves, PlanShrinks
    <2>3. CASE clients[s] # NoClient
      <3>1. /\ clients' = [clients EXCEPT ![s] = NoClient] /\ plan' = plan
            /\ op' = [do |-> "stop", server |-> s, proc |-> clients[s].proc]
        BY <1>3, <2>3 DEF StopServer
      <3>2. Busy(s)' /\ \A t \in Servers \ {s} : clients'[t] = clients[t]
        BY <1>2, <3>1 DEF Busy
      <3> QED BY <1>1, <1>2, <2>1, <3>1, <3>2, PlanShrinks
    <2> QED BY <2>2, <2>3
  <1>4. ASSUME NEW s \in Servers, UpdateTools(s) PROVE PlanHasClients'
    <2>1. op = Idle /\ s \in plan.update /\ op.do = "idle" /\ PlannedInv(s) /\ Did("update", s)
      BY <1>2, <1>4 DEF UpdateTools, Turn, Idle, ServersInv, ServerInv
    <2>2. \A t \in Servers \ {s} : clients'[t] = clients[t]
      BY <1>2, <1>4 DEF UpdateTools
    <2> QED BY <1>1, <1>2, <2>1, <2>2, DidLeaves, PlanShrinks DEF Kinds
  <1>5. ASSUME NEW s \in Servers, AddServer(s) PROVE PlanHasClients'
    <2>1. op = Idle /\ op.do = "idle" /\ plan' = plan /\ clients' = clients /\ Busy(s)'
      BY <1>5 DEF AddServer, Turn, Idle, registries, Busy
    <2> QED BY <1>1, <1>2, <2>1, PlanShrinks
  <1>6. ASSUME Stopped \/ StopTimesOut \/ StartServer \/ CannotStart \/ Initialized \/ InitFails \/ Tracked
        PROVE  PlanHasClients'
    <2>p. PICK s : s = op.server
      OBVIOUS
    <2>1. op.do # "idle"
      BY <1>6 DEF Stopped, StopTimesOut, StartServer, CannotStart, Initialized, InitFails, Tracked
    <2>2. ServerInv(s) /\ Busy(s) /\ DOMAIN op = {"do", "server", "proc"}
      BY <1>1, <2>p, <2>1, HandFacts
    <2>3. PlannedInv(s)
      BY <2>2 DEF ServerInv
    <2>4. \A t \in Servers \ {s} : clients'[t] = clients[t]
      BY <1>2, <1>6, <2>p DEF Stopped, StopTimesOut, StartServer, CannotStart, Initialized, InitFails, Tracked,
                               registries, AddClient
    <2>5. \/ plan' = plan /\ Busy(s)'
          \/ \E k \in Kinds : s \in plan[k] /\ Did(k, s)
      <3>1. CASE StartServer \/ Initialized
        BY <2>p, <2>2, <3>1 DEF StartServer, Initialized, Busy
      <3>2. CASE CannotStart \/ InitFails \/ Tracked
        <4>1. StartDone /\ op.do \notin {"stop", "idle"}
          BY <3>2 DEF CannotStart, InitFails, Tracked
        <4>2. s \in plan.restart \cup plan.add
          BY <2>2, <4>1 DEF ServerInv, HandInv
        <4> QED BY <2>p, <4>1, <4>2, StartIsDone
      <3>3. CASE Stopped \/ StopTimesOut
        <4>1. op.do = "stop"
          BY <3>3 DEF Stopped, StopTimesOut
        <4>2. s \in plan.remove \cup plan.restart
          BY <2>2, <4>1 DEF ServerInv, HandInv
        <4>3. CASE s \in plan.restart
          <5>1. (plan' = plan /\ op' = [op EXCEPT !.do = "start"]) \/ Did("restart", s)
            BY <2>p, <3>3, <4>3 DEF Stopped, StopTimesOut
          <5> QED BY <2>p, <2>2, <4>3, <5>1 DEF Busy, Kinds
        <4>4. CASE s \notin plan.restart
          <5>1. Did("remove", s)
            BY <2>p, <3>3, <4>4 DEF Stopped, StopTimesOut
          <5> QED BY <4>2, <4>4, <5>1 DEF Kinds
        <4> QED BY <4>3, <4>4
      <3> QED BY <1>6, <3>1, <3>2, <3>3
    <2>6. CASE plan' = plan /\ Busy(s)'
      BY <1>1, <1>2, <2>p, <2>4, <2>6, PlanShrinks
    <2>7. ASSUME NEW k \in Kinds, s \in plan[k], Did(k, s) PROVE PlanHasClients'
      BY <1>1, <1>2, <2>p, <2>3, <2>4, <2>7, DidLeaves, PlanShrinks
    <2> QED BY <2>5, <2>6, <2>7
  <1> QED BY <1>3, <1>4, <1>5, <1>6 DEF ReloadStep

LEMMA PlanTaken == ASSUME DaemonInv, TakeReload PROVE PlanHasClients'
  <1>1. CASE file = Broken
    BY <1>1 DEF TakeReload, Leave, PlanHasClients
  <1>2. CASE file # Broken
    <2>1. /\ pc = "select" /\ plan' = Categorize(served, file) /\ clients' = clients
          /\ manage \in {"boot", "firstping"} => "early" \in seen'
          /\ seen \subseteq seen'
      BY <1>2 DEF TakeReload, registries
    <2>2. manage \in {"boot", "firstping"} => Cause'
      BY <2>1 DEF Cause
    <2>3. ASSUME NEW s \in Servers, served[s] # Absent, clients[s] = NoClient PROVE Cause \/ manage = "boot"
      <3>1. Awaiting(s) \/ boot[s] = "failed" \/ Serves(s, served[s])
        BY <2>1, <2>3 DEF DaemonInv, ServersInv, ServerInv, ServedInv
      <3>2. ~Serves(s, served[s])
        BY <2>3 DEF Serves
      <3>3. Awaiting(s) => manage = "boot"
        BY DEF DaemonInv, ManageInv, Awaiting
      <3>4. boot[s] = "failed" => Cause
        BY DEF DaemonInv, CauseInv, EndsInv
      <3> QED BY <3>1, <3>2, <3>3, <3>4
    <2>4. \A s \in plan'.update \cup plan'.restart \cup plan'.remove : s \in Servers /\ served[s] # Absent
      BY <2>1 DEF Categorize
    <2> QED BY <2>1, <2>2, <2>3, <2>4, CauseGrows DEF PlanHasClients
  <1> QED BY <1>1, <1>2

LEMMA PlanStep == ASSUME DaemonInv, [Next]_vars PROVE PlanHasClients'
  <1> /\ PlanHasClients /\ DOMAIN plan = Kinds /\ DOMAIN clients = Servers
      /\ pc = "reload" => \A k \in Kinds : plan[k] \subseteq Servers
    BY DEF DaemonInv, CauseInv, KeepInv, RegistriesShape, PlanInv, Kinds
  <1>1. ASSUME UNCHANGED <<clients, plan, op, pc>>, seen \subseteq seen' PROVE PlanHasClients'
    BY <1>1, PlanKept DEF PlanHasClients
  <1>2. CASE Booting
    <2>1. UNCHANGED <<plan, op, pc>> /\ seen \subseteq seen'
      BY <1>2, BootingKeeps DEF reload, Booting, BootSpawn, BootCannotSpawn, BootInitialized, BootInitFails, BootTracked, BootEnds
    <2>2. ASSUME NEW s \in Servers, clients[s] # NoClient PROVE clients'[s] # NoClient
      <3>1. ASSUME NEW u \in Servers, BootInitialized(u) PROVE clients'[s] = clients[s]
        <4>1. Alive /\ boot[u] = "starting" /\ clients' = AddClient(u, BootProc(u), first[u])
          BY <3>1 DEF BootInitialized
        <4>2. clients[u] = NoClient
          BY <4>1, BootProcIs
        <4> QED BY <2>2, <4>1, <4>2 DEF AddClient
      <3>2. ASSUME NEW u \in Servers, BootSpawn(u) \/ BootCannotSpawn(u) \/ BootInitFails(u) \/ BootTracked(u)
            PROVE  clients' = clients
        BY <3>2 DEF BootSpawn, BootCannotSpawn, BootInitFails, BootTracked, registries
      <3>3. BootEnds => clients' = clients
        BY DEF BootEnds, registries
      <3> QED BY <1>2, <2>2, <3>1, <3>2, <3>3 DEF Booting
    <2> QED BY <2>1, <2>2, PlanKept DEF PlanHasClients
  <1>3. CASE Pinging
    <2>1. seen \subseteq seen'
      BY <1>3 DEF Pinging, PingLookup, PingExpired, PingAnswered, PingFails, PingRecorded, RoundEnds, Tick, Interrupted, ApiFails
    <2> QED BY <1>1, <1>3, <2>1, PingingKeeps DEF reload
  <1>4. CASE Closing \/ Asking
    <2>1. seen \subseteq seen'
      BY <1>4 DEF Closing, CloseAll, ManageEnds, ChildClosed, ChildCloseTimesOut, CloseOnly,
                  Asking, Hup, Terminate, EditFile, SignalOnly
    <2> QED BY <1>1, <1>4, <2>1, ClosingKeeps, AskingKeeps DEF reload, registries
  <1>5. CASE ReloadEnds \/ NoticeShutdown \/ Return
    BY <1>5 DEF ReloadEnds, NoticeShutdown, Return, Leave, PlanHasClients
  <1>6. CASE Exited \/ UNCHANGED vars
    BY <1>1, <1>6 DEF Exited, vars, registries, reload
  <1> QED BY <1>2, <1>3, <1>4, <1>5, <1>6, PlanReload, PlanTaken, MainSteps DEF Next

LEMMA RoundKept ==
  ASSUME RoundInv, UNCHANGED <<manage, listed, sent, pingError, boot, registries>>, seen \subseteq seen'
  PROVE  RoundInv'
  BY DEF RoundInv, registries

LEMMA RoundBooting == ASSUME DaemonInv, Booting PROVE RoundInv'
  <1> RoundInv /\ DOMAIN boot = Servers /\ DOMAIN clients = Servers /\ DOMAIN health = Servers
    BY DEF DaemonInv, CauseInv, KeepInv, RegistriesShape
  <1>1. seen \subseteq seen'
    BY DEF Booting, BootSpawn, BootCannotSpawn, BootInitialized, BootInitFails, BootTracked, BootEnds
  <1>2. ASSUME NEW s \in Servers,
               \/ BootSpawn(s) \/ BootCannotSpawn(s) \/ BootInitialized(s) \/ BootInitFails(s) \/ BootTracked(s)
        PROVE  RoundInv'
    <2>1. /\ boot[s] # "none" /\ boot'[s] # "none" /\ \A t \in Servers \ {s} : boot'[t] = boot[t]
          /\ UNCHANGED <<manage, listed, sent, pingError>>
      BY <1>2 DEF BootSpawn, BootCannotSpawn, BootInitialized, BootInitFails, BootTracked, BootOnly
    <2>2. \A t \in Servers \ {s} : clients'[t] = clients[t]
      BY <1>2 DEF BootSpawn, BootCannotSpawn, BootInitialized, BootInitFails, BootTracked, AddClient, registries
    <2>3. \A t \in Servers : health[t] # Untracked => health'[t] # Untracked
      BY <1>2 DEF BootSpawn, BootCannotSpawn, BootInitialized, BootInitFails, BootTracked, Track, Unknown, Untracked,
                  registries
    <2>4. boot[s] \in {"todo", "starting", "added"}
      BY <1>2 DEF BootSpawn, BootCannotSpawn, BootInitialized, BootInitFails, BootTracked
    <2>5. manage = "boot"
      BY <2>4 DEF DaemonInv, ManageInv
    <2>6. manage' = "boot" /\ listed' = {} /\ sent' = {} /\ ~pingError'
      BY <2>1, <2>5 DEF RoundInv
    <2> QED BY <1>1, <2>1, <2>2, <2>3, <2>5, <2>6 DEF RoundInv
  <1>3. CASE BootEnds
    <2>1. /\ manage = "boot" /\ manage' \in {"closing", "firstping"} /\ UNCHANGED <<sent, pingError, boot, registries>>
          /\ manage' = "firstping" => listed' = Registered
      BY <1>3 DEF BootEnds
    <2> QED BY <1>1, <2>1 DEF RoundInv, registries, Registered
  <1> QED BY <1>2, <1>3 DEF Booting

LEMMA RoundPinging == ASSUME DaemonInv, Pinging PROVE RoundInv'
  <1> RoundInv /\ DOMAIN health = Servers
    BY DEF DaemonInv, CauseInv, KeepInv, RegistriesShape
  <1>1. ASSUME NEW s \in Servers, PingLookup(s) PROVE RoundInv'
    <2>1. /\ s \in listed /\ listed' = listed \ {s} /\ UNCHANGED <<manage, boot, clients, health, seen>>
          /\ clients[s] # NoClient => sent' = sent \cup {<<s, clients[s].proc>>} /\ pingError' = pingError
      BY <1>1 DEF PingLookup, PingOnly
    <2>2. manage # "boot"
      BY <2>1 DEF RoundInv
    <2>3. ASSUME manage = "firstping", "early" \notin seen
          PROVE  /\ clients[s] # NoClient /\ health[s] # Untracked
                 /\ sent' = sent \cup {<<s, clients[s].proc>>} /\ pingError' = pingError
      BY <2>1, <2>3 DEF RoundInv
    <2> QED BY <2>1, <2>2, <2>3 DEF RoundInv
  <1>2. ASSUME NEW p \in sent, PingAnswered(p[1], p[2]) \/ PingFails(p[1], p[2]) PROVE RoundInv'
    <2>1. PICK st \in {"ok", "bad"} : PingRecorded(p[1], p[2], st)
      BY <1>2 DEF PingAnswered, PingFails
    <2>2. sent' \subseteq sent /\ UNCHANGED <<manage, boot, clients, listed, seen>>
      BY <2>1 DEF PingRecorded, PingOnly
    <2>3. manage # "boot"
      BY DEF RoundInv
    <2>4. [status |-> st, of |-> p[2]] # Untracked
      BY DEF Untracked
    <2>5. \A t \in Servers : health[t] # Untracked => health'[t] # Untracked
      BY <2>1, <2>4 DEF PingRecorded
    <2>6. manage = "firstping" /\ "early" \notin seen => health[p[1]] # Untracked
      BY DEF RoundInv
    <2>7. health[p[1]] # Untracked => pingError' = pingError
      BY <2>1 DEF PingRecorded
    <2> QED BY <2>2, <2>3, <2>5, <2>6, <2>7 DEF RoundInv
  <1>3. CASE RoundEnds \/ Tick \/ Interrupted \/ ApiFails
    BY <1>3 DEF RoundEnds, Tick, Interrupted, ApiFails, RoundInv
  <1>4. ASSUME NEW s \in Servers, PingExpired(s) PROVE RoundInv'
    <2>1. /\ s \in listed /\ listed' = listed \ {s} /\ UNCHANGED <<manage, boot, clients, health, sent>>
          /\ seen' = IF manage = "firstping" THEN seen \cup {"expired"} ELSE seen
      BY <1>4 DEF PingExpired, PingOnly
    <2>2. manage # "boot"
      BY <2>1 DEF RoundInv
    <2>3. CASE manage = "firstping"
      <3>1. seen' = seen \cup {"expired"} /\ manage' = "firstping"
        BY <2>1, <2>3
      <3> QED BY <2>1, <2>3, <3>1 DEF RoundInv
    <2>4. CASE manage # "firstping"
      BY <2>1, <2>2, <2>4 DEF RoundInv
    <2> QED BY <2>3, <2>4
  <1> QED BY <1>1, <1>2, <1>3, <1>4 DEF Pinging

LEMMA RoundStep == ASSUME DaemonInv, [Next]_vars PROVE RoundInv'
  <1> RoundInv BY DEF DaemonInv, CauseInv
  <1>1. CASE Closing
    <2>1. manage \notin {"boot", "firstping"} /\ manage' \notin {"boot", "firstping"}
      BY <1>1 DEF Closing, CloseAll, ManageEnds, ChildClosed, ChildCloseTimesOut, DaemonInv, ManageInv
    <2> QED BY <2>1 DEF RoundInv
  <1>2. CASE Asking
    BY <1>2, RoundKept DEF Asking, Hup, Terminate, EditFile, SignalOnly, manager
  <1>3. CASE TakeReload
    BY <1>3, RoundKept DEF TakeReload, MainOnly
  <1>4. CASE ReloadStep
    <2>1. pc = "reload" /\ ReloadOnly /\ seen \subseteq seen'
      BY <1>4, ReloadStepKeeps DEF ReloadStep, Stopped, StopTimesOut, StartServer, CannotStart, Initialized, InitFails,
                                   Tracked, StopServer, UpdateTools, AddServer
    <2>2. UNCHANGED <<manage, listed, sent, pingError>>
      BY <2>1 DEF ReloadOnly, MainOnly
    <2>3. manage \in {"boot", "firstping"} => "early" \in seen'
      BY <2>1 DEF DaemonInv, CauseInv, EndsInv
    <2> QED BY <2>2, <2>3 DEF RoundInv
  <1>5. CASE ReloadEnds \/ NoticeShutdown \/ Return
    BY <1>5, RoundKept DEF ReloadEnds, NoticeShutdown, Return, MainOnly
  <1>6. CASE Exited \/ UNCHANGED vars
    BY <1>6, RoundKept DEF Exited, vars, manager
  <1> QED BY <1>1, <1>2, <1>3, <1>4, <1>5, <1>6, RoundBooting, RoundPinging, MainSteps DEF Next

-----------------------------------------------------------------------------
(***************************************************************************)
(* The theorems.                                                           *)
(***************************************************************************)
LEMMA DaemonStep == ASSUME DaemonInv, [Next]_vars PROVE DaemonInv'
  <1>1. KeepInv'
    BY KeepStep DEF DaemonInv
  <1> QED BY <1>1, ShapeStep, ServersStep, ManageStep, EndsStep, PlanStep, RoundStep DEF DaemonInv, CauseInv

LEMMA DaemonInit == ASSUME Init PROVE DaemonInv
  <1>1. KeepInv
    BY KeepInit
  <1>2. op = Idle /\ op.do = "idle" /\ procs = <<>> /\ DOMAIN procs = {}
    BY DEF Init, Idle
  <1>3. ShapeInv
    <2>1. procs \in Seq(Process)
      BY <1>2
    <2>2. first \in Configs /\ served \in Configs /\ target \in Configs /\ file \in Configs
      BY DaemonAssumption DEF Init
    <2>3. failed \in BOOLEAN /\ pc = "select"
      BY DEF Init
    <2> QED BY <1>2, <2>1, <2>2, <2>3 DEF ShapeInv
  <1>4. ServersInv
    <2> SUFFICES ASSUME NEW s \in Servers PROVE ServerInv(s)
      BY DEF ServersInv
    <2>1. clients[s] = NoClient /\ NoneOpen(s) /\ ~Busy(s) /\ pc = "select" /\ served = first
      BY <1>2 DEF Init, NoneOpen, Busy
    <2>2. ClientInv(s) /\ HandInv(s) /\ PlannedInv(s)
      BY <2>1 DEF ClientInv, HandInv, PlannedInv
    <2>3. BootedInv(s) /\ OwnedInv(s)
      <3>1. boot[s] \in {"none", "todo"}
        BY DEF Init
      <3> QED BY <1>2, <2>1, <3>1 DEF BootedInv, OwnedInv
    <2>4. ServedInv(s) /\ FailedInv(s)
      <3>1. boot[s] = IF served[s] = Absent THEN "none" ELSE "todo"
        BY DEF Init
      <3> QED BY <2>1, <3>1 DEF ServedInv, FailedInv, Awaiting, Equals
    <2> QED BY <2>2, <2>3, <2>4 DEF ServerInv
  <1>5. ManageInv
    BY <1>2 DEF Init, ManageInv
  <1>6. CauseInv
    <2>1. /\ \A s \in Servers : boot[s] \in {"none", "todo"}
          /\ \A s \in Servers : clients[s] = NoClient
      BY DEF Init
    <2>2. \A s \in Servers : boot[s] # "none" => health[s] # Untracked
      BY DEF Init, Unknown, Untracked
    <2> QED BY <2>1, <2>2 DEF Init, CauseInv, EndsInv, PlanHasClients, RoundInv
  <1> QED BY <1>1, <1>3, <1>4, <1>5, <1>6 DEF DaemonInv

LEMMA DaemonKeeps == Spec => []DaemonInv
  <1>1. Init => DaemonInv
    BY DaemonInit
  <1>2. DaemonInv /\ [Next]_vars => DaemonInv'
    BY DaemonStep
  <1> QED BY <1>1, <1>2, PTL DEF Spec

\* Whenever the main loop is between reloads and the health check loop runs,
\* exactly the configured servers are registered, each with its tools, with a
\* process that runs with its settings and with a health record
\* (ReloadServers, startMCPServers and pingAllServers of daemon.go).
THEOREM ServesConfig == Spec => []ServingMatchesConfig
  <1>1. DaemonInv => ServingMatchesConfig
    <2> SUFFICES ASSUME DaemonInv, pc = "select", manage \in {"loop", "tick"}, NEW s \in Servers
                 PROVE  IF served[s] = Absent
                        THEN clients[s] = NoClient
                        ELSE /\ clients[s] # NoClient
                             /\ clients[s].tools = served[s].tools
                             /\ procs[clients[s].proc].entry.conf = served[s].conf
                             /\ procs[clients[s].proc].state = "up"
                             /\ health[s] # Untracked
      BY DEF ServingMatchesConfig
    <2>1. ServerInv(s) /\ boot[s] \in {"none", "done"} /\ op.do = "idle"
      BY DEF DaemonInv, ServersInv, ManageInv, ShapeInv
    <2>2. CASE served[s] = Absent
      BY <2>1, <2>2 DEF ServerInv, ServedInv
    <2>3. CASE served[s] # Absent
      <3>1. Serves(s, served[s])
        BY <2>1, <2>3 DEF ServerInv, ServedInv, Awaiting
      <3>2. procs[clients[s].proc].state = "up" /\ health[s] # Untracked
        BY <2>1, <3>1 DEF ServerInv, ClientInv, Serves
      <3> QED BY <2>3, <3>1, <3>2 DEF Serves
    <2> QED BY <2>2, <2>3
  <1> QED BY <1>1, DaemonKeeps, PTL

\* No server has two processes that have not ended, none is left behind by a
\* daemon that returns after StartAndManage, and the daemon does not give up,
\* but for the causes the code has (stopMCPServer, closeAllClients and the main
\* loop of cmd/daemon.go).
THEOREM AllAccounted == Spec => []ProcessesAccounted
  <1>1. DaemonInv => OneProcessPerServer
    <2> SUFFICES ASSUME DaemonInv, NEW s \in Servers
                 PROVE  Cardinality({i \in DOMAIN procs : procs[i].server = s /\ procs[i].state # "closed"}) <= 1
      BY DEF OneProcessPerServer
    <2> DEFINE open == {i \in DOMAIN procs : procs[i].server = s /\ procs[i].state # "closed"}
    <2>1. \A i, j \in open : i = j
      BY DEF DaemonInv, ServersInv, ServerInv, OwnedInv
    <2>2. open = {} \/ \E i : open = {i}
      BY <2>1
    <2> HIDE DEF open
    <2>3. Cardinality(open) <= 1
      <3>1. CASE open = {}
        BY <3>1, FS_EmptySet
      <3>2. ASSUME NEW i, open = {i} PROVE Cardinality(open) <= 1
        BY <3>2, FS_Singleton
      <3> QED BY <2>2, <3>1, <3>2
    <2> QED BY <2>3 DEF open
  <1>2. DaemonInv => OrphansHaveCause
    BY DEF DaemonInv, ManageInv, OrphansHaveCause
  <1>3. DaemonInv => ExitHasCause
    BY DEF DaemonInv, CauseInv, EndsInv, Cause, ExitHasCause
  <1> QED BY <1>1, <1>2, <1>3, DaemonKeeps, PTL DEF ProcessesAccounted
=============================================================================
