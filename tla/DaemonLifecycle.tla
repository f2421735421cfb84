--------------------------- MODULE DaemonLifecycle ---------------------------
(***************************************************************************)
(* The mcpd daemon process: boot, health checks, hot reload and shutdown   *)
(* (src/mcpd/internal/daemon/daemon.go, client_manager.go,                 *)
(* health_tracker.go and the main loop of src/mcpd/cmd/daemon.go).         *)
(*                                                                         *)
(* Four threads of control share the client manager and the health         *)
(* tracker: the goroutines that start the servers at boot, the health      *)
(* check loop with one goroutine per ping, the main loop, which runs the   *)
(* reloads, and the signal handler.  Each lock-protected access is one     *)
(* step; spawning a process, waiting for its Initialize and waiting for    *)
(* its Close are separate steps, because the other threads run meanwhile.  *)
(*                                                                         *)
(* Server names are already normalised.  A server's configuration is       *)
(* [conf, vols, tools]: conf stands for every field the code compares      *)
(* besides the tools, vols for the static volume table, tools for the      *)
(* allow-list ({} when it is empty).                                       *)
(***************************************************************************)
EXTENDS Naturals, Sequences, FiniteSets

CONSTANTS Servers,      \* normalised server names
          Configs,      \* configurations the file may hold, [Servers -> entry or Absent]
          Absent,       \* the server is not in the configuration
          Broken,       \* the file cannot be loaded or does not validate
          Boots,        \* configurations the daemon may be started with
          Faults,       \* subset of {"spawn","init","close","ping","api"}
          MaxEdits,     \* bound on edits of the file
          MaxHups       \* bound on SIGHUPs

ASSUME DaemonAssumption ==
    /\ Boots \subseteq Configs
    /\ Broken \notin Configs
    /\ Faults \subseteq {"spawn", "init", "close", "ping", "api"}
    /\ MaxEdits \in Nat /\ MaxHups \in Nat

NoClient  == [proc |-> 0, tools |-> {}]
Untracked == [status |-> "untracked", of |-> 0]
Unknown   == [status |-> "unknown", of |-> 0]
Idle      == [do |-> "idle", server |-> CHOOSE s \in Servers : TRUE, proc |-> 0]
NoPlan    == [remove |-> {}, update |-> {}, restart |-> {}, add |-> {}]

VARIABLES
    file,       \* what .mcpd.toml and the runtime file hold now
    first,      \* deps.RuntimeServers, the configuration the daemon boots
    served,     \* d.runtimeServers
    clients,    \* the client manager: name -> process and tools
    health,     \* the health tracker; "of" is the process the result is about
    procs,      \* every process started: server, entry, who started it, state
    boot,       \* progress of startMCPServer for each server at boot
    manage,     \* where StartAndManage is
    bootError,  \* StartAndManage is to return an error other than Canceled
    listed,     \* names of the current ping round not looked up yet
    sent,       \* pings under way, <<name, process>>
    pingError,  \* some ping of the round returned an error
    closing,    \* processes closeAllClients still waits for
    pc,         \* where the main loop is: "select", "reload", "waiting", "exited"
    target,     \* newServers of the reload under way
    plan,       \* the reload's changes still to be carried out
    op,         \* the stop or start the reload is in the middle of
    failed,     \* the reload has collected an error
    reloading,  \* reloadState.reloading
    queued,     \* reloadState.reloadChan holds a request
    shutdown,   \* shutdownCtx is cancelled
    exit,       \* how run returned
    seen,       \* history: what has happened that can end the daemon
    edits, hups

registries == <<clients, health>>
manager    == <<boot, manage, bootError, listed, sent, pingError, closing>>
reload     == <<served, target, plan, op, failed>>
signals    == <<reloading, queued, shutdown, hups>>
world      == <<file, first, edits>>
vars == <<registries, procs, manager, reload, signals, world, pc, exit, seen>>

TypeOK ==
    /\ file \in Configs \cup {Broken} /\ {first, served, target} \subseteq Configs
    /\ \A s \in Servers :
         /\ clients[s] # NoClient => clients[s].proc \in DOMAIN procs
         /\ health[s].of = 0 \/ health[s].of \in DOMAIN procs
         /\ health[s].status \in {"untracked", "unknown", "ok", "bad"}
         /\ boot[s] \in {"none", "todo", "starting", "added", "done", "failed"}
    /\ \A i \in DOMAIN procs :
         /\ procs[i].server \in Servers /\ procs[i].by \in {"boot", "reload"}
         /\ procs[i].state \in {"starting", "up", "leaked", "closed"}
    /\ manage \in {"boot", "firstping", "loop", "tick", "closing", "closed", "ended"}
    /\ listed \subseteq Servers /\ sent \subseteq Servers \X DOMAIN procs
    /\ closing \subseteq DOMAIN procs
    /\ {bootError, pingError, failed, reloading, queued, shutdown} \subseteq BOOLEAN
    /\ pc \in {"select", "reload", "waiting", "exited"}
    /\ exit \in {"no", "graceful", "manager", "reload"}
    /\ op.do \in {"idle", "stop", "start", "init", "track"} /\ op.server \in Servers
    /\ \A k \in DOMAIN plan : plan[k] \subseteq Servers
    /\ seen \subseteq {"config", "start", "stop", "api", "early", "late", "expired"}
    /\ edits \in 0..MaxEdits /\ hups \in 0..MaxHups

(* NewDaemon: every configured server is tracked as unknown, none is       *)
(* started yet.                                                            *)
Init ==
    /\ file \in Boots /\ first = file /\ served = file /\ target = file
    /\ clients = [s \in Servers |-> NoClient]
    /\ health = [s \in Servers |-> IF served[s] = Absent THEN Untracked ELSE Unknown]
    /\ procs = <<>>
    /\ boot = [s \in Servers |-> IF served[s] = Absent THEN "none" ELSE "todo"]
    /\ manage = "boot" /\ bootError = FALSE
    /\ listed = {} /\ sent = {} /\ pingError = FALSE /\ closing = {}
    /\ pc = "select" /\ plan = NoPlan /\ op = Idle /\ failed = FALSE
    /\ reloading = FALSE /\ queued = FALSE /\ shutdown = FALSE
    /\ exit = "no" /\ seen = {} /\ edits = 0 /\ hups = 0

Alive == pc # "exited"

(***************************************************************************)
(* Parts of startMCPServer shared by boot and reload.                      *)
(***************************************************************************)
(* Early returns before a process exists: no tools, or exec fails.         *)
CannotSpawn(entry) == entry.tools = {} \/ "spawn" \in Faults
CanSpawn(entry)    == entry.tools # {}

Spawn(s, entry, by) ==
    procs' = Append(procs, [server |-> s, entry |-> entry, by |-> by, state |-> "starting"])

SetState(i, st) == [procs EXCEPT ![i].state = st]

(* clientManager.Add, and healthTracker.Add, a no-op on a tracked name.    *)
AddClient(s, i, entry) == [clients EXCEPT ![s] = [proc |-> i, tools |-> entry.tools]]
Track(s) == IF health[s] = Untracked THEN [health EXCEPT ![s] = Unknown] ELSE health

(* Initialize fails by itself, or because its context is cancelled.  The   *)
(* error return leaves the process open.                                   *)
MayFailInit == "init" \in Faults \/ shutdown

(***************************************************************************)
(* StartAndManage: startMCPServers, one goroutine per server.              *)
(***************************************************************************)
BootProc(s) == CHOOSE i \in DOMAIN procs : procs[i].server = s /\ procs[i].by = "boot"

BootOnly == UNCHANGED <<bootError, listed, sent, pingError, closing,
                        reload, signals, world, pc, exit>>

BootSpawn(s) ==
    /\ Alive /\ boot[s] = "todo" /\ CanSpawn(first[s])
    /\ Spawn(s, first[s], "boot")
    /\ boot' = [boot EXCEPT ![s] = "starting"]
    /\ BootOnly /\ UNCHANGED <<registries, manage, seen>>

BootCannotSpawn(s) ==
    /\ Alive /\ boot[s] = "todo" /\ CannotSpawn(first[s])
    /\ boot' = [boot EXCEPT ![s] = "failed"]
    /\ seen' = seen \cup {"start"}
    /\ BootOnly /\ UNCHANGED <<registries, procs, manage>>

BootInitialized(s) ==
    /\ Alive /\ boot[s] = "starting"
    /\ procs' = SetState(BootProc(s), "up")
    /\ clients' = AddClient(s, BootProc(s), first[s])
    /\ boot' = [boot EXCEPT ![s] = "added"]
    /\ BootOnly /\ UNCHANGED <<health, manage, seen>>

BootInitFails(s) ==
    /\ Alive /\ boot[s] = "starting" /\ MayFailInit
    /\ procs' = SetState(BootProc(s), "leaked")
    /\ boot' = [boot EXCEPT ![s] = "failed"]
    /\ seen' = seen \cup {"start"}
    /\ BootOnly /\ UNCHANGED <<registries, manage>>

BootTracked(s) ==
    /\ Alive /\ boot[s] = "added"
    /\ health' = Track(s)
    /\ boot' = [boot EXCEPT ![s] = "done"]
    /\ BootOnly /\ UNCHANGED <<clients, procs, manage, seen>>

(* An error that wraps Canceled is not reported as one by run.             *)
Reported == bootError' \in IF shutdown THEN BOOLEAN ELSE {TRUE}

Registered == {s \in Servers : clients[s] # NoClient}

(* runGroup.Wait: every goroutine has returned.  The collected errors end  *)
(* StartAndManage; otherwise the API and the health check loop start, the  *)
(* latter with a round of pings of every name the client manager lists.    *)
BootEnds ==
    /\ Alive /\ manage = "boot"
    /\ \A s \in Servers : boot[s] \in {"none", "done", "failed"}
    /\ IF \E s \in Servers : boot[s] = "failed"
       THEN manage' = "closing" /\ Reported /\ UNCHANGED listed
       ELSE manage' = "firstping" /\ listed' = Registered /\ UNCHANGED bootError
    /\ UNCHANGED <<registries, procs, boot, sent, pingError, closing,
                   reload, signals, world, pc, exit, seen>>

(***************************************************************************)
(* healthCheckLoop, pingAllServers and pingServer.                         *)
(***************************************************************************)
PingOnly == UNCHANGED <<clients, procs, boot, closing, reload, signals, world, pc, exit>>

(* The client is looked up by name when the goroutine runs.                *)
PingLookup(s) ==
    /\ Alive /\ s \in listed
    /\ listed' = listed \ {s}
    /\ IF clients[s] = NoClient
       THEN pingError' = TRUE /\ UNCHANGED sent
       ELSE sent' = sent \cup {<<s, clients[s].proc>>} /\ UNCHANGED pingError
    /\ PingOnly /\ UNCHANGED <<health, manage, bootError, seen>>

(* The context of the round has ended, by its timeout or by the daemon's   *)
(* end, before the goroutine runs: an error, and no record of the server.  *)
PingExpired(s) ==
    /\ Alive /\ s \in listed
    /\ "ping" \in Faults \/ shutdown \/ "api" \in seen
    /\ listed' = listed \ {s} /\ pingError' = TRUE
    /\ seen' = IF manage = "firstping" THEN seen \cup {"expired"} ELSE seen
    /\ PingOnly /\ UNCHANGED <<health, manage, bootError, sent>>

(* Ping has returned and healthTracker.Update runs: by name, whatever      *)
(* process the name stands for by now, and an error on an untracked name.  *)
PingRecorded(s, i, status) ==
    /\ Alive /\ <<s, i>> \in sent
    /\ sent' = sent \ {<<s, i>>}
    /\ IF health[s] = Untracked
       THEN pingError' = TRUE /\ UNCHANGED health
       ELSE health' = [health EXCEPT ![s] = [status |-> status, of |-> i]] /\ UNCHANGED pingError
    /\ PingOnly /\ UNCHANGED <<manage, bootError, listed, seen>>

PingAnswered(s, i) == PingRecorded(s, i, "ok")

(* Timed out, cancelled, or the process is gone.                           *)
PingFails(s, i) ==
    /\ "ping" \in Faults \/ shutdown \/ procs[i].state # "up"
    /\ PingRecorded(s, i, "bad")

(* Errors of the first round end the loop and with it the daemon; later    *)
(* ones are only logged.                                                   *)
RoundEnds ==
    /\ Alive /\ manage \in {"firstping", "tick"} /\ listed = {} /\ sent = {}
    /\ IF manage = "firstping" /\ pingError
       THEN manage' = "closing" /\ Reported
       ELSE manage' = "loop" /\ UNCHANGED bootError
    /\ pingError' = FALSE
    /\ PingOnly /\ UNCHANGED <<health, listed, sent, seen>>

(* Tick as it would be if it pinged the servers not heard of yet only.     *)
TickUnknown ==
    /\ Alive /\ manage = "loop" /\ ~shutdown
    /\ manage' = "tick" /\ listed' = {s \in Registered : health[s] = Unknown}
    /\ PingOnly /\ UNCHANGED <<health, bootError, sent, pingError, seen>>

Tick ==
    /\ Alive /\ manage = "loop" /\ ~shutdown
    /\ manage' = "tick" /\ listed' = Registered
    /\ PingOnly /\ UNCHANGED <<health, bootError, sent, pingError, seen>>

(* A cancelled context ends API and loop, not waiting for stuck pings.     *)
Interrupted ==
    /\ Alive /\ shutdown /\ manage \in {"firstping", "loop", "tick"}
    /\ manage' = "closing"
    /\ PingOnly /\ UNCHANGED <<health, bootError, listed, sent, pingError, seen>>

(* The API server fails; the errgroup cancels the health check loop.       *)
ApiFails ==
    /\ Alive /\ "api" \in Faults /\ manage \in {"firstping", "loop", "tick"}
    /\ manage' = "closing" /\ bootError' = TRUE /\ seen' = seen \cup {"api"}
    /\ PingOnly /\ UNCHANGED <<health, listed, sent, pingError>>

(***************************************************************************)
(* closeAllClients, deferred by StartAndManage: the clients listed now     *)
(* are closed concurrently, each with a timeout, and stay registered.      *)
(***************************************************************************)
CloseOnly == UNCHANGED <<registries, boot, bootError, listed, sent, pingError,
                         reload, signals, world, pc, exit>>

CloseAll ==
    /\ Alive /\ manage = "closing"
    /\ manage' = "closed" /\ closing' = {clients[s].proc : s \in Registered}
    /\ seen' = IF pc = "reload" THEN seen \cup {"late"} ELSE seen
    /\ CloseOnly /\ UNCHANGED procs

ChildClosed(i) ==
    /\ Alive /\ i \in closing
    /\ closing' = closing \ {i} /\ procs' = SetState(i, "closed")
    /\ CloseOnly /\ UNCHANGED <<manage, seen>>

ChildCloseTimesOut(i) ==
    /\ Alive /\ i \in closing /\ "close" \in Faults
    /\ closing' = closing \ {i}
    /\ procs' = IF procs[i].state = "closed" THEN procs ELSE SetState(i, "leaked")
    /\ CloseOnly /\ UNCHANGED <<manage, seen>>

(* StartAndManage returns; the main goroutine's runErr is sent or closed.  *)
ManageEnds ==
    /\ Alive /\ manage = "closed" /\ closing = {}
    /\ manage' = "ended"
    /\ CloseOnly /\ UNCHANGED <<procs, closing, seen>>

(***************************************************************************)
(* handleSignals and the user.                                             *)
(***************************************************************************)
SignalOnly == UNCHANGED <<registries, procs, manager, reload, pc, exit, seen>>

EditFile(c) ==
    /\ Alive /\ edits < MaxEdits /\ c # file
    /\ file' = c /\ edits' = edits + 1
    /\ SignalOnly /\ UNCHANGED <<first, signals>>

(* Hup as it would be if a request were queued whatever the flag says.     *)
HupUnguarded ==
    /\ Alive /\ hups < MaxHups /\ ~shutdown
    /\ hups' = hups + 1 /\ reloading' = TRUE /\ queued' = TRUE
    /\ SignalOnly /\ UNCHANGED <<shutdown, world>>

(* The flag is set by compare-and-swap, the channel send does not block;   *)
(* a request while one is pending is dropped.  After a termination signal  *)
(* the handler has returned.                                               *)
Hup ==
    /\ Alive /\ hups < MaxHups /\ ~shutdown
    /\ hups' = hups + 1 /\ reloading' = TRUE
    /\ queued' = (queued \/ ~reloading)
    /\ SignalOnly /\ UNCHANGED <<shutdown, world>>

Terminate ==
    /\ Alive /\ ~shutdown /\ shutdown' = TRUE
    /\ SignalOnly /\ UNCHANGED <<reloading, queued, hups, world>>

(***************************************************************************)
(* The main loop of run and reloadServers.                                 *)
(***************************************************************************)
Leave(how) == pc' = "exited" /\ exit' = how

(* Server.Equals does not compare the static volume table, and             *)
(* EqualsExceptTools is Equals with the tools set aside.                   *)
EqualsExceptTools(a, b) == a.conf = b.conf /\ a.tools # b.tools
Equals(a, b)            == a.conf = b.conf /\ a.tools = b.tools

(* Categorize as it would be if unchanged servers were restarted too.      *)
CategorizeRestartAll(old, new) ==
    LET kept == {s \in Servers : old[s] # Absent /\ new[s] # Absent}
        tool == {s \in kept : EqualsExceptTools(old[s], new[s])}
    IN [remove  |-> {s \in Servers : old[s] # Absent /\ new[s] = Absent},
        update  |-> tool,
        restart |-> kept \ tool,
        add     |-> {s \in Servers : old[s] = Absent /\ new[s] # Absent}]

(* ReloadServers sorts the names by what changed.                          *)
Categorize(old, new) ==
    LET kept == {s \in Servers : old[s] # Absent /\ new[s] # Absent}
        same == {s \in kept : Equals(old[s], new[s])}
        tool == {s \in kept : EqualsExceptTools(old[s], new[s])}
    IN [remove  |-> {s \in Servers : old[s] # Absent /\ new[s] = Absent},
        update  |-> tool,
        restart |-> kept \ (same \cup tool),
        add     |-> {s \in Servers : old[s] = Absent /\ new[s] # Absent}]

MainOnly == UNCHANGED <<boot, manage, bootError, listed, sent, pingError, closing, world>>

(* TakeReload as it would be if the configuration were cached.             *)
TakeReloadCached ==
    /\ pc = "select" /\ queued
    /\ queued' = FALSE /\ pc' = "reload" /\ target' = served /\ plan' = NoPlan /\ failed' = FALSE
    /\ MainOnly /\ UNCHANGED <<registries, procs, served, op, reloading, shutdown, hups, exit, seen>>

(* The request is taken and the files are loaded and validated before      *)
(* anything changes; an error makes run return at once.                    *)
TakeReload ==
    /\ pc = "select" /\ queued
    /\ queued' = FALSE
    /\ IF file = Broken
       THEN /\ Leave("reload") /\ seen' = seen \cup {"config"}
            /\ UNCHANGED <<target, plan>>
       ELSE /\ pc' = "reload" /\ target' = file /\ plan' = Categorize(served, file)
            /\ seen' = seen \cup (IF manage \in {"boot", "firstping"} THEN {"early"} ELSE {})
                            \cup (IF manage \in {"closed", "ended"} THEN {"late"} ELSE {})
            /\ UNCHANGED exit
    /\ failed' = FALSE
    /\ MainOnly /\ UNCHANGED <<registries, procs, served, op, reloading, shutdown, hups>>

(* The reload works through removals, tool updates, restarts and           *)
(* additions in that order, each set in map or slice order.                *)
Turn(kind) ==
    /\ pc = "reload" /\ op = Idle
    /\ kind # "remove"             => plan.remove = {}
    /\ kind \in {"restart", "add"} => plan.update = {}
    /\ kind = "add"                => plan.restart = {}

ReloadOnly == MainOnly /\ UNCHANGED <<served, target, signals, pc, exit>>

Did(kind, s) == plan' = [plan EXCEPT ![kind] = @ \ {s}]

(* stopMCPServer: an unknown name is an error; a known one leaves both     *)
(* registries before its process is closed.                                *)
StopServer(kind, s) ==
    /\ Turn(kind) /\ s \in plan[kind]
    /\ IF clients[s] = NoClient
       THEN /\ failed' = TRUE /\ Did(kind, s)
            /\ UNCHANGED <<registries, op>>
       ELSE /\ clients' = [clients EXCEPT ![s] = NoClient]
            /\ health' = [health EXCEPT ![s] = Untracked]
            /\ op' = [do |-> "stop", server |-> s, proc |-> clients[s].proc]
            /\ UNCHANGED <<failed, plan>>
    /\ ReloadOnly /\ UNCHANGED <<procs, seen>>

(* A removed server is done with, a restarted one is started next.         *)
Stopped ==
    /\ pc = "reload" /\ op.do = "stop"
    /\ procs' = SetState(op.proc, "closed")
    /\ IF op.server \in plan.restart
       THEN op' = [op EXCEPT !.do = "start"] /\ UNCHANGED plan
       ELSE op' = Idle /\ Did("remove", op.server)
    /\ ReloadOnly /\ UNCHANGED <<registries, failed, seen>>

(* StopTimesOut as it would be if a restart went on after the timeout.     *)
StopTimesOutRestarts ==
    /\ pc = "reload" /\ op.do = "stop" /\ "close" \in Faults
    /\ procs' = IF procs[op.proc].state = "closed" THEN procs ELSE SetState(op.proc, "leaked")
    /\ failed' = TRUE /\ seen' = seen \cup {"stop"}
    /\ IF op.server \in plan.restart
       THEN op' = [op EXCEPT !.do = "start"] /\ UNCHANGED plan
       ELSE op' = Idle /\ Did("remove", op.server)
    /\ ReloadOnly /\ UNCHANGED registries

StopTimesOut ==
    /\ pc = "reload" /\ op.do = "stop" /\ "close" \in Faults
    /\ procs' = IF procs[op.proc].state = "closed" THEN procs ELSE SetState(op.proc, "leaked")
    /\ failed' = TRUE /\ op' = Idle /\ seen' = seen \cup {"stop"}
    /\ Did(IF op.server \in plan.restart THEN "restart" ELSE "remove", op.server)
    /\ ReloadOnly /\ UNCHANGED registries

UpdateTools(s) ==
    /\ Turn("update") /\ s \in plan.update
    /\ IF clients[s] = NoClient
       THEN failed' = TRUE /\ UNCHANGED clients
       ELSE clients' = [clients EXCEPT ![s].tools = target[s].tools] /\ UNCHANGED failed
    /\ Did("update", s)
    /\ ReloadOnly /\ UNCHANGED <<health, procs, op, seen>>

AddServer(s) ==
    /\ Turn("add") /\ s \in plan.add
    /\ op' = [do |-> "start", server |-> s, proc |-> 0]
    /\ ReloadOnly /\ UNCHANGED <<registries, procs, plan, failed, seen>>

(* startMCPServer within the reload.                                       *)
StartDone == op' = Idle /\ Did(IF op.server \in plan.restart THEN "restart" ELSE "add", op.server)

StartServer ==
    /\ pc = "reload" /\ op.do = "start" /\ CanSpawn(target[op.server])
    /\ Spawn(op.server, target[op.server], "reload")
    /\ op' = [op EXCEPT !.do = "init", !.proc = Len(procs) + 1]
    /\ ReloadOnly /\ UNCHANGED <<registries, plan, failed, seen>>

CannotStart ==
    /\ pc = "reload" /\ op.do = "start" /\ CannotSpawn(target[op.server])
    /\ failed' = TRUE /\ StartDone /\ seen' = seen \cup {"start"}
    /\ ReloadOnly /\ UNCHANGED <<registries, procs>>

Initialized ==
    /\ pc = "reload" /\ op.do = "init"
    /\ procs' = SetState(op.proc, "up")
    /\ clients' = AddClient(op.server, op.proc, target[op.server])
    /\ op' = [op EXCEPT !.do = "track"]
    /\ ReloadOnly /\ UNCHANGED <<health, plan, failed, seen>>

InitFails ==
    /\ pc = "reload" /\ op.do = "init" /\ MayFailInit
    /\ procs' = SetState(op.proc, "leaked")
    /\ failed' = TRUE /\ StartDone /\ seen' = seen \cup {"start"}
    /\ ReloadOnly /\ UNCHANGED registries

Tracked ==
    /\ pc = "reload" /\ op.do = "track"
    /\ health' = Track(op.server)
    /\ StartDone
    /\ ReloadOnly /\ UNCHANGED <<clients, procs, failed, seen>>

(* ReloadEnds as it would be if the daemon ran on after a failed reload.   *)
ReloadEndsRunsOn ==
    /\ pc = "reload" /\ op = Idle /\ plan = NoPlan
    /\ served' = target /\ pc' = "select" /\ reloading' = FALSE
    /\ MainOnly /\ UNCHANGED <<registries, procs, target, plan, op, failed, queued, shutdown, hups, exit, seen>>

(* runtimeServers is replaced even after errors; then run either returns   *)
(* the error, cancelling nothing it waits for, or clears the flag.         *)
ReloadEnds ==
    /\ pc = "reload" /\ op = Idle /\ plan = NoPlan
    /\ served' = target
    /\ IF failed
       THEN Leave("reload") /\ UNCHANGED reloading
       ELSE pc' = "select" /\ reloading' = FALSE /\ UNCHANGED exit
    /\ MainOnly /\ UNCHANGED <<registries, procs, target, plan, op, failed, queued, shutdown, hups, seen>>

(* The other two cases of the select: wait for StartAndManage after a      *)
(* termination signal, and return with it when it ends by itself.          *)
NoticeShutdown ==
    /\ pc = "select" /\ shutdown /\ pc' = "waiting"
    /\ MainOnly /\ UNCHANGED <<registries, procs, reload, signals, exit, seen>>

(* Return as it would be if a clean end of StartAndManage sent run back    *)
(* into its loop.                                                          *)
ReturnOnError ==
    /\ pc \in {"select", "waiting"} /\ manage = "ended"
    /\ IF bootError THEN Leave("manager") ELSE pc' = "select" /\ UNCHANGED exit
    /\ MainOnly /\ UNCHANGED <<registries, procs, reload, signals, seen>>

Return ==
    /\ pc \in {"select", "waiting"} /\ manage = "ended"
    /\ Leave(IF bootError THEN "manager" ELSE "graceful")
    /\ MainOnly /\ UNCHANGED <<registries, procs, reload, signals, seen>>

Exited == pc = "exited" /\ UNCHANGED vars
-----------------------------------------------------------------------------
Booting == \/ \E s \in Servers : \/ BootSpawn(s) \/ BootCannotSpawn(s) \/ BootInitialized(s)
                                 \/ BootInitFails(s) \/ BootTracked(s)
           \/ BootEnds
Pinging == \/ \E s \in Servers : PingLookup(s) \/ PingExpired(s)
           \/ \E p \in sent : PingAnswered(p[1], p[2]) \/ PingFails(p[1], p[2])
           \/ RoundEnds \/ Tick \/ Interrupted \/ ApiFails
Closing == \/ CloseAll \/ ManageEnds
           \/ \E i \in closing : ChildClosed(i) \/ ChildCloseTimesOut(i)
Asking  == Hup \/ Terminate \/ \E c \in Configs \cup {Broken} : EditFile(c)
Reloading ==
    \/ TakeReload \/ Stopped \/ StopTimesOut \/ StartServer \/ CannotStart
    \/ Initialized \/ InitFails \/ Tracked \/ ReloadEnds
    \/ \E s \in Servers : \/ StopServer("remove", s) \/ StopServer("restart", s)
                          \/ UpdateTools(s) \/ AddServer(s)
Main == Reloading \/ NoticeShutdown \/ Return

Next == Booting \/ Pinging \/ Closing \/ Asking \/ Main \/ Exited

Spec == Init /\ [][Next]_vars

(* The Go runtime schedules every goroutine, and every wait on a process   *)
(* is bounded by a timeout.  No server's look-up comes too late in every   *)
(* round, which starts its goroutines at once.  Signals and edits are not  *)
(* owed.                                                                   *)
Fairness ==
    /\ \A s \in Servers : /\ WF_vars(BootSpawn(s) \/ BootCannotSpawn(s))
                          /\ WF_vars(BootInitialized(s) \/ BootInitFails(s))
                          /\ WF_vars(BootTracked(s)) /\ SF_vars(PingLookup(s))
    /\ WF_vars(BootEnds) /\ WF_vars(RoundEnds) /\ WF_vars(Tick) /\ WF_vars(Interrupted)
    /\ WF_vars(\E p \in sent : PingAnswered(p[1], p[2]) \/ PingFails(p[1], p[2]))
    /\ WF_vars(Closing) /\ WF_vars(Main)

FairSpec == Spec /\ Fairness
-----------------------------------------------------------------------------
(* Whenever the main loop is between reloads and the health loop runs,     *)
(* the servers registered are exactly those of the configuration last      *)
(* loaded, each with its tools, a live process started with its settings   *)
(* and a health record: the daemon never runs partially failed             *)
(* (docs/configuration.md:206), even when reloads overlapped the boot.     *)
ServingMatchesConfig ==
    pc = "select" /\ manage \in {"loop", "tick"} =>
    \A s \in Servers :
      IF served[s] = Absent
      THEN clients[s] = NoClient
      ELSE /\ clients[s] # NoClient
           /\ clients[s].tools = served[s].tools
           /\ procs[clients[s].proc].entry.conf = served[s].conf
           /\ procs[clients[s].proc].state = "up"
           /\ health[s] # Untracked

(* The reloading flag is set exactly while a request is queued or being    *)
(* carried out, so a SIGHUP is dropped only then and the non-blocking send *)
(* of handleSignals never finds the channel full.                          *)
FlagMeansPending == Alive => (reloading <=> queued \/ pc = "reload")

(* No server ever has two processes, not even next to one that did not     *)
(* close in time or failed to initialize: the restart is given up instead. *)
OneProcessPerServer ==
    Alive => \A s \in Servers :
      Cardinality({i \in DOMAIN procs : procs[i].server = s /\ procs[i].state # "closed"}) <= 1

(* A registered server changes its process or tools, or loses its health   *)
(* record, only in a reload that changes its configuration: unchanged      *)
(* servers keep connection, tools and health (docs/configuration.md:96).   *)
UnchangedKeepsClient ==
    [][\A s \in Servers :
         \/ clients[s] # NoClient /\ clients'[s] # clients[s]
         \/ health[s] # Untracked /\ health'[s] = Untracked
         => pc = "reload" /\ target[s] # served[s]]_vars

(* When run returns after StartAndManage, every process is closed, but for *)
(* those that failed to initialize or to close in time, and those a reload *)
(* overlapping closeAllClients started.  (A failed reload waits for none.) *)
OrphansHaveCause ==
    exit \in {"graceful", "manager"} /\ "late" \notin seen =>
    \A i \in DOMAIN procs : procs[i].state \in {"closed", "leaked"}

(* The daemon ends by itself only after a configuration error, a failed    *)
(* start or stop, an API failure, or a first round of pings whose time was *)
(* up before a server's turn, unless a reload was taken before that round  *)
(* was over, when names disappear under boot's feet.                       *)
ExitHasCause ==
    exit \in {"manager", "reload"} => seen \cap {"config", "start", "stop", "api", "early", "expired"} # {}

(* No process runs twice or is left behind, and the daemon does not give   *)
(* up, but for a cause.                                                    *)
ProcessesAccounted == OneProcessPerServer /\ OrphansHaveCause /\ ExitHasCause

(* After a termination signal the process exits: every wait has a timeout. *)
ShutdownCompletes == shutdown ~> pc = "exited"

(* An accepted SIGHUP loads the file as it is when the signal is accepted, *)
(* or a later version of it, unless the daemon exits first.                *)
QueuedReloadLoads ==
    \A c \in Configs : queued /\ file = c ~> served = c \/ file # c \/ pc = "exited"

(* A ping of a server's former process may be recorded after its restart;  *)
(* the record does not stay that way while the daemon runs.                *)
Stale(s) == health[s].of # 0 /\ clients[s] # NoClient /\ health[s].of # clients[s].proc
StaleHealthHeals == \A s \in Servers : Stale(s) ~> ~Stale(s) \/ manage \in {"closing", "closed", "ended"} \/ pc = "exited"
-----------------------------------------------------------------------------
(* Statements of the documentation and the comments that the code breaks.  *)

(* docs/configuration.md:100: a server whose configuration changes, other  *)
(* than its tools, is restarted with the new settings; the static volume   *)
(* table is not compared.                                                  *)
VolumesApplied ==
    pc = "select" /\ manage \in {"loop", "tick"} =>
    \A s \in Servers : clients[s] # NoClient => procs[clients[s].proc].entry.vols = served[s].vols

(* daemon.go:281: the standard error of a server is piped to the log; the  *)
(* goroutine ends with its context, the errgroup's that is cancelled as    *)
(* soon as startMCPServers returns.                                        *)
Pumped(i) == ~shutdown /\ (procs[i].by = "boot" => manage = "boot")
OutputIsPiped == manage = "loop" /\ ~shutdown => \A s \in Registered : Pumped(clients[s].proc)

-----------------------------------------------------------------------------
(***************************************************************************)
(* The inductive invariants behind FlagMeansPending and                    *)
(* UnchangedKeepsClient.                                                   *)
(***************************************************************************)
(* While a reload is carried out the channel is empty.                     *)
FlagInv ==
    /\ reloading \in BOOLEAN /\ queued \in BOOLEAN
    /\ FlagMeansPending
    /\ pc = "reload" => ~queued

RegistriesShape ==
    /\ DOMAIN clients = Servers /\ DOMAIN health = Servers /\ DOMAIN boot = Servers
    /\ DOMAIN plan = {"remove", "update", "restart", "add"}
    /\ DOMAIN op = {"do", "server", "proc"}

(* A reload only ever has servers in hand whose configuration changes.     *)
PlanInv ==
    /\ pc # "reload" => op = Idle
    /\ pc = "reload" =>
         /\ \A k \in DOMAIN plan : \A s \in plan[k] : s \in Servers /\ target[s] # served[s]
         /\ \A s \in plan.add : served[s] = Absent
         /\ op # Idle => target[op.server] # served[op.server]

(* A server that boot has yet to register is configured and not registered *)
(* by anyone else; a reload that drops it from the configuration fails.    *)
BootInv ==
    Alive => \A s \in Servers : boot[s] \in {"todo", "starting"} =>
      /\ clients[s] = NoClient /\ served[s] # Absent
      /\ pc = "reload" => /\ target[s] # Absent \/ s \in plan.remove \/ failed
                          /\ op # Idle => op.server # s

KeepInv == RegistriesShape /\ PlanInv /\ BootInv
=============================================================================
