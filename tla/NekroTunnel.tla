---------------------------- MODULE NekroTunnel ----------------------------
(***************************************************************************)
(* The Telegram-only tunnel of Modules/NekroEngine as the application runs *)
(* it (split=1 kpatch=1 surgery=0 routeguard=0):                           *)
(*                                                                         *)
(*  - TGRouteCoordinator, one operation at a time on its serial queue,     *)
(*    runs the commands stop, warp-tunnel, netcheck and register of the    *)
(*    root helper through a bridge that serves one command at a time;      *)
(*  - warp-tunnel forks a daemon and returns; the daemon changes the       *)
(*    kernel's scoped routing, adds routes, and undoes this in cleanup();  *)
(*  - the commands know the daemon by a pid file, and stop undoes what a   *)
(*    daemon that died without its cleanup left, from files in /tmp.       *)
(*                                                                         *)
(* A daemon may be killed at any step (Killed) and so may the application, *)
(* and a file, a host route or a value of scoped routing may be refused at *)
(* any step; MaxFaults bounds how often.  A daemon is as slow as it likes: *)
(* it may scan kernel memory before it writes its pid file, and a command  *)
(* may come at any moment of that.                                         *)
(* All networks of routes= stand for one.  The tunnel device goes with its *)
(* process, and the kernel drops the routes through it.                    *)
(***************************************************************************)
EXTENDS Naturals, FiniteSets

CONSTANTS Daemons,        \* process ids of daemons, used again after a death
          MaxRoutes,      \* candidateRoutesForProfiles: profile and endpoint pairs
          MaxFaults,      \* bound on deaths and refused writes
          ScopedAtBoot,   \* net.inet.ip.scopedroute as the system sets it
          Router,         \* the gateway of the Wi-Fi network
          Inferred        \* a.b.c.1 of the Wi-Fi address, often the router itself

None == "none"

ASSUME DaemonsAssumption == IsFiniteSet(Daemons) /\ Daemons # {}
ASSUME IdsAssumption == Daemons \cap {"none", "no", "restore"} = {}
ASSUME BoundsAssumption == MaxRoutes \in Nat \ {0} /\ MaxFaults \in Nat
ASSUME GatewayAssumption == None \notin {Router, Inferred}
ASSUME ScopedAssumption == ScopedAtBoot \in {"on", "off"}

Routes == 1..MaxRoutes

VARIABLES
    pc,         \* where a daemon is in cmd_warp_tunnel, "dead" if it is not running
    daemon,     \* its variables: endpoint, scopedroute_changed, scopedroute_old,
                \* host_route_added, installed, whether it wrote the old value
                \* to its file and whether it has set its signal handlers
    scoped,     \* net.inet.ip.scopedroute
    default,    \* gateway of the default route
    resolver,   \* /etc/resolv.conf is there
    table,      \* the daemon whose device the Telegram networks are routed to
    hostRoutes, \* endpoints with a host route through the Wi-Fi gateway
    files,      \* /tmp: pid, old (scopedroute_old), ready
    enabled,    \* kFuckDPIEnabledKey in the user defaults
    supervisor, \* g_supervisor is not nil
    step,       \* what the operation on the coordinator's queue does next
    supervising,\* enableViaDaemon was called by the supervisor
    route,      \* index of the route being tried
    downSamples,\* of waitForDataThroughEndpoint
    stopping,   \* where cmd_stop is: "no", "restore", or the daemon it waits for
    faults,     \* deaths and refused writes so far
    lost,       \* history: the system's value of scoped routing may be lost
    missed,     \* history: daemons that ran when stop or register read a pid
                \* file that did not name them
    tangled,    \* history: daemons started after such a stop, and those
                \* that ran when one was
    abandoned   \* history: daemons that ran when the application died with the
                \* switch off, or turned it off for want of a profile

system == <<scoped, default, resolver, table, hostRoutes>>
coordinator == <<enabled, supervisor, step, supervising, route, downSamples>>
history == <<faults, lost, missed, tangled, abandoned>>
vars == <<pc, daemon, system, files, coordinator, stopping, history>>

Places == {"patch", "save", "pid", "host", "handshake", "ready",
           "handlers", "loop", "cleanup", "restore"}
Alive(d) == pc[d] # "dead"
Running == {d \in Daemons : Alive(d)}
NoDaemon == Running = {}
Fresh == [endpoint |-> 1, changed |-> FALSE, old |-> "on", saved |-> FALSE,
          host |-> FALSE, installed |-> FALSE, handlers |-> FALSE]

TypeOK ==
    /\ pc \in [Daemons -> Places \cup {"dead"}]
    /\ daemon \in [Daemons -> [endpoint : Routes, changed : BOOLEAN, old : {"on", "off"},
                               saved : BOOLEAN, host : BOOLEAN, installed : BOOLEAN, handlers : BOOLEAN]]
    /\ scoped \in {"on", "off"}
    /\ default \in {Router, Inferred}
    /\ resolver \in BOOLEAN
    /\ table \in Daemons \cup {None}
    /\ hostRoutes \subseteq Routes
    /\ files \in [pid : Daemons \cup {None},
                  old : {"on", "off", None}, ready : BOOLEAN]
    /\ enabled \in BOOLEAN /\ supervisor \in BOOLEAN /\ supervising \in BOOLEAN
    /\ step \in {"idle", "tryStop", "spawn", "wait", "lastStop",
                 "disableStop", "disableCheck", "disableAgain"}
    /\ route \in Routes /\ downSamples \in 0..1
    /\ stopping \in {"no", "restore"} \cup Daemons
    /\ faults \in 0..MaxFaults /\ lost \in BOOLEAN
    /\ missed \subseteq Daemons /\ tangled \subseteq Daemons /\ abandoned \subseteq Daemons

Init ==
    /\ pc = [d \in Daemons |-> "dead"]
    /\ daemon = [d \in Daemons |-> Fresh]
    /\ scoped = ScopedAtBoot /\ default = Router /\ resolver = TRUE
    /\ table = None /\ hostRoutes = {}
    /\ files = [pid |-> None, old |-> None, ready |-> FALSE]
    /\ enabled = FALSE /\ supervisor = FALSE /\ supervising = FALSE
    /\ step = "idle" /\ route = 1 /\ downSamples = 0
    /\ stopping = "no" /\ faults = 0 /\ lost = FALSE
    /\ missed = {} /\ tangled = {} /\ abandoned = {}

-----------------------------------------------------------------------------
(* The daemon: cmd_warp_tunnel after the second fork.                      *)

At(d, from, to) == pc[d] = from /\ pc' = [pc EXCEPT ![d] = to]

Fault == faults < MaxFaults /\ faults' = faults + 1

(* fopen may fail, and the daemon goes on without the file.                *)
MayWrite(written) ==
    \/ files' = written /\ UNCHANGED faults
    \/ Fault /\ UNCHANGED files

(* The sysctl, or a scan of kernel memory and a write to it; both may be   *)
(* refused.  A value of kernel memory that cannot be read counts as on.    *)
Patch(d) ==
    /\ \/ /\ At(d, "patch", "save")
          /\ scoped' = "off"
          /\ \E value \in {scoped, "on"} :
                /\ daemon' = [daemon EXCEPT ![d].changed = value # "off", ![d].old = value]
                /\ lost' = (lost \/ value # scoped \/ d \in tangled)
                /\ IF value = scoped THEN UNCHANGED faults ELSE Fault
       \/ At(d, "patch", "pid") /\ UNCHANGED <<scoped, daemon, faults, lost>>
    /\ UNCHANGED <<default, resolver, table, hostRoutes, files, coordinator,
                   stopping, missed, tangled, abandoned>>

SaveScoped(d) ==
    /\ At(d, "save", "pid")
    /\ \/ /\ files' = [files EXCEPT !.old = daemon[d].old]
          /\ daemon' = [daemon EXCEPT ![d].saved = TRUE]
          /\ UNCHANGED faults
       \/ Fault /\ UNCHANGED <<files, daemon>>
    /\ UNCHANGED <<system, coordinator, stopping, lost, missed, tangled, abandoned>>

WritePid(d) ==
    /\ At(d, "pid", "host")
    /\ MayWrite([files EXCEPT !.pid = d])
    /\ UNCHANGED <<daemon, system, coordinator, stopping, lost, missed, tangled, abandoned>>

(* A bad key, no socket, or an endpoint that does not resolve.             *)
StartFails(d) ==
    /\ At(d, "host", "cleanup")
    /\ UNCHANGED <<daemon, system, files, coordinator, stopping, history>>

(* An existing route (EEXIST) counts as added.  Without a gateway or Wi-Fi *)
(* index, or if the route is refused, the daemon goes on without it.       *)
AddHostRoute(d) ==
    /\ At(d, "host", "handshake")
    /\ \/ /\ hostRoutes' = hostRoutes \cup {daemon[d].endpoint}
          /\ daemon' = [daemon EXCEPT ![d].host = TRUE]
          /\ UNCHANGED faults
       \/ Fault /\ UNCHANGED <<hostRoutes, daemon>>
    /\ UNCHANGED <<scoped, default, resolver, table, files, coordinator, stopping,
                   lost, missed, tangled, abandoned>>

(* The handshake, the tunnel device, setup_routing: each may fail.  A      *)
(* network routed to another device already (EEXIST) counts as added; a    *)
(* refused one sends the daemon to cleanup with those before it added.     *)
SetupRouting(d) ==
    /\ \/ /\ At(d, "handshake", "ready") \/ At(d, "handshake", "cleanup")
          /\ table' = IF table = None THEN d ELSE table
          /\ daemon' = [daemon EXCEPT ![d].installed = TRUE]
       \/ At(d, "handshake", "cleanup") /\ UNCHANGED <<table, daemon>>
    /\ UNCHANGED <<scoped, default, resolver, hostRoutes, files, coordinator,
                   stopping, history>>

WriteReady(d) ==
    /\ At(d, "ready", "handlers")
    /\ MayWrite([files EXCEPT !.ready = TRUE])
    /\ UNCHANGED <<daemon, system, coordinator, stopping, lost, missed, tangled, abandoned>>

InstallHandlers(d) ==
    /\ At(d, "handlers", "loop")
    /\ daemon' = [daemon EXCEPT ![d].handlers = TRUE]
    /\ UNCHANGED <<system, files, coordinator, stopping, history>>

(* run_tunnel_loop returns on a signal, a stall or a failed rekeying.      *)
LeaveLoop(d) ==
    /\ At(d, "loop", "cleanup")
    /\ UNCHANGED <<daemon, system, files, coordinator, stopping, history>>

\* Mutant of RemoveRoutes: the saved value of scoped routing goes with the files.
RemoveRoutesAndFiles(d) ==
    /\ At(d, "cleanup", "restore")
    /\ files' = [files EXCEPT !.pid = None, !.ready = FALSE, !.old = None]
    /\ table' = IF daemon[d].installed THEN None ELSE table
    /\ hostRoutes' = IF daemon[d].host THEN hostRoutes \ {daemon[d].endpoint}
                     ELSE hostRoutes
    /\ UNCHANGED <<daemon, scoped, default, resolver, coordinator, stopping, history>>

(* cleanup() up to the sysctl: the files are removed whoever wrote them.   *)
RemoveRoutes(d) ==
    /\ At(d, "cleanup", "restore")
    /\ files' = [files EXCEPT !.pid = None, !.ready = FALSE]
    /\ table' = IF daemon[d].installed THEN None ELSE table
    /\ hostRoutes' = IF daemon[d].host THEN hostRoutes \ {daemon[d].endpoint}
                     ELSE hostRoutes
    /\ UNCHANGED <<daemon, scoped, default, resolver, coordinator, stopping, history>>

Purged(d) == IF table = d THEN None ELSE table

(* A write of scoped routing that may be refused.                          *)
MayRestore(value) ==
    \/ scoped' = value /\ UNCHANGED <<faults, lost>>
    \/ Fault /\ lost' = (lost \/ scoped # value) /\ UNCHANGED scoped

Forget(d) == tangled' = tangled \ {d} /\ abandoned' = abandoned \ {d}

(* The rest of cleanup(), and the process ends.  The file goes whether or  *)
(* not the value was put back.                                             *)
RestoreScoped(d) ==
    /\ At(d, "restore", "dead")
    /\ daemon' = [daemon EXCEPT ![d] = Fresh]
    /\ IF daemon[d].changed THEN MayRestore(daemon[d].old) /\ files' = [files EXCEPT !.old = None]
       ELSE UNCHANGED <<scoped, faults, lost, files>>
    /\ table' = Purged(d) /\ Forget(d)
    /\ UNCHANGED <<default, resolver, hostRoutes, coordinator, stopping, missed>>

(* The process is gone without its cleanup.                                *)
Dies(d) ==
    /\ pc' = [pc EXCEPT ![d] = "dead"]
    /\ daemon' = [daemon EXCEPT ![d] = Fresh]
    /\ table' = Purged(d) /\ Forget(d)
    /\ lost' = (lost \/ (daemon[d].changed /\ ~daemon[d].saved))

(* After a crash in the loop handle_fatal may still restore scoped routing.*)
Killed(d) ==
    /\ Alive(d) /\ Dies(d) /\ Fault
    /\ \/ UNCHANGED scoped
       \/ daemon[d].handlers /\ daemon[d].changed /\ scoped' = daemon[d].old
    /\ UNCHANGED <<default, resolver, hostRoutes, files, coordinator, stopping,
                   missed>>

DaemonStep(d) ==
    \/ Patch(d) \/ SaveScoped(d) \/ WritePid(d) \/ StartFails(d) \/ AddHostRoute(d)
    \/ SetupRouting(d) \/ WriteReady(d) \/ InstallHandlers(d)
    \/ LeaveLoop(d) \/ RemoveRoutes(d) \/ RestoreScoped(d)

-----------------------------------------------------------------------------
(* The helper's commands.  netcheck finds the daemon through the pid file; *)
(* its probe of a Telegram address may succeed or not once the ready file  *)
(* is there.                                                               *)

PidAlive == files.pid # None /\ Alive(files.pid)

netcheck == IF ~PidAlive THEN {2} ELSE IF ~files.ready THEN {3} ELSE {0, 1}

(* The daemons that stop and register do not see.                          *)
Unseen == Running \ {files.pid}

(* force_restore_routing: no /tmp/nekrowarp.orig_dns is written in split   *)
(* mode, so /etc/resolv.conf is removed.  A gateway saved by setup_routing *)
(* is that of the default route still, which nothing else changes; without *)
(* one the default route is set to a.b.c.1 of the Wi-Fi address, if there  *)
(* is one.  The saved value of scoped routing is removed even if refused.   *)
ForceRestore ==
    /\ default' \in {Inferred, default}
    /\ resolver' = FALSE
    /\ IF files.old # None THEN MayRestore(files.old) ELSE UNCHANGED <<scoped, faults, lost>>
    /\ files' = [pid |-> None, old |-> None, ready |-> FALSE]
    /\ UNCHANGED <<table, hostRoutes>>

(* SIGINT ends the loop of a daemon with handlers and kills any other.     *)
StopSignal ==
    /\ step \in {"tryStop", "lastStop", "disableStop", "disableAgain"}
    /\ stopping = "no"
    /\ missed' = missed \cup Unseen
    /\ IF PidAlive
       THEN /\ stopping' = files.pid
            /\ IF daemon[files.pid].handlers
               THEN UNCHANGED <<pc, daemon, table, lost, tangled, abandoned>>
               ELSE Dies(files.pid)
       ELSE stopping' = "restore" /\ UNCHANGED <<pc, daemon, table, lost, tangled, abandoned>>
    /\ UNCHANGED <<scoped, default, resolver, hostRoutes, files, coordinator, faults>>

StopSeesExit ==
    /\ stopping \in Daemons /\ ~Alive(stopping)
    /\ stopping' = "restore"
    /\ UNCHANGED <<pc, daemon, system, files, coordinator, history>>

\* Mutant of StopKills: stop waits for ever.
StopNeverKills == FALSE

(* After two seconds the daemon is killed.                                 *)
StopKills ==
    /\ stopping \in Daemons /\ Alive(stopping) /\ Dies(stopping)
    /\ stopping' = "restore"
    /\ UNCHANGED <<scoped, default, resolver, hostRoutes, files,
                   coordinator, faults, missed>>

(* The operation is over, and with it its local variables.                 *)
Over == step' = "idle" /\ supervising' = FALSE /\ route' = 1 /\ downSamples' = 0
locals == <<supervising, route, downSamples>>

(* The coordinator goes on when the command returns.                       *)
AfterStop ==
    CASE step = "tryStop" -> step' = "spawn" /\ UNCHANGED <<enabled, locals>>
      [] step = "lastStop" -> Over /\ enabled' = (enabled /\ supervising)
      [] step = "disableStop" -> step' = "disableCheck" /\ UNCHANGED <<enabled, locals>>
      [] step = "disableAgain" -> Over /\ enabled' = FALSE

StopRestores ==
    /\ stopping = "restore" /\ stopping' = "no"
    /\ ForceRestore /\ AfterStop
    /\ missed' = missed \cap Running /\ abandoned' = {}
    /\ UNCHANGED <<pc, daemon, supervisor, tangled>>

\* Mutant of Register: without the check for a running tunnel.
RegisterHealsAlways ==
    /\ stopping = "no" /\ ForceRestore
    /\ missed' = missed \cup Unseen
    /\ UNCHANGED <<pc, daemon, coordinator, stopping, tangled, abandoned>>

(* register, run from the profile list, restores first if no tunnel runs.  *)
Register ==
    /\ stopping = "no" /\ ~PidAlive
    /\ ForceRestore
    /\ missed' = missed \cup Unseen
    /\ UNCHANGED <<pc, daemon, coordinator, stopping, tangled, abandoned>>

-----------------------------------------------------------------------------
(* TGRouteCoordinator.                                                     *)

outside == <<system, files, stopping, lost, missed, tangled>>
world == <<outside, faults, abandoned>>

(* Mutant of StartTrying: the first stop is left out.                      *)
StartTryingBeside(bySupervisor) ==
    /\ step' = "spawn" /\ route' = 1 /\ supervising' = bySupervisor
    /\ UNCHANGED <<enabled, downSamples, abandoned>>

(* enableViaDaemon; without a profile it returns before the first stop.    *)
StartTrying(bySupervisor) ==
    \/ /\ step' = "tryStop" /\ route' = 1 /\ supervising' = bySupervisor
       /\ UNCHANGED <<enabled, downSamples, abandoned>>
    \/ /\ enabled' = (enabled /\ bySupervisor)
       /\ abandoned' = IF enabled' THEN abandoned ELSE abandoned \cup Running
       /\ UNCHANGED <<step, supervising, route, downSamples>>

Enable ==
    /\ step = "idle" /\ StartTrying(FALSE)
    /\ UNCHANGED <<pc, daemon, outside, faults, supervisor>>

(* checkAndAutoStart starts the supervisor in any case, refreshState only  *)
(* when the tunnel is up.                                                  *)
CheckAndAutoStart ==
    /\ step = "idle" /\ enabled
    /\ supervisor' = TRUE
    /\ \/ /\ 0 \in netcheck
          /\ UNCHANGED <<enabled, step, supervising, route, downSamples, abandoned>>
       \/ netcheck # {0} /\ StartTrying(FALSE)
    /\ UNCHANGED <<pc, daemon, outside, faults>>

RefreshState ==
    /\ step = "idle" /\ enabled
    /\ \/ /\ 0 \in netcheck /\ supervisor' = TRUE
          /\ UNCHANGED <<enabled, step, supervising, route, downSamples, abandoned>>
       \/ netcheck # {0} /\ StartTrying(FALSE) /\ UNCHANGED supervisor
    /\ UNCHANGED <<pc, daemon, outside, faults>>

\* Mutant of SupervisorTick: only a tunnel that carries nothing is restarted.
SupervisorTickIfUp ==
    /\ step = "idle" /\ supervisor /\ enabled
    /\ 1 \in netcheck /\ StartTrying(TRUE)
    /\ UNCHANGED <<pc, daemon, outside, faults, supervisor>>

SupervisorTick ==
    /\ step = "idle" /\ supervisor /\ enabled
    /\ netcheck # {0} /\ StartTrying(TRUE)
    /\ UNCHANGED <<pc, daemon, outside, faults, supervisor>>

(* The next route, or the stop after the last one.                         *)
NextRoute ==
    /\ downSamples' = 0
    /\ IF route < MaxRoutes THEN route' = route + 1 /\ step' = "tryStop"
       ELSE step' = "lastStop" /\ UNCHANGED route

(* daemonTryProfile: warp-tunnel returns once the daemon has redirected    *)
(* its output.                                                             *)
Spawn(d) ==
    /\ step = "spawn" /\ ~Alive(d)
    /\ pc' = [pc EXCEPT ![d] = "patch"]
    /\ daemon' = [daemon EXCEPT ![d] = [Fresh EXCEPT !.endpoint = route]]
    /\ step' = "wait" /\ downSamples' = 0
    /\ tangled' = IF missed = {} THEN tangled ELSE tangled \cup {d} \cup Running
    /\ missed' = missed \ {d}
    /\ UNCHANGED <<system, files, stopping, faults, lost, abandoned, enabled, supervisor, supervising, route>>

(* warp-tunnel returns an error, such as that of fork.                     *)
SpawnFails ==
    /\ step = "spawn" /\ NextRoute
    /\ UNCHANGED <<pc, daemon, world, enabled, supervisor, supervising>>

(* waitForDataThroughEndpoint.                                             *)
WaitConnected ==
    /\ step = "wait" /\ 0 \in netcheck
    /\ enabled' = TRUE /\ supervisor' = TRUE /\ Over
    /\ UNCHANGED <<pc, daemon, world>>

WaitStarting ==
    /\ step = "wait" /\ 3 \in netcheck
    /\ downSamples' = 0
    /\ UNCHANGED <<pc, daemon, world, enabled, supervisor, step, supervising, route>>

WaitDown ==
    /\ step = "wait" /\ 2 \in netcheck /\ downSamples = 0
    /\ downSamples' = downSamples + 1
    /\ UNCHANGED <<pc, daemon, world, enabled, supervisor, step, supervising, route>>

\* Mutant of WaitGivesUp: without the stop at the end.
WaitGivesUpAtOnce ==
    /\ step = "wait" /\ netcheck # {0}
    /\ IF route < MaxRoutes THEN NextRoute /\ UNCHANGED <<enabled, supervising>>
       ELSE Over /\ enabled' = (enabled /\ supervising)
    /\ UNCHANGED <<pc, daemon, world, supervisor>>

(* The second answer 2, or a deadline.                                     *)
WaitGivesUp ==
    /\ step = "wait" /\ netcheck # {0} /\ NextRoute
    /\ UNCHANGED <<pc, daemon, world, enabled, supervisor, supervising>>

Disable ==
    /\ step = "idle" /\ step' = "disableStop" /\ supervisor' = FALSE
    /\ UNCHANGED <<pc, daemon, world, enabled, supervising, route, downSamples>>

DisableCheck ==
    /\ step = "disableCheck"
    /\ \E answer \in netcheck :
          IF answer = 0 THEN step' = "disableAgain" /\ UNCHANGED <<enabled, locals>>
          ELSE Over /\ enabled' = FALSE
    /\ UNCHANGED <<pc, daemon, world, supervisor>>

StopForBackground ==
    /\ supervisor /\ step = "idle" /\ supervisor' = FALSE
    /\ UNCHANGED <<pc, daemon, world, enabled, step, supervising, route, downSamples>>

(* The application is killed.  A command under way ends in the bridge      *)
(* before the bridge takes another, as if the death came after it.         *)
AppDies ==
    /\ stopping = "no" /\ Fault
    /\ Over /\ supervisor' = FALSE
    /\ abandoned' = IF enabled THEN abandoned ELSE abandoned \cup Running
    /\ UNCHANGED <<pc, daemon, outside, enabled>>

Stop == StopSignal \/ StopSeesExit \/ StopKills \/ StopRestores
Wait == WaitConnected \/ WaitStarting \/ WaitDown \/ WaitGivesUp
Coordinate == Enable \/ CheckAndAutoStart \/ RefreshState \/ SupervisorTick
              \/ SpawnFails \/ Wait \/ Disable \/ DisableCheck \/ StopForBackground

Next ==
    \/ \E d \in Daemons : DaemonStep(d) \/ Killed(d) \/ Spawn(d)
    \/ Stop \/ Register \/ Coordinate \/ AppDies

Spec == Init /\ [][Next]_vars

(* Commands return and timers fire; a daemon may hang at any step.         *)
FairSpec ==
    /\ Spec
    /\ WF_vars(StopSignal) /\ WF_vars(StopSeesExit \/ StopKills) /\ WF_vars(StopRestores)
    /\ WF_vars(SpawnFails \/ \E d \in Daemons : Spawn(d)) /\ WF_vars(DisableCheck)
    /\ WF_vars(SupervisorTick) /\ WF_vars(WaitConnected \/ WaitGivesUp)

-----------------------------------------------------------------------------
(* Properties.                                                             *)

(* Of two daemons that run beside each other, one had no pid file naming   *)
(* it when a stop looked: no path of the coordinator starts a daemon       *)
(* beside one that stop could have seen.                                   *)
BesideOnlyMissed ==
    \A d, e \in Running : d = e \/ d \in missed \/ e \in missed

(* When the switch is off and nothing is under way, a daemon that still    *)
(* runs is one that stop did not see, or one that ran when the application *)
(* died in the search or had no profile to search with.                    *)
DisabledLeavesMissed ==
    step = "idle" /\ ~enabled => Running \subseteq missed \cup abandoned

(* Wherever the start, cleanup() or a stop is cut short and whatever runs  *)
(* beside it, the system's value of scoped routing is in force or on file  *)
(* when no daemon runs, unless one of four things came first: a daemon     *)
(* died after the change and without having saved the value, a restore was *)
(* refused, a tangled daemon changed the setting, or its value could not   *)
(* be read.                                                                *)
ScopedRecoverable ==
    NoDaemon /\ ~lost => scoped = ScopedAtBoot \/ files.old = ScopedAtBoot

(* A daemon in its loop that no command missed and that is not tangled     *)
(* with another has the Telegram networks on its own device, its host      *)
(* route if it added one, and scoped routing off if it turned it off: no   *)
(* stop, register or cleanup of another daemon has taken them away.        *)
TunnelCarries ==
    \A d \in Daemons : pc[d] = "loop" /\ d \notin missed \cup tangled =>
        /\ table = d
        /\ daemon[d].host => daemon[d].endpoint \in hostRoutes
        /\ daemon[d].changed => scoped = "off"

(* Every operation of the coordinator ends, although a daemon may hang at  *)
(* any step: stop kills the one it sees, and no command waits for another. *)
OperationEnds == (step # "idle") ~> (step = "idle")

(* While the switch is on and the supervisor runs, a tunnel that is gone   *)
(* is started again, as long as there is a profile to start it with.       *)
Reconnects == (enabled /\ supervisor /\ NoDaemon) ~>
                  (step = "spawn" \/ ~NoDaemon \/ ~supervisor \/ ~enabled)

-----------------------------------------------------------------------------
(* What a message of the code says, and what it does not do.               *)

(* "NekroWARP stopped and network routing restored.": once the switch is   *)
(* off and nothing is under way, no daemon goes on to bring a tunnel up.   *)
DisabledMeansDown ==
    step = "idle" /\ ~enabled =>
        \A d \in Running \ abandoned : pc[d] \in {"cleanup", "restore"}
=============================================================================
