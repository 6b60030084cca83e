------------------------- MODULE NekroTunnelProofs -------------------------
(***************************************************************************)
(* Proofs about NekroTunnel, for every number of process ids, routes and   *)
(* faults and both settings of scoped routing.                             *)
(***************************************************************************)
EXTENDS NekroTunnel, TLAPS

-----------------------------------------------------------------------------
(* The inductive invariant.                                                *)

\* What a daemon knows, as in TypeOK.
DaemonRecord == [endpoint : Routes, changed : BOOLEAN, old : {"on", "off"},
                 saved : BOOLEAN, host : BOOLEAN, installed : BOOLEAN, handlers : BOOLEAN]

\* What the files in /tmp hold, as in TypeOK.
FileRecord == [pid : Daemons \cup {None}, old : {"on", "off", None}, ready : BOOLEAN]

\* Where the coordinator has asked for a stop.
StopSteps == {"tryStop", "lastStop", "disableStop", "disableAgain"}

\* stop runs for the coordinator only.  When it restores, and until the
\* coordinator has gone on from there, the daemons that run are those it missed.
SeenIsGone ==
    /\ stopping # "no" => step \in StopSteps
    /\ stopping = "restore" => Running \subseteq missed
    /\ stopping \in Daemons => Running \subseteq missed \cup {stopping}
    /\ step \in {"spawn", "disableCheck"} => Running \subseteq missed

\* A daemon that is not tangled with another runs alone.
Alone == \A d \in Running \ tangled : Running = {d}

\* The kernel routes the networks to a process that is there.
TableIsAlive == table # None => table \in Running

\* TunnelCarries from the moment each part is set up.
Carries ==
    \A d \in Running \ (missed \cup tangled) :
        /\ pc[d] \in {"ready", "handlers", "loop"} => table = d
        /\ daemon[d].host /\ pc[d] # "restore" => daemon[d].endpoint \in hostRoutes
        /\ daemon[d].changed => scoped = "off"

\* The value on file and the value a daemon would put back are the system's.
OldIsBoot ==
    /\ files.old \in {None, ScopedAtBoot}
    /\ \A d \in Running : pc[d] = "save" \/ daemon[d].changed => daemon[d].old = ScopedAtBoot

\* A daemon that has no other beside it finds the system's value.
BootBeforePatch ==
    /\ step = "spawn" /\ missed = {} => scoped = ScopedAtBoot
    /\ \A d \in Running \ tangled : pc[d] = "patch" => scoped = ScopedAtBoot

\* The system's value is in force, on file, or known to a daemon alone.
BootIsKept ==
    \/ scoped = ScopedAtBoot
    \/ files.old = ScopedAtBoot
    \/ \E d \in Running : daemon[d].changed /\ ~daemon[d].saved

UnsavedBeforePatch == \A d \in Running : pc[d] = "patch" => ~daemon[d].saved

ScopedInv == UnsavedBeforePatch /\ (~lost => OldIsBoot /\ BootBeforePatch /\ BootIsKept)

TunnelInv ==
    /\ TypeOK
    /\ SeenIsGone
    /\ BesideOnlyMissed
    /\ DisabledLeavesMissed
    /\ Alone
    /\ TableIsAlive
    /\ Carries
    /\ ScopedInv

-----------------------------------------------------------------------------
(* What several actions share.                                             *)

\* A daemon's own steps up to its restore move one running daemon and leave
\* the coordinator alone.
Busy(d) ==
    \/ Patch(d) \/ SaveScoped(d) \/ WritePid(d) \/ StartFails(d) \/ AddHostRoute(d)
    \/ SetupRouting(d) \/ WriteReady(d) \/ InstallHandlers(d)
    \/ LeaveLoop(d) \/ RemoveRoutes(d)

LEMMA BusyStep ==
    ASSUME TypeOK, NEW d \in Daemons, Busy(d)
    PROVE  /\ Running' = Running /\ d \in Running
           /\ \A e \in Daemons : e # d => pc'[e] = pc[e] /\ daemon'[e] = daemon[e]
           /\ UNCHANGED <<coordinator, stopping, missed, tangled, abandoned>>
           /\ lost => lost'
<1>1. CASE Patch(d)
  BY <1>1 DEF TypeOK, Patch, At, Running, Alive, coordinator
<1>2. CASE SaveScoped(d)
  BY <1>2 DEF TypeOK, SaveScoped, At, Running, Alive, coordinator
<1>3. CASE WritePid(d)
  BY <1>3 DEF TypeOK, WritePid, At, Running, Alive, coordinator
<1>4. CASE StartFails(d)
  BY <1>4 DEF TypeOK, StartFails, At, Running, Alive, coordinator, history
<1>5. CASE AddHostRoute(d)
  BY <1>5 DEF TypeOK, AddHostRoute, At, Running, Alive, coordinator
<1>6. CASE SetupRouting(d)
  BY <1>6 DEF TypeOK, SetupRouting, At, Running, Alive, coordinator, history
<1>7. CASE WriteReady(d)
  BY <1>7 DEF TypeOK, WriteReady, At, Running, Alive, coordinator
<1>8. CASE InstallHandlers(d)
  BY <1>8 DEF TypeOK, InstallHandlers, At, Running, Alive, coordinator, history
<1>9. CASE LeaveLoop(d)
  BY <1>9 DEF TypeOK, LeaveLoop, At, Running, Alive, coordinator, history
<1>10. CASE RemoveRoutes(d)
  BY <1>10 DEF TypeOK, RemoveRoutes, At, Running, Alive, coordinator, history
<1> QED BY <1>1, <1>2, <1>3, <1>4, <1>5, <1>6, <1>7, <1>8, <1>9, <1>10 DEF Busy

\* What is left of a daemon that ends, whichever way.
Gone(d) ==
    /\ pc' = [pc EXCEPT ![d] = "dead"]
    /\ daemon' = [daemon EXCEPT ![d] = Fresh]
    /\ table' = Purged(d) /\ Forget(d)

LEMMA GoneStep ==
    ASSUME TypeOK, NEW d \in Daemons, Gone(d)
    PROVE  /\ Running' = Running \ {d}
           /\ \A e \in Daemons : e # d => pc'[e] = pc[e] /\ daemon'[e] = daemon[e]
           /\ tangled' = tangled \ {d} /\ abandoned' = abandoned \ {d}
           /\ table' \in {None, table} /\ table' # d
BY IdsAssumption DEF TypeOK, Gone, Running, Alive, Purged, Forget, None

LEMMA EndIsGone ==
    ASSUME NEW d \in Daemons
    PROVE  /\ RestoreScoped(d) => Gone(d) /\ UNCHANGED <<coordinator, stopping, missed>>
           /\ Killed(d) => Gone(d) /\ UNCHANGED <<coordinator, stopping, missed>>
           /\ Dies(d) => Gone(d)
BY DEF RestoreScoped, Killed, Dies, Gone, At, coordinator

\* The coordinator's own steps leave the daemons, the system and the files
\* alone, and reach neither a spawn nor the check of disable: only the end of
\* a stop does.
LEMMA CoordinatorStep ==
    ASSUME TunnelInv, Coordinate \/ AppDies
    PROVE  /\ UNCHANGED <<pc, daemon, system, files, stopping, lost, missed, tangled>>
           /\ step \notin StopSteps \/ stopping = "no"
           /\ step' \in {"spawn", "disableCheck"} => step' = step
           /\ step' = "idle" /\ ~enabled' => Running \subseteq missed \cup abandoned'
<1> USE DEF TunnelInv, TypeOK, StopSteps, SeenIsGone, DisabledLeavesMissed,
            outside, world, system, StartTrying, Over, locals
<1>1. CASE Enable
  BY <1>1 DEF Enable
<1>2. CASE CheckAndAutoStart
  BY <1>2 DEF CheckAndAutoStart
<1>3. CASE RefreshState
  BY <1>3 DEF RefreshState
<1>4. CASE SupervisorTick
  BY <1>4 DEF SupervisorTick
<1>5. CASE SpawnFails
  BY <1>5 DEF SpawnFails, NextRoute
<1>6. CASE WaitConnected
  BY <1>6 DEF WaitConnected
<1>7. CASE WaitStarting
  BY <1>7 DEF WaitStarting
<1>8. CASE WaitDown
  BY <1>8 DEF WaitDown
<1>9. CASE WaitGivesUp
  BY <1>9 DEF WaitGivesUp, NextRoute
<1>10. CASE Disable
  BY <1>10 DEF Disable
<1>11. CASE DisableCheck
  BY <1>11 DEF DisableCheck
<1>12. CASE StopForBackground
  BY <1>12 DEF StopForBackground
<1>13. CASE AppDies
  BY <1>13 DEF AppDies
<1> QED BY <1>1, <1>2, <1>3, <1>4, <1>5, <1>6, <1>7, <1>8, <1>9, <1>10, <1>11, <1>12, <1>13
        DEF Coordinate, Wait

LEMMA NextIs ==
    ASSUME Next
    PROVE  \/ \E d \in Daemons : Busy(d) \/ RestoreScoped(d) \/ Killed(d) \/ Spawn(d)
           \/ StopSignal \/ StopSeesExit \/ StopKills \/ StopRestores
           \/ Register \/ Coordinate \/ AppDies
BY DEF Next, DaemonStep, Busy, Stop

-----------------------------------------------------------------------------
(* Types.                                                                  *)

\* TypeOK in parts, each of which few actions disturb.
DaemonTypes == pc \in [Daemons -> Places \cup {"dead"}] /\ daemon \in [Daemons -> DaemonRecord]
SystemTypes == /\ scoped \in {"on", "off"} /\ default \in {Router, Inferred} /\ resolver \in BOOLEAN
               /\ table \in Daemons \cup {None} /\ hostRoutes \subseteq Routes
CoordinatorTypes ==
    /\ enabled \in BOOLEAN /\ supervisor \in BOOLEAN /\ supervising \in BOOLEAN
    /\ step \in {"idle", "spawn", "wait", "disableCheck"} \cup StopSteps
    /\ route \in Routes /\ downSamples \in 0..1
    /\ stopping \in {"no", "restore"} \cup Daemons
HistoryTypes ==
    /\ faults \in 0..MaxFaults /\ lost \in BOOLEAN
    /\ missed \subseteq Daemons /\ tangled \subseteq Daemons /\ abandoned \subseteq Daemons

LEMMA TypesAre ==
    /\ TypeOK <=> DaemonTypes /\ SystemTypes /\ files \in FileRecord /\ CoordinatorTypes /\ HistoryTypes
    /\ TypeOK' <=> DaemonTypes' /\ SystemTypes' /\ files' \in FileRecord /\ CoordinatorTypes' /\ HistoryTypes'
<1>1. TypeOK <=> DaemonTypes /\ SystemTypes /\ files \in FileRecord /\ CoordinatorTypes /\ HistoryTypes
  BY DEF TypeOK, DaemonTypes, SystemTypes, CoordinatorTypes, HistoryTypes, DaemonRecord, FileRecord, StopSteps
<1>2. TypeOK' <=> DaemonTypes' /\ SystemTypes' /\ files' \in FileRecord /\ CoordinatorTypes' /\ HistoryTypes'
  BY DEF TypeOK, DaemonTypes, SystemTypes, CoordinatorTypes, HistoryTypes, DaemonRecord, FileRecord, StopSteps
<1> QED BY <1>1, <1>2

\* Setting variables of a daemon, or clearing them, keeps their types.
LEMMA RecordsKept ==
    ASSUME daemon \in [Daemons -> DaemonRecord], NEW d \in Daemons
    PROVE  /\ \A b \in BOOLEAN, v \in {"on", "off"} :
                [daemon EXCEPT ![d].changed = b, ![d].old = v] \in [Daemons -> DaemonRecord]
           /\ [daemon EXCEPT ![d].saved = TRUE] \in [Daemons -> DaemonRecord]
           /\ [daemon EXCEPT ![d].host = TRUE] \in [Daemons -> DaemonRecord]
           /\ [daemon EXCEPT ![d].installed = TRUE] \in [Daemons -> DaemonRecord]
           /\ [daemon EXCEPT ![d].handlers = TRUE] \in [Daemons -> DaemonRecord]
           /\ \A r \in Routes :
                [daemon EXCEPT ![d] = [Fresh EXCEPT !.endpoint = r]] \in [Daemons -> DaemonRecord]
           /\ [daemon EXCEPT ![d] = Fresh] \in [Daemons -> DaemonRecord]
<1>1. ASSUME NEW r \in DaemonRecord
      PROVE  [daemon EXCEPT ![d] = r] \in [Daemons -> DaemonRecord]
  OBVIOUS
<1>2. ASSUME NEW b \in BOOLEAN, NEW v \in {"on", "off"}
      PROVE  [daemon EXCEPT ![d].changed = b, ![d].old = v] \in [Daemons -> DaemonRecord]
  <2>1. [daemon[d] EXCEPT !.changed = b, !.old = v] \in DaemonRecord
    BY DEF DaemonRecord
  <2>2. [daemon EXCEPT ![d].changed = b, ![d].old = v]
          = [daemon EXCEPT ![d] = [daemon[d] EXCEPT !.changed = b, !.old = v]]
    BY DEF DaemonRecord
  <2> QED BY <1>1, <2>1, <2>2
<1>3. /\ [daemon[d] EXCEPT !.saved = TRUE] \in DaemonRecord
      /\ [daemon[d] EXCEPT !.host = TRUE] \in DaemonRecord
      /\ [daemon[d] EXCEPT !.installed = TRUE] \in DaemonRecord
      /\ [daemon[d] EXCEPT !.handlers = TRUE] \in DaemonRecord
  BY DEF DaemonRecord
<1>4. /\ [daemon EXCEPT ![d].saved = TRUE] = [daemon EXCEPT ![d] = [daemon[d] EXCEPT !.saved = TRUE]]
      /\ [daemon EXCEPT ![d].host = TRUE] = [daemon EXCEPT ![d] = [daemon[d] EXCEPT !.host = TRUE]]
      /\ [daemon EXCEPT ![d].installed = TRUE] = [daemon EXCEPT ![d] = [daemon[d] EXCEPT !.installed = TRUE]]
      /\ [daemon EXCEPT ![d].handlers = TRUE] = [daemon EXCEPT ![d] = [daemon[d] EXCEPT !.handlers = TRUE]]
  OBVIOUS
<1>5. Fresh \in DaemonRecord
  <2>1. 1 \in Routes
    BY BoundsAssumption DEF Routes
  <2> QED BY <2>1 DEF Fresh, DaemonRecord
<1>6. \A r \in Routes : [Fresh EXCEPT !.endpoint = r] \in DaemonRecord
  BY <1>5 DEF DaemonRecord
<1> QED BY <1>1, <1>2, <1>3, <1>4, <1>5, <1>6

\* Every step keeps the daemons where cmd_warp_tunnel has a place for them.
LEMMA DaemonTypesStep ==
    ASSUME TypeOK, Next
    PROVE  DaemonTypes'
<1>0. DaemonTypes /\ scoped \in {"on", "off"} /\ files \in FileRecord /\ route \in Routes
  BY TypesAre DEF SystemTypes, CoordinatorTypes
<1>1. ASSUME NEW d \in Daemons, NEW place \in Places \cup {"dead"}
      PROVE  [pc EXCEPT ![d] = place] \in [Daemons -> Places \cup {"dead"}]
  BY <1>0 DEF DaemonTypes
<1>2. ASSUME NEW d \in Daemons, Busy(d)
      PROVE  DaemonTypes'
  <2>1. pc' \in [Daemons -> Places \cup {"dead"}]
    <3>1. \E place \in Places : pc' = [pc EXCEPT ![d] = place]
      BY <1>2 DEF Busy, Patch, SaveScoped, WritePid, StartFails, AddHostRoute, SetupRouting, WriteReady,
                  InstallHandlers, LeaveLoop, RemoveRoutes, At, Places
    <3> QED BY <1>1, <3>1
  <2>2. daemon' \in [Daemons -> DaemonRecord]
    <3>0. /\ daemon \in [Daemons -> DaemonRecord]
          /\ \A b \in BOOLEAN, v \in {"on", "off"} :
                [daemon EXCEPT ![d].changed = b, ![d].old = v] \in [Daemons -> DaemonRecord]
          /\ [daemon EXCEPT ![d].saved = TRUE] \in [Daemons -> DaemonRecord]
          /\ [daemon EXCEPT ![d].host = TRUE] \in [Daemons -> DaemonRecord]
          /\ [daemon EXCEPT ![d].installed = TRUE] \in [Daemons -> DaemonRecord]
          /\ [daemon EXCEPT ![d].handlers = TRUE] \in [Daemons -> DaemonRecord]
      BY <1>0, RecordsKept DEF DaemonTypes
    <3>1. CASE Patch(d)
      <4>1. CASE daemon' = daemon
        BY <3>0, <4>1
      <4>2. ASSUME NEW value \in {scoped, "on"},
                   daemon' = [daemon EXCEPT ![d].changed = value # "off", ![d].old = value]
            PROVE  daemon' \in [Daemons -> DaemonRecord]
        <5>1. value \in {"on", "off"} /\ (value # "off") \in BOOLEAN
          BY <1>0, <4>2
        <5> QED BY <3>0, <4>2, <5>1
      <4> QED BY <3>1, <4>1, <4>2 DEF Patch
    <3>2. CASE SaveScoped(d)
      BY <3>0, <3>2, Zenon DEF SaveScoped
    <3>3. CASE AddHostRoute(d) \/ SetupRouting(d) \/ InstallHandlers(d)
      BY <3>0, <3>3, Zenon DEF AddHostRoute, SetupRouting, InstallHandlers
    <3>4. CASE WritePid(d) \/ StartFails(d) \/ WriteReady(d) \/ LeaveLoop(d) \/ RemoveRoutes(d)
      BY <3>0, <3>4 DEF WritePid, StartFails, WriteReady, LeaveLoop, RemoveRoutes
    <3> QED BY <1>2, <3>1, <3>2, <3>3, <3>4 DEF Busy
  <2> QED BY <2>1, <2>2 DEF DaemonTypes
<1>3. ASSUME NEW d \in Daemons, Gone(d)
      PROVE  DaemonTypes'
  BY <1>0, <1>1, <1>3, RecordsKept DEF Gone, DaemonTypes
<1>4. ASSUME NEW d \in Daemons, Spawn(d)
      PROVE  DaemonTypes'
  <2>1. "patch" \in Places
    BY DEF Places
  <2> QED BY <1>0, <1>1, <1>4, <2>1, RecordsKept DEF Spawn, DaemonTypes
<1>5. CASE StopSignal
  <2>1. CASE PidAlive /\ Dies(files.pid)
    <3>1. files.pid \in Daemons
      BY <1>0, <2>1 DEF FileRecord, PidAlive
    <3> QED BY <1>3, <2>1, <3>1, EndIsGone
  <2>2. CASE UNCHANGED <<pc, daemon>>
    BY <1>0, <2>2 DEF DaemonTypes
  <2> QED BY <1>5, <2>1, <2>2 DEF StopSignal
<1>6. CASE StopKills
  BY <1>3, <1>6, EndIsGone DEF StopKills
<1>7. CASE StopSeesExit \/ StopRestores \/ Register \/ AppDies
  BY <1>0, <1>7 DEF StopSeesExit, StopRestores, Register, AppDies, DaemonTypes
<1>8. CASE Coordinate
  BY <1>0, <1>8 DEF Coordinate, Wait, Enable, CheckAndAutoStart, RefreshState, SupervisorTick, SpawnFails,
        WaitConnected, WaitStarting, WaitDown, WaitGivesUp, Disable, DisableCheck, StopForBackground, DaemonTypes
<1> QED BY <1>2, <1>3, <1>4, <1>5, <1>6, <1>7, <1>8, EndIsGone, NextIs

\* The coordinator's own steps change neither the system nor the files.
LEMMA CoordinateLeaves ==
    ASSUME Coordinate \/ AppDies
    PROVE  UNCHANGED <<pc, daemon, system, files, stopping, lost, missed, tangled>>
BY DEF Coordinate, Wait, Enable, CheckAndAutoStart, RefreshState, SupervisorTick, SpawnFails,
       WaitConnected, WaitStarting, WaitDown, WaitGivesUp, Disable, DisableCheck, StopForBackground,
       AppDies, world, outside

\* Every step leaves the system and the files with values the code writes.
LEMMA SystemTypesStep ==
    ASSUME TypeOK, Next
    PROVE  SystemTypes' /\ files' \in FileRecord
<1>0. DaemonTypes /\ SystemTypes /\ files \in FileRecord
  BY TypesAre
<1>1. ASSUME NEW d \in Daemons, Busy(d)
      PROVE  SystemTypes' /\ files' \in FileRecord
  <2>0. daemon[d].endpoint \in Routes /\ daemon[d].old \in {"on", "off"}
    BY <1>0 DEF DaemonTypes, DaemonRecord
  <2>1. CASE Patch(d)
    BY <1>0, <2>1 DEF Patch, SystemTypes
  <2>2. CASE SaveScoped(d)
    BY <1>0, <2>0, <2>2 DEF SaveScoped, SystemTypes, FileRecord, system
  <2>3. CASE WritePid(d)
    BY <1>0, <2>3 DEF WritePid, MayWrite, SystemTypes, FileRecord, system
  <2>4. CASE StartFails(d) \/ InstallHandlers(d) \/ LeaveLoop(d)
    BY <1>0, <2>4 DEF StartFails, InstallHandlers, LeaveLoop, SystemTypes, system
  <2>5. CASE AddHostRoute(d)
    BY <1>0, <2>0, <2>5 DEF AddHostRoute, SystemTypes
  <2>6. CASE SetupRouting(d)
    BY <1>0, <2>6 DEF SetupRouting, SystemTypes
  <2>7. CASE WriteReady(d)
    BY <1>0, <2>7 DEF WriteReady, MayWrite, SystemTypes, FileRecord, system
  <2>8. CASE RemoveRoutes(d)
    BY <1>0, <2>8 DEF RemoveRoutes, SystemTypes, FileRecord
  <2> QED BY <1>1, <2>1, <2>2, <2>3, <2>4, <2>5, <2>6, <2>7, <2>8 DEF Busy
<1>2. ASSUME NEW d \in Daemons, RestoreScoped(d) \/ Killed(d)
      PROVE  SystemTypes' /\ files' \in FileRecord
  <2>1. daemon[d].old \in {"on", "off"}
    BY <1>0 DEF DaemonTypes, DaemonRecord
  <2>2. table' \in Daemons \cup {None} /\ UNCHANGED <<default, resolver, hostRoutes>>
    BY <1>0, <1>2, EndIsGone, GoneStep DEF SystemTypes, RestoreScoped, Killed
  <2>3. scoped' \in {"on", "off"} /\ files' \in FileRecord
    BY <1>0, <1>2, <2>1 DEF SystemTypes, FileRecord, RestoreScoped, MayRestore, Killed
  <2> QED BY <1>0, <2>2, <2>3 DEF SystemTypes
<1>3. CASE StopSignal
  <2>1. table' \in Daemons \cup {None}
    <3>1. CASE PidAlive /\ Dies(files.pid)
      <4>1. files.pid \in Daemons
        BY <1>0, <3>1 DEF FileRecord, PidAlive
      <4> QED BY <1>0, <3>1, <4>1, EndIsGone, GoneStep DEF SystemTypes
    <3>2. CASE UNCHANGED table
      BY <1>0, <3>2 DEF SystemTypes
    <3> QED BY <1>3, <3>1, <3>2 DEF StopSignal
  <2> QED BY <1>0, <1>3, <2>1 DEF StopSignal, SystemTypes
<1>4. CASE StopKills
  BY <1>0, <1>4, EndIsGone, GoneStep DEF StopKills, SystemTypes
<1>5. CASE StopRestores \/ Register
  <2>1. ForceRestore
    BY <1>5 DEF StopRestores, Register
  <2> QED BY <1>0, <2>1 DEF ForceRestore, MayRestore, SystemTypes, FileRecord
<1>6. CASE StopSeesExit \/ Coordinate \/ AppDies \/ \E d \in Daemons : Spawn(d)
  BY <1>0, <1>6, CoordinateLeaves DEF StopSeesExit, Spawn, SystemTypes, system
<1> QED BY <1>1, <1>2, <1>3, <1>4, <1>5, <1>6, NextIs

\* Every step leaves the coordinator in one of its steps.
LEMMA CoordinatorTypesStep ==
    ASSUME TunnelInv, Next
    PROVE  CoordinatorTypes'
<1>0. CoordinatorTypes /\ files \in FileRecord /\ TypeOK
  BY TypesAre DEF TunnelInv
<1> USE <1>0 DEF CoordinatorTypes, StopSteps
<1>1. ASSUME NEW d \in Daemons, Busy(d) \/ RestoreScoped(d) \/ Killed(d)
      PROVE  CoordinatorTypes'
  BY <1>1, BusyStep, EndIsGone DEF coordinator
<1>2. ASSUME NEW d \in Daemons, Spawn(d)
      PROVE  CoordinatorTypes'
  BY <1>2 DEF Spawn
<1>3. CASE StopSignal \/ StopSeesExit \/ StopKills
  <2>1. UNCHANGED coordinator /\ stopping' \in {"no", "restore"} \cup Daemons
    BY <1>3 DEF StopSignal, StopSeesExit, StopKills, PidAlive, FileRecord
  <2> QED BY <2>1 DEF coordinator
<1>over. ASSUME Over, enabled' \in BOOLEAN, supervisor' \in BOOLEAN,
               stopping' \in {"no", "restore"} \cup Daemons
         PROVE  CoordinatorTypes'
  <2>1. 1 \in Routes
    BY BoundsAssumption DEF Routes
  <2>2. downSamples' \in 0..1 /\ step' = "idle" /\ route' \in Routes /\ supervising' = FALSE
    BY <1>over, <2>1 DEF Over
  <2> QED BY <1>over, <2>2
<1>4. CASE StopRestores
  <2>1. stopping' = "no" /\ supervisor' = supervisor /\ AfterStop
    BY <1>4 DEF StopRestores
  <2>2. CASE step \in {"tryStop", "disableStop"}
    <3>1. step' \in {"spawn", "disableCheck"} /\ UNCHANGED <<enabled, locals>>
      BY <2>1, <2>2 DEF AfterStop
    <3> QED BY <2>1, <3>1 DEF locals
  <2>3. CASE step \in {"lastStop", "disableAgain"}
    <3>1. Over /\ enabled' \in BOOLEAN
      BY <2>1, <2>3 DEF AfterStop
    <3> QED BY <1>over, <2>1, <3>1
  <2> QED BY <1>4, <2>2, <2>3 DEF StopRestores, TunnelInv, SeenIsGone
<1>5. CASE Register
  BY <1>5 DEF Register, coordinator
<1>6. CASE Coordinate
  <2>0. ASSUME NEW b \in BOOLEAN, StartTrying(b), UNCHANGED stopping, supervisor' \in BOOLEAN
        PROVE  CoordinatorTypes'
    BY <2>0, BoundsAssumption DEF StartTrying, Routes
  <2>1. CASE Enable \/ CheckAndAutoStart \/ RefreshState \/ SupervisorTick
    BY <2>0, <2>1 DEF Enable, CheckAndAutoStart, RefreshState, SupervisorTick, outside
  <2>2. ASSUME NextRoute PROVE route' \in Routes /\ step' \in StopSteps /\ downSamples' = 0
    BY <2>2, BoundsAssumption DEF NextRoute, Routes
  <2>3. CASE SpawnFails \/ WaitGivesUp
    BY <2>2, <2>3 DEF SpawnFails, WaitGivesUp, world, outside
  <2>4. CASE WaitConnected
    BY <1>over, <2>4 DEF WaitConnected, world, outside
  <2>5. CASE WaitStarting
    BY <2>5 DEF WaitStarting, world, outside
  <2>6. CASE WaitDown
    BY <2>6 DEF WaitDown, world, outside
  <2>7. CASE Disable \/ StopForBackground
    BY <2>7 DEF Disable, StopForBackground, world, outside
  <2>8. CASE DisableCheck
    <3>1. supervisor' = supervisor /\ stopping' = stopping
      BY <2>8 DEF DisableCheck, world, outside
    <3>2. CASE step' = "disableAgain" /\ UNCHANGED <<enabled, locals>>
      BY <3>1, <3>2 DEF locals
    <3>3. CASE Over /\ enabled' = FALSE
      BY <1>over, <3>1, <3>3
    <3> QED BY <2>8, <3>2, <3>3 DEF DisableCheck
  <2> QED BY <1>6, <2>1, <2>3, <2>4, <2>5, <2>6, <2>7, <2>8 DEF Coordinate, Wait
<1>7. CASE AppDies
  BY <1>over, <1>7 DEF AppDies, outside
<1> QED BY <1>1, <1>2, <1>3, <1>4, <1>5, <1>6, <1>7, NextIs

\* Every step keeps the faults within their bound.
LEMMA HistoryTypesStep ==
    ASSUME TypeOK, Next
    PROVE  HistoryTypes'
<1>0. HistoryTypes /\ files \in FileRecord
  BY TypesAre
<1>1. Fault \/ UNCHANGED faults => faults' \in 0..MaxFaults
  BY <1>0, BoundsAssumption DEF HistoryTypes, Fault
<1> USE <1>0, <1>1
<1>2. ASSUME NEW d \in Daemons, Busy(d)
      PROVE  HistoryTypes'
  <2>1. missed' \subseteq Daemons /\ tangled' \subseteq Daemons /\ abandoned' \subseteq Daemons
    BY <1>2, BusyStep DEF HistoryTypes
  <2>2. lost' \in BOOLEAN /\ (Fault \/ UNCHANGED faults)
    BY <1>2 DEF HistoryTypes, Busy, Patch, SaveScoped, WritePid, StartFails, AddHostRoute, SetupRouting,
                WriteReady, InstallHandlers, LeaveLoop, RemoveRoutes, MayWrite, history
  <2> QED BY <2>1, <2>2 DEF HistoryTypes
<1>3. ASSUME NEW d \in Daemons, RestoreScoped(d) \/ Killed(d)
      PROVE  HistoryTypes'
  <2>1. missed' \subseteq Daemons /\ tangled' \subseteq Daemons /\ abandoned' \subseteq Daemons
    BY <1>3, EndIsGone, GoneStep DEF HistoryTypes
  <2>2. lost' \in BOOLEAN /\ (Fault \/ UNCHANGED faults)
    BY <1>3 DEF HistoryTypes, RestoreScoped, MayRestore, Killed, Dies
  <2> QED BY <2>1, <2>2 DEF HistoryTypes
<1>4. ASSUME NEW d \in Daemons, Spawn(d)
      PROVE  HistoryTypes'
  BY <1>4 DEF Spawn, HistoryTypes, Running
<1>5. CASE StopSignal
  <2>1. CASE PidAlive /\ Dies(files.pid)
    <3>1. files.pid \in Daemons
      BY <2>1 DEF FileRecord, PidAlive
    <3> QED BY <1>5, <2>1, <3>1, EndIsGone, GoneStep DEF StopSignal, Dies, HistoryTypes, Unseen, Running
  <2>2. CASE UNCHANGED <<lost, tangled, abandoned>>
    BY <1>5, <2>2 DEF StopSignal, HistoryTypes, Unseen, Running
  <2> QED BY <1>5, <2>1, <2>2 DEF StopSignal
<1>6. CASE StopKills
  BY <1>6, EndIsGone, GoneStep DEF StopKills, Dies, HistoryTypes
<1>7. CASE StopSeesExit
  BY <1>7 DEF StopSeesExit, HistoryTypes, history
<1>8. CASE StopRestores \/ Register
  <2>1. lost' \in BOOLEAN /\ (Fault \/ UNCHANGED faults)
    BY <1>8 DEF StopRestores, Register, ForceRestore, MayRestore, HistoryTypes
  <2> QED BY <1>8, <2>1 DEF StopRestores, Register, HistoryTypes, Unseen, Running
<1>9. CASE Coordinate \/ AppDies
  <2>1. abandoned' \subseteq Daemons /\ (Fault \/ UNCHANGED faults)
    BY <1>9 DEF HistoryTypes, Coordinate, Wait, Enable, CheckAndAutoStart, RefreshState, SupervisorTick,
         SpawnFails, WaitConnected, WaitStarting, WaitDown, WaitGivesUp, Disable, DisableCheck,
         StopForBackground, AppDies, world, StartTrying, Running
  <2> QED BY <1>9, <2>1, CoordinateLeaves DEF HistoryTypes
<1> QED BY <1>2, <1>3, <1>4, <1>5, <1>6, <1>7, <1>8, <1>9, NextIs

LEMMA TypeStep ==
    ASSUME TunnelInv, [Next]_vars
    PROVE  TypeOK'
<1>0. TypeOK
  BY DEF TunnelInv
<1>1. CASE Next
  BY <1>0, <1>1, TypesAre, DaemonTypesStep, SystemTypesStep, CoordinatorTypesStep, HistoryTypesStep
<1>2. CASE UNCHANGED vars
  BY <1>0, <1>2 DEF vars, TypeOK, system, coordinator, history
<1> QED BY <1>1, <1>2

-----------------------------------------------------------------------------
(* Commands and daemons.                                                   *)

\* What a stop could see is gone before the coordinator goes on; this is kept
\* by every step, and with it the two properties of who runs.
LEMMA SeenStep ==
    ASSUME TunnelInv, [Next]_vars
    PROVE  SeenIsGone' /\ BesideOnlyMissed' /\ DisabledLeavesMissed'
<1> USE DEF SeenIsGone, BesideOnlyMissed, DisabledLeavesMissed
<1>0. TypeOK /\ SeenIsGone /\ BesideOnlyMissed /\ DisabledLeavesMissed
  BY DEF TunnelInv
<1>1. ASSUME NEW d \in Daemons, Busy(d)
      PROVE  SeenIsGone' /\ BesideOnlyMissed' /\ DisabledLeavesMissed'
  BY <1>0, <1>1, BusyStep DEF coordinator
<1>2. ASSUME NEW d \in Daemons, RestoreScoped(d) \/ Killed(d)
      PROVE  SeenIsGone' /\ BesideOnlyMissed' /\ DisabledLeavesMissed'
  <2>1. Gone(d) /\ UNCHANGED <<coordinator, stopping, missed>>
    BY <1>2, EndIsGone
  <2> QED BY <1>0, <2>1, GoneStep DEF coordinator
<1>3. ASSUME NEW d \in Daemons, Spawn(d)
      PROVE  SeenIsGone' /\ BesideOnlyMissed' /\ DisabledLeavesMissed'
  <2>1. Running \subseteq missed /\ d \notin Running /\ stopping = "no"
    BY <1>0, <1>3 DEF Spawn, Running, StopSteps, TypeOK
  <2>2. Running' = Running \cup {d}
    BY <1>0, <1>3 DEF Spawn, Running, Alive, TypeOK
  <2>3. missed' = missed \ {d} /\ step' = "wait" /\ stopping' = "no"
    BY <1>3, <2>1 DEF Spawn
  <2> QED BY <1>0, <2>1, <2>2, <2>3, IdsAssumption
<1>4. CASE StopSignal
  <2>1. step \in StopSteps /\ UNCHANGED <<step, enabled>> /\ missed' = missed \cup Unseen
    BY <1>4 DEF StopSignal, coordinator, StopSteps
  <2>2. CASE ~PidAlive
    <3>1. Running' = Running /\ stopping' = "restore" /\ UNCHANGED abandoned
      BY <1>4, <2>2 DEF StopSignal, Running, Alive
    <3>2. Unseen = Running
      BY <1>0, <2>2, IdsAssumption DEF TypeOK, Unseen, PidAlive, Running, None
    <3> QED BY <1>0, <2>1, <3>1, <3>2 DEF StopSteps
  <2>3. CASE PidAlive
    <3>1. Running' \subseteq Running /\ stopping' = files.pid
      <4>1. files.pid \in Daemons
        BY <1>0, <2>3 DEF TypeOK, PidAlive
      <4>2. CASE Dies(files.pid)
        BY <1>0, <1>4, <2>3, <4>1, <4>2, EndIsGone, GoneStep DEF StopSignal
      <4>3. CASE UNCHANGED pc
        BY <1>4, <2>3, <4>3 DEF StopSignal, Running, Alive
      <4> QED BY <1>4, <2>3, <4>2, <4>3 DEF StopSignal
    <3>2. files.pid \in Daemons /\ Running \subseteq Unseen \cup {files.pid}
      BY <1>0, <2>3 DEF Unseen, PidAlive, TypeOK
    <3> QED BY <1>0, <2>1, <3>1, <3>2, IdsAssumption DEF StopSteps
  <2> QED BY <2>2, <2>3
<1>5. CASE StopSeesExit
  <2>1. UNCHANGED <<pc, coordinator, missed, abandoned>> /\ stopping \in Daemons /\ ~Alive(stopping)
        /\ stopping' = "restore"
    BY <1>5 DEF StopSeesExit, history
  <2>2. Running' = Running /\ Running \subseteq missed
    BY <1>0, <2>1 DEF Running, Alive
  <2> QED BY <1>0, <2>1, <2>2, IdsAssumption DEF coordinator
<1>6. CASE StopKills
  <2>1. stopping \in Daemons /\ Gone(stopping) /\ stopping' = "restore"
        /\ UNCHANGED <<coordinator, missed>>
    BY <1>6, EndIsGone DEF StopKills
  <2>2. Running' = Running \ {stopping} /\ Running' \subseteq missed
    BY <1>0, <2>1, GoneStep
  <2> QED BY <1>0, <2>1, <2>2, IdsAssumption DEF coordinator, StopSteps
<1>7. CASE StopRestores
  <2>1. Running \subseteq missed /\ Running' = Running /\ missed' = missed \cap Running
        /\ stopping' = "no"
    BY <1>0, <1>7 DEF StopRestores, Running, Alive
  <2> QED BY <1>0, <2>1, IdsAssumption
<1>8. CASE Register
  <2>1. Running' = Running /\ missed' = missed \cup Unseen /\ UNCHANGED <<coordinator, stopping, abandoned>>
    BY <1>8 DEF Register, Running, Alive
  <2> QED BY <1>0, <2>1 DEF coordinator
<1>9. CASE Coordinate \/ AppDies
  <2>1. Running' = Running /\ UNCHANGED <<stopping, missed>>
    BY <1>9, CoordinatorStep DEF Running, Alive
  <2>2. stopping = "no"
    BY <1>0, <1>9, CoordinatorStep
  <2> QED BY <1>0, <1>9, <2>1, <2>2, CoordinatorStep, IdsAssumption
<1>10. CASE UNCHANGED vars
  BY <1>0, <1>10 DEF vars, coordinator, history, Running, Alive
<1> QED BY <1>1, <1>2, <1>3, <1>4, <1>5, <1>6, <1>7, <1>8, <1>9, <1>10, NextIs

\* A daemon that is not tangled runs alone: the first one is started when none
\* runs that a stop missed, and any other tangles all that run.
LEMMA AloneStep ==
    ASSUME TunnelInv, Next
    PROVE  Alone' /\ TableIsAlive'
<1> USE DEF Alone, TableIsAlive
<1>0. TypeOK /\ SeenIsGone /\ Alone /\ TableIsAlive
  BY DEF TunnelInv
<1>1. ASSUME NEW d \in Daemons, Busy(d)
      PROVE  Alone' /\ TableIsAlive'
  <2>1. Running' = Running /\ tangled' = tangled /\ d \in Running
    BY <1>0, <1>1, BusyStep
  <2>2. table' \in {table, d, None}
    BY <1>1 DEF Busy, Patch, SaveScoped, WritePid, StartFails, AddHostRoute, SetupRouting, WriteReady,
                InstallHandlers, LeaveLoop, RemoveRoutes, system
  <2> QED BY <1>0, <2>1, <2>2
<1>2. ASSUME NEW d \in Daemons, Gone(d)
      PROVE  Alone' /\ TableIsAlive'
  BY <1>0, <1>2, GoneStep
<1>3. ASSUME NEW d \in Daemons, Spawn(d)
      PROVE  Alone' /\ TableIsAlive'
  <2>1. Running' = Running \cup {d} /\ table' = table
    BY <1>0, <1>3 DEF Spawn, Running, Alive, TypeOK, system
  <2>2. missed = {} => Running = {}
    BY <1>0, <1>3 DEF Spawn, SeenIsGone
  <2>3. tangled' = IF missed = {} THEN tangled ELSE tangled \cup {d} \cup Running
    BY <1>3 DEF Spawn
  <2> QED BY <1>0, <2>1, <2>2, <2>3
<1>4. ASSUME UNCHANGED <<pc, table, tangled>>
      PROVE  Alone' /\ TableIsAlive'
  BY <1>0, <1>4 DEF Running, Alive
<1>5. CASE StopSignal
  <2>1. CASE PidAlive /\ Dies(files.pid)
    <3>1. files.pid \in Daemons
      BY <1>0, <2>1 DEF TypeOK, PidAlive
    <3> QED BY <1>2, <2>1, <3>1, EndIsGone
  <2> QED BY <1>4, <1>5, <2>1 DEF StopSignal
<1>6. CASE StopKills
  BY <1>2, <1>6, EndIsGone DEF StopKills
<1>7. CASE StopSeesExit \/ StopRestores \/ Register
  BY <1>4, <1>7 DEF StopSeesExit, StopRestores, Register, ForceRestore, system, history
<1>8. CASE Coordinate \/ AppDies
  BY <1>4, <1>8, CoordinateLeaves DEF system
<1> QED BY <1>1, <1>2, <1>3, <1>5, <1>6, <1>7, <1>8, EndIsGone, NextIs

-----------------------------------------------------------------------------
(* Routes.                                                                 *)

\* What stop and register undo is not what such a daemon has set up: they
\* have missed every daemon that runs.
LEMMA RestoresBesideMissed ==
    ASSUME TunnelInv, StopRestores \/ Register
    PROVE  Running' = Running /\ Running \subseteq missed'
<1>1. CASE StopRestores
  BY <1>1 DEF TunnelInv, SeenIsGone, StopRestores, Running, Alive
<1>2. CASE Register
  <2>1. Unseen = Running
    BY <1>2, IdsAssumption DEF TunnelInv, TypeOK, Register, Unseen, PidAlive, Running, None
  <2> QED BY <1>2, <2>1 DEF Register, Running, Alive
<1> QED BY <1>1, <1>2

LEMMA CarriesStep ==
    ASSUME TunnelInv, Next
    PROVE  Carries'
<1>0. TypeOK /\ Alone /\ TableIsAlive /\ Carries
  BY DEF TunnelInv
<1>1. ASSUME NEW d \in Daemons, Busy(d)
      PROVE  Carries'
  <2>1. Running' = Running /\ UNCHANGED <<missed, tangled>> /\ d \in Running
    BY <1>0, <1>1, BusyStep
  <2> SUFFICES ASSUME d \notin missed, d \notin tangled, Running = {d}
               PROVE  /\ pc'[d] \in {"ready", "handlers", "loop"} => table' = d
                      /\ daemon'[d].host /\ pc'[d] # "restore" => daemon'[d].endpoint \in hostRoutes'
                      /\ daemon'[d].changed => scoped' = "off"
    BY <1>0, <2>1 DEF Alone, Carries
  <2>2. /\ pc[d] \in {"ready", "handlers", "loop"} => table = d
        /\ daemon[d].host /\ pc[d] # "restore" => daemon[d].endpoint \in hostRoutes
        /\ daemon[d].changed => scoped = "off"
        /\ table \in {d, None}
    BY <1>0, <2>1 DEF Carries, TableIsAlive
  <2> USE <1>0, <2>2 DEF TypeOK, At
  <2>3. CASE Patch(d)
    BY <2>3 DEF Patch
  <2>4. CASE SaveScoped(d)
    BY <2>4 DEF SaveScoped, system
  <2>5. CASE WritePid(d)
    BY <2>5 DEF WritePid, system
  <2>6. CASE StartFails(d)
    BY <2>6 DEF StartFails, system
  <2>7. CASE AddHostRoute(d)
    BY <2>7 DEF AddHostRoute
  <2>8. CASE SetupRouting(d)
    BY <2>8 DEF SetupRouting
  <2>9. CASE WriteReady(d)
    BY <2>9 DEF WriteReady, system
  <2>10. CASE InstallHandlers(d)
    BY <2>10 DEF InstallHandlers, system
  <2>11. CASE LeaveLoop(d)
    BY <2>11 DEF LeaveLoop, system
  <2>12. CASE RemoveRoutes(d)
    BY <2>12 DEF RemoveRoutes
  <2> QED BY <1>1, <2>3, <2>4, <2>5, <2>6, <2>7, <2>8, <2>9, <2>10, <2>11, <2>12 DEF Busy
<1>2. ASSUME NEW d \in Running, Gone(d), missed \subseteq missed'
      PROVE  Carries'
  <2>1. d \in Daemons
    BY DEF Running
  <2>2. \A e \in Running' : e \in Running /\ e # d /\ (e \notin tangled' => e \notin tangled)
    BY <1>0, <1>2, <2>1, GoneStep
  <2>3. \A e \in Running' : e \in tangled'
    BY <1>0, <2>2 DEF Alone
  <2> QED BY <2>3 DEF Carries
<1>3. ASSUME NEW d \in Daemons, Spawn(d)
      PROVE  Carries'
  <2>1. Running' = Running \cup {d} /\ UNCHANGED <<table, scoped, hostRoutes>>
    BY <1>0, <1>3 DEF Spawn, Running, Alive, TypeOK, system
  <2>2. tangled \subseteq tangled' /\ (missed # {} => Running \subseteq tangled')
    BY <1>3 DEF Spawn
  <2>3. Running \subseteq missed
    BY <1>3 DEF TunnelInv, SeenIsGone, Spawn
  <2>4. pc'[d] = "patch" /\ ~daemon'[d].host /\ ~daemon'[d].changed
    BY <1>0, <1>3 DEF Spawn, TypeOK, Fresh
  <2>5. \A e \in Running' \ tangled' : e = d
    BY <2>1, <2>2, <2>3
  <2> QED BY <2>4, <2>5 DEF Carries
<1>4. ASSUME UNCHANGED <<pc, daemon, table, hostRoutes, scoped, tangled>>, missed \subseteq missed'
      PROVE  Carries'
  BY <1>0, <1>4 DEF Carries, Running, Alive
<1>5. CASE StopSignal
  <2>0. missed \subseteq missed'
    BY <1>5 DEF StopSignal
  <2>1. CASE PidAlive /\ Dies(files.pid)
    <3>1. files.pid \in Running
      BY <1>0, <2>1 DEF TypeOK, PidAlive, Running
    <3> QED BY <1>2, <2>0, <2>1, <3>1, EndIsGone DEF Running
  <2> QED BY <1>4, <1>5, <2>0, <2>1 DEF StopSignal
<1>6. CASE StopKills
  <2>1. stopping \in Running /\ Gone(stopping) /\ missed' = missed
    BY <1>6, EndIsGone DEF StopKills, Running
  <2> QED BY <1>2, <2>1
<1>7. ASSUME NEW d \in Daemons, RestoreScoped(d) \/ Killed(d)
      PROVE  Carries'
  <2>1. d \in Running /\ Gone(d) /\ missed' = missed
    BY <1>7, EndIsGone DEF RestoreScoped, Killed, At, Running, Alive
  <2> QED BY <1>2, <2>1
<1>8. CASE StopSeesExit
  BY <1>4, <1>8 DEF StopSeesExit, system, history
<1>9. CASE StopRestores \/ Register
  BY <1>9, RestoresBesideMissed DEF Carries
<1>10. CASE Coordinate \/ AppDies
  BY <1>4, <1>10, CoordinateLeaves DEF system
<1> QED BY <1>1, <1>3, <1>5, <1>6, <1>7, <1>8, <1>9, <1>10, NextIs

-----------------------------------------------------------------------------
(* Scoped routing.                                                         *)

\* A write of the system's value leaves it in force, or was refused and lost it.
LEMMA MayRestoreBoot ==
    ASSUME MayRestore(ScopedAtBoot), ~lost'
    PROVE  scoped' = ScopedAtBoot /\ ~lost
<1>1. CASE scoped' = ScopedAtBoot /\ UNCHANGED <<faults, lost>>
  BY <1>1
<1>2. CASE Fault /\ lost' = (lost \/ scoped # ScopedAtBoot) /\ UNCHANGED scoped
  <2>1. ~lost /\ scoped = ScopedAtBoot
    BY <1>2, Zenon
  <2> QED BY <1>2, <2>1
<1> QED BY <1>1, <1>2, Zenon DEF MayRestore

\* stop and register put back what is on file.
LEMMA ForceRestoreBoot ==
    ASSUME ForceRestore, ~lost', OldIsBoot
    PROVE  /\ ~lost /\ files'.old = None
           /\ scoped' \in {scoped, ScopedAtBoot}
           /\ files.old = ScopedAtBoot => scoped' = ScopedAtBoot
<1>1. CASE files.old = None
  BY <1>1, ScopedAssumption DEF ForceRestore, None
<1>2. CASE files.old = ScopedAtBoot
  <2>1. MayRestore(ScopedAtBoot)
    BY <1>2, ScopedAssumption DEF ForceRestore, None
  <2> QED BY <2>1, MayRestoreBoot DEF ForceRestore
<1> QED BY <1>1, <1>2 DEF OldIsBoot

\* Losing track of the system's value is never undone.
LEMMA LostStays ==
    ASSUME TunnelInv, Next, lost
    PROVE  lost'
<1>1. ASSUME NEW d \in Daemons, Busy(d) PROVE lost'
  BY <1>1, BusyStep DEF TunnelInv
<1>2. ASSUME NEW d \in Daemons, RestoreScoped(d) \/ Killed(d) \/ Spawn(d) PROVE lost'
  BY <1>2 DEF RestoreScoped, MayRestore, Killed, Dies, Spawn
<1>3. CASE StopSignal \/ StopSeesExit \/ StopKills \/ StopRestores \/ Register
  BY <1>3 DEF StopSignal, StopSeesExit, StopKills, StopRestores, Register, ForceRestore, MayRestore, Dies, history
<1>4. CASE Coordinate \/ AppDies
  BY <1>4, CoordinateLeaves
<1> QED BY <1>1, <1>2, <1>3, <1>4, NextIs

LEMMA UnsavedStep ==
    ASSUME TunnelInv, Next
    PROVE  UnsavedBeforePatch'
<1>0. TypeOK /\ UnsavedBeforePatch
  BY DEF TunnelInv, ScopedInv
<1>1. ASSUME NEW d \in Daemons, Busy(d) PROVE UnsavedBeforePatch'
  <2>1. pc'[d] # "patch"
    BY <1>0, <1>1 DEF TypeOK, Busy, Patch, SaveScoped, WritePid, StartFails, AddHostRoute, SetupRouting,
                WriteReady, InstallHandlers, LeaveLoop, RemoveRoutes, At
  <2> QED BY <1>0, <1>1, <2>1, BusyStep DEF UnsavedBeforePatch, Running
<1>2. ASSUME NEW d \in Daemons, Gone(d) PROVE UnsavedBeforePatch'
  BY <1>0, <1>2, GoneStep DEF UnsavedBeforePatch, Running
<1>3. ASSUME NEW d \in Daemons, Spawn(d) PROVE UnsavedBeforePatch'
  <2>1. ~daemon'[d].saved /\ \A e \in Daemons : e # d => pc'[e] = pc[e] /\ daemon'[e] = daemon[e]
    BY <1>0, <1>3 DEF Spawn, Fresh, TypeOK
  <2> QED BY <1>0, <2>1 DEF UnsavedBeforePatch, Running, Alive
<1>4. ASSUME UNCHANGED <<pc, daemon>> PROVE UnsavedBeforePatch'
  BY <1>0, <1>4 DEF UnsavedBeforePatch, Running, Alive
<1>5. CASE StopSignal
  <2>1. CASE PidAlive /\ Dies(files.pid)
    <3>1. files.pid \in Daemons
      BY <1>0, <2>1 DEF TypeOK, PidAlive
    <3> QED BY <1>2, <2>1, <3>1, EndIsGone
  <2> QED BY <1>4, <1>5, <2>1 DEF StopSignal
<1>6. CASE StopKills
  BY <1>2, <1>6, EndIsGone DEF StopKills
<1>7. CASE StopSeesExit \/ StopRestores \/ Register \/ Coordinate \/ AppDies
  BY <1>4, <1>7, CoordinateLeaves DEF StopSeesExit, StopRestores, Register
<1> QED BY <1>1, <1>2, <1>3, <1>5, <1>6, <1>7, EndIsGone, NextIs

\* While the value is not lost, every step keeps it in force, on file, or with
\* the one daemon that has replaced it and not saved it yet.
LEMMA BootStep ==
    ASSUME TunnelInv, Next, ~lost'
    PROVE  OldIsBoot' /\ BootBeforePatch' /\ BootIsKept'
<1>0. /\ TypeOK /\ SeenIsGone /\ Alone /\ UnsavedBeforePatch /\ ~lost
      /\ OldIsBoot /\ BootBeforePatch /\ BootIsKept
  BY LostStays DEF TunnelInv, ScopedInv
<1>1. ASSUME NEW d \in Daemons, Busy(d)
      PROVE  OldIsBoot' /\ BootBeforePatch' /\ BootIsKept'
  <2>1. /\ Running' = Running /\ d \in Running
        /\ \A e \in Daemons : e # d => pc'[e] = pc[e] /\ daemon'[e] = daemon[e]
        /\ UNCHANGED <<step, missed, tangled>>
    BY <1>0, <1>1, BusyStep DEF coordinator
  <2>2. pc'[d] # "patch"
    BY <1>0, <1>1 DEF TypeOK, Busy, Patch, SaveScoped, WritePid, StartFails, AddHostRoute, SetupRouting,
                WriteReady, InstallHandlers, LeaveLoop, RemoveRoutes, At
  <2>3. CASE Patch(d) /\ pc'[d] = "save"
    <3>1. /\ pc[d] = "patch" /\ scoped' = "off" /\ UNCHANGED files /\ d \notin tangled
          /\ daemon'[d].changed = (scoped # "off") /\ daemon'[d].old = scoped
          /\ daemon'[d].saved = daemon[d].saved
      <4>1. PICK value \in {scoped, "on"} :
                /\ At(d, "patch", "save") /\ scoped' = "off"
                /\ daemon' = [daemon EXCEPT ![d].changed = value # "off", ![d].old = value]
                /\ lost' = (lost \/ value # scoped \/ d \in tangled)
        BY <1>0, <2>3 DEF Patch, At, TypeOK
      <4>2. value = scoped /\ d \notin tangled
        BY <4>1, Zenon
      <4> QED BY <1>0, <2>3, <4>1, <4>2 DEF Patch, At, TypeOK
    <3>2. scoped = ScopedAtBoot /\ ~daemon'[d].saved /\ Running = {d}
      BY <1>0, <2>1, <3>1 DEF BootBeforePatch, UnsavedBeforePatch, Alone
    <3>3. OldIsBoot'
      BY <1>0, <2>1, <3>1, <3>2 DEF OldIsBoot
    <3>4. BootBeforePatch'
      BY <1>0, <2>1, <2>2, <3>1, <3>2 DEF BootBeforePatch, SeenIsGone
    <3>5. BootIsKept'
      BY <2>1, <3>1, <3>2 DEF BootIsKept
    <3> QED BY <3>3, <3>4, <3>5
  <2>4. CASE SaveScoped(d)
    <3>1. /\ pc[d] = "save" /\ pc'[d] = "pid" /\ UNCHANGED scoped
          /\ daemon'[d].changed = daemon[d].changed /\ daemon'[d].old = daemon[d].old
          /\ \/ files'.old = daemon[d].old
             \/ files' = files /\ daemon' = daemon
      BY <1>0, <2>4 DEF SaveScoped, At, TypeOK, system
    <3>2. daemon[d].old = ScopedAtBoot
      BY <1>0, <2>1, <3>1 DEF OldIsBoot
    <3> QED BY <1>0, <2>1, <2>2, <3>1, <3>2 DEF OldIsBoot, BootBeforePatch, BootIsKept, Running
  <2>5. CASE ~(Patch(d) /\ pc'[d] = "save") /\ ~SaveScoped(d)
    <3>1. /\ UNCHANGED scoped /\ files'.old = files.old /\ pc'[d] # "save"
          /\ daemon'[d].changed = daemon[d].changed /\ daemon'[d].old = daemon[d].old
          /\ daemon'[d].saved = daemon[d].saved
      <4> USE <1>0 DEF TypeOK, At
      <4>1. CASE Patch(d)
        BY <2>5, <4>1 DEF Patch
      <4>2. CASE WritePid(d) \/ WriteReady(d)
        BY <4>2 DEF WritePid, WriteReady, MayWrite, system
      <4>3. CASE StartFails(d) \/ LeaveLoop(d)
        BY <4>3 DEF StartFails, LeaveLoop, system
      <4>4. CASE AddHostRoute(d)
        BY <4>4 DEF AddHostRoute
      <4>5. CASE SetupRouting(d)
        BY <4>5 DEF SetupRouting
      <4>6. CASE InstallHandlers(d)
        BY <4>6 DEF InstallHandlers, system
      <4>7. CASE RemoveRoutes(d)
        BY <4>7 DEF RemoveRoutes
      <4> QED BY <1>1, <2>5, <4>1, <4>2, <4>3, <4>4, <4>5, <4>6, <4>7 DEF Busy
    <3>2. OldIsBoot'
      BY <1>0, <2>1, <3>1 DEF OldIsBoot, Running
    <3>3. BootBeforePatch'
      BY <1>0, <2>1, <2>2, <3>1 DEF BootBeforePatch, Running
    <3>4. BootIsKept'
      BY <1>0, <2>1, <3>1 DEF BootIsKept, Running
    <3> QED BY <3>2, <3>3, <3>4
  <2> QED BY <2>3, <2>4, <2>5
<1>2. ASSUME NEW d \in Daemons, Gone(d), daemon[d].changed => daemon[d].saved \/ scoped' = ScopedAtBoot,
             scoped' \in {scoped, ScopedAtBoot}, UNCHANGED <<step>>, missed \subseteq missed',
             files'.old = files.old \/ (files'.old = None /\ scoped' = ScopedAtBoot)
      PROVE  OldIsBoot' /\ BootBeforePatch' /\ BootIsKept'
  <2>1. /\ Running' = Running \ {d}
        /\ \A e \in Running' : pc'[e] = pc[e] /\ daemon'[e] = daemon[e] /\ (e \in tangled => e \in tangled')
    BY <1>0, <1>2, GoneStep DEF Running
  <2>2. OldIsBoot'
    BY <1>0, <1>2, <2>1 DEF OldIsBoot
  <2>3. BootBeforePatch'
    BY <1>0, <1>2, <2>1 DEF BootBeforePatch
  <2>4. BootIsKept'
    BY <1>0, <1>2, <2>1 DEF BootIsKept
  <2> QED BY <2>2, <2>3, <2>4
<1>3. ASSUME NEW d \in Daemons, RestoreScoped(d)
      PROVE  OldIsBoot' /\ BootBeforePatch' /\ BootIsKept'
  <2>1. Gone(d) /\ UNCHANGED <<step, missed>> /\ d \in Running
    BY <1>3, EndIsGone DEF coordinator, RestoreScoped, At, Running, Alive
  <2>2. CASE daemon[d].changed
    <3>1. MayRestore(ScopedAtBoot) /\ files'.old = None
      BY <1>0, <1>3, <2>1, <2>2 DEF RestoreScoped, OldIsBoot, TypeOK
    <3>2. scoped' = ScopedAtBoot
      BY <3>1, MayRestoreBoot
    <3> QED BY <1>2, <2>1, <3>1, <3>2
  <2>3. CASE ~daemon[d].changed
    BY <1>2, <1>3, <2>1, <2>3 DEF RestoreScoped
  <2> QED BY <2>2, <2>3
<1>4. ASSUME NEW d \in Daemons, Killed(d)
      PROVE  OldIsBoot' /\ BootBeforePatch' /\ BootIsKept'
  <2>1. Gone(d) /\ UNCHANGED <<step, missed, files>> /\ d \in Running
    BY <1>4, EndIsGone DEF coordinator, Killed, Running
  <2>2. daemon[d].changed => daemon[d].saved
    BY <1>4 DEF Killed, Dies
  <2>3. scoped' \in {scoped, ScopedAtBoot}
    BY <1>0, <1>4, <2>1 DEF Killed, OldIsBoot
  <2> QED BY <1>2, <2>1, <2>2, <2>3
<1>5. ASSUME NEW d \in Daemons, Dies(d), UNCHANGED <<scoped, step, files>>, missed \subseteq missed'
      PROVE  OldIsBoot' /\ BootBeforePatch' /\ BootIsKept'
  BY <1>2, <1>5, EndIsGone DEF Dies
<1>6. ASSUME NEW d \in Daemons, Spawn(d)
      PROVE  OldIsBoot' /\ BootBeforePatch' /\ BootIsKept'
  <2>1. /\ Running' = Running \cup {d} /\ d \notin Running /\ UNCHANGED <<scoped, files>> /\ step = "spawn" /\ step' = "wait"
        /\ \A e \in Running : pc'[e] = pc[e] /\ daemon'[e] = daemon[e]
    BY <1>0, <1>6 DEF Spawn, Running, Alive, TypeOK, system
  <2>2. pc'[d] = "patch" /\ ~daemon'[d].changed
    BY <1>0, <1>6 DEF Spawn, TypeOK, Fresh
  <2>3. tangled' = IF missed = {} THEN tangled ELSE tangled \cup {d} \cup Running
    BY <1>6 DEF Spawn
  <2>4. OldIsBoot'
    BY <1>0, <2>1, <2>2 DEF OldIsBoot
  <2>5. BootBeforePatch'
    BY <1>0, <2>1, <2>2, <2>3 DEF BootBeforePatch
  <2>6. BootIsKept'
    BY <1>0, <2>1, <2>2 DEF BootIsKept
  <2> QED BY <2>4, <2>5, <2>6
<1>7. CASE StopSignal
  <2>0. UNCHANGED <<scoped, step, files>> /\ missed \subseteq missed'
    BY <1>7 DEF StopSignal, coordinator
  <2>1. CASE PidAlive /\ Dies(files.pid)
    <3>1. files.pid \in Daemons
      BY <1>0, <2>1 DEF TypeOK, PidAlive
    <3> QED BY <1>5, <2>0, <2>1, <3>1
  <2>2. CASE UNCHANGED <<pc, daemon, tangled>>
    BY <1>0, <2>0, <2>2 DEF OldIsBoot, BootBeforePatch, BootIsKept, Running, Alive
  <2> QED BY <1>7, <2>1, <2>2 DEF StopSignal
<1>8. CASE StopSeesExit
  <2>1. UNCHANGED <<pc, daemon, scoped, files, step, missed, tangled>>
    BY <1>8 DEF StopSeesExit, system, coordinator, history
  <2> QED BY <1>0, <2>1 DEF OldIsBoot, BootBeforePatch, BootIsKept, Running, Alive
<1>9. CASE StopKills
  BY <1>5, <1>9 DEF StopKills, coordinator
<1>10. CASE StopRestores \/ Register
  <2>1. ForceRestore /\ UNCHANGED <<pc, daemon, tangled>>
    BY <1>10 DEF StopRestores, Register
  <2>2. /\ files'.old = None /\ scoped' \in {scoped, ScopedAtBoot}
        /\ files.old = ScopedAtBoot => scoped' = ScopedAtBoot
    BY <1>0, <2>1, ForceRestoreBoot
  <2>3. Running' = Running
    BY <2>1 DEF Running, Alive
  <2>4. OldIsBoot' /\ BootIsKept'
    BY <1>0, <2>1, <2>2, <2>3 DEF OldIsBoot, BootIsKept
  <2>5. missed' = {} => Running = {}
    BY <1>10, RestoresBesideMissed
  <2>6. Running = {} => scoped' = ScopedAtBoot
    BY <1>0, <2>2 DEF BootIsKept
  <2> QED BY <1>0, <2>1, <2>2, <2>3, <2>4, <2>5, <2>6 DEF BootBeforePatch
<1>11. CASE Coordinate \/ AppDies
  <2>1. UNCHANGED <<pc, daemon, scoped, files, missed, tangled>> /\ (step' = "spawn" => step = "spawn")
    BY <1>11, CoordinatorStep DEF system
  <2> QED BY <1>0, <2>1 DEF OldIsBoot, BootBeforePatch, BootIsKept, Running, Alive
<1> QED BY <1>1, <1>3, <1>4, <1>6, <1>7, <1>8, <1>9, <1>10, <1>11, NextIs

-----------------------------------------------------------------------------
(* The invariant and the theorems.                                         *)

LEMMA InitInvariant == Init => TunnelInv
<1> SUFFICES ASSUME Init PROVE TunnelInv
  OBVIOUS
<1>1. Running = {}
  BY DEF Init, Running, Alive
<1>2. TypeOK
  <2>1. 1 \in Routes
    BY BoundsAssumption DEF Routes
  <2>2. Fresh \in DaemonRecord
    BY <2>1 DEF Fresh, DaemonRecord
  <2>3. DaemonTypes
    BY <2>2 DEF Init, DaemonTypes
  <2>4. SystemTypes /\ files \in FileRecord
    BY ScopedAssumption DEF Init, SystemTypes, FileRecord
  <2>5. CoordinatorTypes
    <3>1. downSamples \in 0..1 /\ route \in Routes
      BY <2>1 DEF Init
    <3> QED BY <3>1 DEF Init, CoordinatorTypes
  <2>6. HistoryTypes
    <3>1. faults \in 0..MaxFaults
      BY BoundsAssumption DEF Init
    <3> QED BY <3>1 DEF Init, HistoryTypes
  <2> QED BY <2>3, <2>4, <2>5, <2>6, TypesAre
<1>3. SeenIsGone /\ BesideOnlyMissed /\ DisabledLeavesMissed
  BY <1>1, IdsAssumption DEF Init, SeenIsGone, BesideOnlyMissed, DisabledLeavesMissed
<1>4. Alone /\ TableIsAlive /\ Carries
  BY <1>1 DEF Init, Alone, TableIsAlive, Carries
<1>5. ScopedInv
  BY <1>1 DEF Init, ScopedInv, UnsavedBeforePatch, OldIsBoot, BootBeforePatch, BootIsKept
<1> QED BY <1>2, <1>3, <1>4, <1>5 DEF TunnelInv

LEMMA NextInvariant ==
    ASSUME TunnelInv, [Next]_vars
    PROVE  TunnelInv'
<1>1. CASE Next
  <2>1. ScopedInv'
    BY <1>1, UnsavedStep, BootStep DEF ScopedInv
  <2> QED BY <1>1, <2>1, TypeStep, SeenStep, AloneStep, CarriesStep DEF TunnelInv
<1>2. CASE UNCHANGED vars
  <2>1. Running' = Running
    BY <1>2 DEF vars, Running, Alive
  <2>2. Alone' /\ TableIsAlive' /\ Carries'
    BY <1>2, <2>1 DEF TunnelInv, vars, system, history, Alone, TableIsAlive, Carries
  <2>3. ScopedInv'
    BY <1>2, <2>1 DEF TunnelInv, vars, system, history, coordinator, ScopedInv, UnsavedBeforePatch,
                      OldIsBoot, BootBeforePatch, BootIsKept
  <2> QED BY <2>2, <2>3, TypeStep, SeenStep DEF TunnelInv
<1> QED BY <1>1, <1>2

LEMMA InvariantHolds == Spec => []TunnelInv
<1>1. Init => TunnelInv
  BY InitInvariant
<1>2. TunnelInv /\ [Next]_vars => TunnelInv'
  BY NextInvariant
<1> QED BY <1>1, <1>2, PTL DEF Spec

\* Types: places, values, files and bounds stay in their sets.
THEOREM TypesHold == Spec => []TypeOK
<1>1. TunnelInv => TypeOK
  BY DEF TunnelInv
<1> QED BY <1>1, InvariantHolds, PTL

\* A daemon runs beside another only if a stop or a register looked for it
\* before its pid file was there: whatever the order of the commands, the
\* deaths and the refused writes, no path of the coordinator starts a second
\* daemon beside one that could be seen.
THEOREM NoneBesideASeenOne == Spec => []BesideOnlyMissed
<1>1. TunnelInv => BesideOnlyMissed
  BY DEF TunnelInv
<1> QED BY <1>1, InvariantHolds, PTL

\* With the switch off and nothing under way, whatever still runs was missed
\* by the stop, or abandoned when the application died or had no profile.
THEOREM DisabledLeavesNoSeenOne == Spec => []DisabledLeavesMissed
<1>1. TunnelInv => DisabledLeavesMissed
  BY DEF TunnelInv
<1> QED BY <1>1, InvariantHolds, PTL

\* With no daemon left, the system's value of scoped routing is in force or on
\* file, unless it was lost in one of the ways that set `lost'.
THEOREM ScopedIsRecoverable == Spec => []ScopedRecoverable
<1>1. TunnelInv => ScopedRecoverable
  BY DEF TunnelInv, ScopedInv, BootIsKept, ScopedRecoverable, NoDaemon
<1> QED BY <1>1, InvariantHolds, PTL

\* A daemon in its loop that was neither missed nor tangled keeps its routes
\* and finds scoped routing as it left it.
THEOREM TunnelKeepsCarrying == Spec => []TunnelCarries
<1>1. TunnelInv => TunnelCarries
  BY DEF TunnelInv, Carries, TunnelCarries, Running, Alive
<1> QED BY <1>1, InvariantHolds, PTL
=============================================================================
