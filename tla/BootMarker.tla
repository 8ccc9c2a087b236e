----------------------------- MODULE BootMarker -----------------------------
(***************************************************************************)
(* The boot marker of cc_mqtt_monitor/bootmarker.py, and the life of the   *)
(* process that keeps it (run_loop in monitor.py, under systemd with       *)
(* Restart=always).                                                        *)
(*                                                                         *)
(* A small JSON record on disk says "I was alive on boot B".  The monitor  *)
(* rewrites it as live while it runs, and as shutdown or stopped when it   *)
(* ends.  The first start in a later boot reads it and judges how the      *)
(* boot it names ended: clean, unclean or unknown.  The environment cuts   *)
(* the power, shuts the system down in order, kills the process, stops     *)
(* only the monitor, makes a state directory unwritable, and loses file    *)
(* writes the kernel had not yet put on the medium.                        *)
(***************************************************************************)
EXTENDS Naturals

CONSTANTS
    HEARTBEAT_S,     \* least time between two heartbeat writes
    IntervalS,       \* config.interval_seconds: from the top of a cycle to the next,
                     \* unless the body of the cycle takes longer
    BootIdReadable,  \* /proc/sys/kernel/random/boot_id can be read
    VolatileWrites,  \* a power cut may lose writes that were not yet synced
    MaxBoots, MaxClock, MaxRemounts   \* bounds on the environment

ASSUME BootMarkerAssumption ==
    /\ HEARTBEAT_S \in Nat /\ IntervalS \in Nat
    /\ BootIdReadable \in BOOLEAN /\ VolatileWrites \in BOOLEAN
    /\ MaxBoots \in Nat /\ MaxClock \in Nat /\ MaxRemounts \in Nat

VARIABLES
    boot,        \* the running kernel's boot id: 1, 2, ... (0 before the first)
    power,       \* "off" | "on" | "stopping" (systemd is shutting down)
    proc,        \* "down" | "launched" | "started" | "live"
    asleep,      \* the loop is in _sleep_until_next, past the body of its cycle
    disk,        \* path -> marker record, as the file system shows it
    durable,     \* path -> marker record, as the medium holds it
    writable,    \* the candidate paths that can be written
    now,         \* time.time()
    lastBeat,    \* _last_beat
    lastTop,     \* when start(), or the top of the loop, last ran
    remounts,    \* how often writability has changed
    begun,       \* history: boots in which an orderly shutdown began
    cut,         \* history: boots that ended in a power cut
    cutUp,       \* history: those that were cut with the monitor in its loop
    lapsed,      \* history: boots in which the monitor died without stop(), or
                 \* in which the marker's place on disk changed
    topAt        \* history: lastTop of each boot that was cut, when it was cut

envVars  == <<boot, power, now, writable, remounts>>
procVars == <<proc, asleep, lastBeat, lastTop>>
diskVars == <<disk, durable>>
histVars == <<begun, cut, cutUp, lapsed, topAt>>
vars     == <<envVars, procVars, diskVars, histVars>>

-----------------------------------------------------------------------------
(* The record and the two places it may be kept. *)

Path == {"system", "user"}

State   == {"none", "live", "shutdown", "stopped"}
Verdict == {"none", "clean", "unclean", "unknown"}

\* "about" is the boot the verdict was reached from; the code does not store it.
Record == [boot: Nat, state: State, ts: Nat,
           last_shutdown: Verdict, last_shutdown_ts: Nat, about: Nat]

\* A path that holds no record: a boot id of 0 is the empty boot_id.
NoRecord == [boot |-> 0, state |-> "none", ts |-> 0,
             last_shutdown |-> "none", last_shutdown_ts |-> 0, about |-> 0]

\* Mutant: the state itself is published instead of the verdict it stands for.
verdict_is_state(state) == state

\* _VERDICT_FOR_STATE, with UNKNOWN for anything it does not list.
verdict_for_state(state) ==
    CASE state = "live"     -> "unclean"
      [] state = "shutdown" -> "clean"
      [] OTHER              -> "unknown"

\* The kernel's boot id, 0 when it cannot be read: the marker is then inert.
current_boot_id == IF BootIdReadable THEN boot ELSE 0

\* The first candidate path that holds a record is the one that is read.
ReadFrom(files) ==
    IF files["system"].boot # 0 THEN files["system"] ELSE files["user"]

read == ReadFrom(disk)

\* The first candidate path that can be written is the one that is written.
WriteTo(files, rec) ==
    IF "system" \in writable THEN [files EXCEPT !["system"] = rec]
    ELSE IF "user" \in writable THEN [files EXCEPT !["user"] = rec]
    ELSE files

\* _write: visible to every reader at once (os.replace), on the medium only
\* once the kernel has synced it (nothing calls fsync).
Write(rec) ==
    /\ disk' = WriteTo(disk, rec)
    /\ durable' = IF VolatileWrites THEN durable ELSE disk'

-----------------------------------------------------------------------------
(* Initial state: a machine that has never run the monitor. *)

Init ==
    /\ boot = 0 /\ power = "off" /\ now = 0
    /\ writable = Path /\ remounts = 0
    /\ proc = "down" /\ asleep = FALSE /\ lastBeat = 0 /\ lastTop = 0
    /\ disk = [p \in Path |-> NoRecord] /\ durable = disk
    /\ begun = {} /\ cut = {} /\ cutUp = {} /\ lapsed = {}
    /\ topAt = [b \in 0..MaxBoots |-> 0]

-----------------------------------------------------------------------------
(* bootmarker.start(), heartbeat(), stop(), metrics(). *)

\* Mutant: every start judges the marker anew, whichever boot it names.
JudgeEveryStart ==
    IF read.boot = 0
    THEN [NoRecord EXCEPT !.boot = boot, !.state = "live", !.ts = now]
    ELSE [NoRecord EXCEPT !.boot = boot, !.state = "live", !.ts = now,
            !.last_shutdown = verdict_for_state(read.state),
            !.last_shutdown_ts = read.ts, !.about = read.boot]

\* Mutant: a restart within the boot refreshes the old record, state included.
RestartKeepsState ==
    IF read.boot = boot
    THEN [read EXCEPT !.ts = now]
    ELSE [NoRecord EXCEPT !.boot = boot, !.state = "live", !.ts = now,
            !.last_shutdown = IF read.boot = 0 THEN "none"
                              ELSE verdict_for_state(read.state),
            !.last_shutdown_ts = read.ts, !.about = read.boot]

\* The record start() writes: a verdict already reached in this boot is carried
\* over, a record of another boot is judged by its state, no record says nothing.
StartRecord ==
    LET fresh == [NoRecord EXCEPT !.boot = boot, !.state = "live", !.ts = now]
    IN  CASE read.boot = boot -> [fresh EXCEPT
                 !.last_shutdown = read.last_shutdown,
                 !.last_shutdown_ts = read.last_shutdown_ts,
                 !.about = read.about]
          [] read.boot \notin {0, boot} -> [fresh EXCEPT
                 !.last_shutdown = verdict_for_state(read.state),
                 !.last_shutdown_ts = read.ts,
                 !.about = read.boot]
          [] OTHER -> fresh

\* start(), called once, before the try block whose finally runs stop().
Start ==
    /\ proc = "launched"
    /\ proc' = "started" /\ lastTop' = now
    /\ IF current_boot_id = 0
       THEN UNCHANGED <<disk, durable, lastBeat>>
       ELSE Write(StartRecord) /\ lastBeat' = now
    /\ UNCHANGED <<asleep, envVars, histVars>>

\* The record on disk belongs to this boot, so start() has run in it.
OwnsMarker == current_boot_id # 0 /\ read.boot = current_boot_id

\* Mutant: heartbeats one time unit less often than HEARTBEAT_S.
BeatDueLate == now - lastBeat > HEARTBEAT_S

\* heartbeat() writes only when the last write is HEARTBEAT_S old.
BeatDue == now - lastBeat >= HEARTBEAT_S

\* The top of the loop: heartbeat().  The try block has been entered.  The sleep
\* before it may end early, when maintenance begins or ends.
LoopTop ==
    /\ proc = "started" \/ asleep
    /\ proc' = "live" /\ asleep' = FALSE /\ lastTop' = now
    /\ IF BeatDue /\ OwnsMarker
       THEN /\ Write([read EXCEPT !.state = "live", !.ts = now])
            /\ lastBeat' = IF writable = {} THEN lastBeat ELSE now
       ELSE UNCHANGED <<disk, durable, lastBeat>>
    /\ UNCHANGED <<envVars, histVars>>

\* The body of the cycle is done and the loop goes to sleep.  How long the body takes
\* is not bounded: _connect_with_retry returns only once an endpoint answers, and the
\* pings, probes and collectors have timeouts of their own.
BodyDone ==
    /\ proc = "live" /\ ~asleep
    /\ asleep' = TRUE
    /\ UNCHANGED <<proc, lastBeat, lastTop, envVars, diskVars, histVars>>

\* Mutant: stop() takes every SIGTERM for a system shutdown.
AlwaysStopping == {TRUE}

\* system_stopping() says FALSE when systemctl fails, even in a shutdown.
system_stopping == IF power = "stopping" THEN {TRUE, FALSE} ELSE {FALSE}

\* The process is gone, and its in-memory clocks with it.
Gone == proc' = "down" /\ asleep' = FALSE /\ lastBeat' = 0 /\ lastTop' = 0

\* Mutant: the process ends without stop().
StopForgotten ==
    /\ proc = "live"
    /\ Gone
    /\ UNCHANGED <<envVars, diskVars, histVars>>

\* SIGTERM or the watchdog's SystemExit inside the try block: finally, stop().
Stop ==
    /\ proc = "live"
    /\ Gone
    /\ \E stopping \in system_stopping :
         IF OwnsMarker
         THEN Write([read EXCEPT !.state = IF stopping THEN "shutdown" ELSE "stopped",
                                 !.ts = now])
         ELSE UNCHANGED diskVars
    /\ UNCHANGED <<envVars, histVars>>

\* What metrics() publishes: the verdict, if the record is this boot's.
Published == IF OwnsMarker THEN read.last_shutdown ELSE "none"

-----------------------------------------------------------------------------
(* systemd, the kernel and the machine. *)

\* systemd starts the service at boot, and again 10 s after it ends.
Launch ==
    /\ power = "on" /\ proc = "down"
    /\ proc' = "launched"
    /\ UNCHANGED <<asleep, lastBeat, lastTop, envVars, diskVars, histVars>>

\* SIGKILL, the OOM killer or MemoryMax at any point, or SIGTERM in the lines
\* before the try block: stop() does not run.
Die ==
    /\ proc # "down"
    /\ Gone
    /\ lapsed' = IF proc = "launched" THEN lapsed ELSE lapsed \cup {boot}
    /\ UNCHANGED <<envVars, diskVars, begun, cut, cutUp, topAt>>

BeginShutdown ==
    /\ power = "on"
    /\ power' = "stopping"
    /\ begun' = begun \cup {boot}
    /\ UNCHANGED <<boot, now, writable, remounts, procVars, diskVars,
                   cut, cutUp, lapsed, topAt>>

\* The shutdown stops every service, unmounts and so syncs the file systems.
FinishShutdown ==
    /\ power = "stopping" /\ proc = "down"
    /\ power' = "off"
    /\ durable' = disk
    /\ UNCHANGED <<boot, now, writable, remounts, procVars, disk,
                   begun, cut, cutUp, lapsed, topAt>>

\* A power cut, a hard reset or a kernel panic.
PowerCut ==
    /\ power # "off"
    /\ power' = "off"
    /\ cut' = cut \cup {boot}
    /\ cutUp' = IF proc \in {"started", "live"} THEN cutUp \cup {boot} ELSE cutUp
    /\ topAt' = [topAt EXCEPT ![boot] = lastTop]
    /\ disk' = durable
    /\ Gone
    /\ UNCHANGED <<boot, now, writable, remounts, durable, begun, lapsed>>

\* The kernel writes its dirty pages back.
Sync ==
    /\ power # "off" /\ durable # disk
    /\ durable' = disk
    /\ UNCHANGED <<disk, envVars, procVars, histVars>>

PowerOn ==
    /\ power = "off" /\ boot < MaxBoots
    /\ boot' = boot + 1 /\ power' = "on"
    /\ UNCHANGED <<now, writable, remounts, procVars, diskVars, histVars>>

\* A state directory appears, changes owner or goes read-only.
Remount ==
    /\ remounts < MaxRemounts
    /\ remounts' = remounts + 1
    /\ \E w \in SUBSET Path : w # writable /\ writable' = w
    /\ lapsed' = lapsed \cup {boot}
    /\ UNCHANGED <<boot, power, now, procVars, diskVars, begun, cut, cutUp, topAt>>

\* Time passes.  A sleep ends IntervalS after the top of its cycle, at once if the
\* body took longer; the lines between launch and the first cycle take no time.
Tick ==
    /\ now < MaxClock
    /\ proc \in {"down", "live"}
    /\ asleep => now - lastTop < IntervalS
    /\ now' = now + 1
    /\ UNCHANGED <<boot, power, writable, remounts, procVars, diskVars, histVars>>

Next ==
    \/ Start \/ LoopTop \/ BodyDone \/ Stop
    \/ Launch \/ Die \/ BeginShutdown \/ FinishShutdown
    \/ PowerCut \/ Sync \/ PowerOn \/ Remount \/ Tick

Spec == Init /\ [][Next]_vars

-----------------------------------------------------------------------------
(* Properties. *)

\* Every variable has its type; the marker is always a whole record (_write
\* replaces the file, so no reader sees half of one).
TypeOK ==
    /\ boot \in 0..MaxBoots /\ power \in {"off", "on", "stopping"}
    /\ proc \in {"down", "launched", "started", "live"}
    /\ asleep \in BOOLEAN /\ (asleep => proc = "live")
    /\ disk \in [Path -> Record] /\ durable \in [Path -> Record]
    /\ writable \subseteq Path /\ remounts \in Nat
    /\ now \in Nat /\ lastBeat \in Nat /\ lastTop \in Nat
    /\ begun \subseteq Nat /\ cut \subseteq Nat
    /\ cutUp \subseteq Nat /\ lapsed \subseteq Nat
    /\ topAt \in [0..MaxBoots -> Nat]

\* "clean" is never said of a boot in which no orderly shutdown had begun,
\* whatever is killed, lost or unwritable on the way.
CleanIsSound ==
    Published = "clean" => read.about \in begun

\* "unclean" is only said of a boot whose power was cut, or in which the marker
\* lost its guard: the process died without stop(), or the marker moved.
UncleanIsSound ==
    Published = "unclean" => read.about \in cut \cup lapsed

\* The verdict of a boot, and the time it is dated from, are the same after every
\* restart of the monitor, heartbeat and stop within that boot.
VerdictIsStable ==
    [][OwnsMarker /\ OwnsMarker' /\ boot' = boot
         => /\ read'.last_shutdown = read.last_shutdown
            /\ read'.last_shutdown_ts = read.last_shutdown_ts]_vars

\* A power cut under a running monitor is reported as unclean by the boot that
\* judges it, however often the monitor was restarted before the cut.
CutIsReported ==
    OwnsMarker /\ read.about \in cutUp => Published = "unclean"

\* A power cut is dated to within HEARTBEAT_S of the top of the cycle it interrupts,
\* however long that cycle's body has been at work and however often the monitor was
\* restarted before: no cycle begins HEARTBEAT_S after the time that is reported.
OutageIsDated ==
    OwnsMarker /\ read.about \in cutUp
      => /\ read.last_shutdown_ts <= topAt[read.about]
         /\ topAt[read.about] - read.last_shutdown_ts < HEARTBEAT_S

-----------------------------------------------------------------------------
(* What the host record promises. *)

\* Writes reach one place and stay there.
FirmDisk == ~VolatileWrites /\ MaxRemounts = 0

\* The verdict a record carries.
VerdictIn(r) == [of |-> r.about, says |-> r.last_shutdown, ts |-> r.last_shutdown_ts]

\* What this boot will say of the last one: what start() writes in it, or would.
Settled == IF power = "off" THEN VerdictIn(NoRecord) ELSE VerdictIn(StartRecord)

\* What it says: the record's verdict, once the record is this boot's.
Shown == IF power # "off" /\ OwnsMarker THEN VerdictIn(read) ELSE VerdictIn(NoRecord)

Promise == INSTANCE BootVerdict WITH
    Firm     <- FirmDisk /\ BootIdReadable,
    up       <- power # "off",
    orderly  <- begun,
    troubled <- cut \cup lapsed,
    settled  <- Settled,
    shown    <- Shown

\* The marker, over its two paths, restarts, kills, lost writes and remounts,
\* implements the promise: no step of it changes or withdraws a verdict within a
\* boot, or settles one that is not true, and no cut under a running monitor on a
\* firm disk is missed by the next boot.
VerdictIsAsPromised == Promise!Spec

-----------------------------------------------------------------------------
(* The inductive invariant behind the two soundness properties. *)

\* What a record says, on whichever path and medium, is backed by what happened.
HonestRecord(r) ==
    /\ r.boot <= boot
    /\ r.state = "shutdown" => r.boot \in begun
    /\ r.last_shutdown = "clean" => r.about \in begun
    /\ r.last_shutdown = "unclean" => r.about \in cut \cup lapsed

HonestFiles(files) == \A p \in Path : HonestRecord(files[p])

\* A record left live by a boot that is over: cut, or the guard lapsed.
LiveIsOver(files) ==
    LET r == ReadFrom(files)
    IN  r.state = "live" /\ r.boot # 0 /\ (r.boot # boot \/ power = "off")
          => r.boot \in cut \cup lapsed

\* While the guard holds, the record of this boot is live only under a process
\* that will run stop(), and the path it is read from is the one stop() writes.
GuardHolds ==
    power # "off" /\ read.boot = boot /\ boot \notin lapsed
      => /\ read.state = "live" => proc \in {"started", "live"}
         /\ IF disk["system"].boot # 0 THEN "system" \in writable
                                       ELSE "user" \in writable

Powered ==
    /\ proc # "down" => power # "off"
    /\ power # "off" => boot # 0
    /\ power = "stopping" => boot \in begun
    /\ ~BootIdReadable => \A p \in Path : disk[p].boot = 0 /\ durable[p].boot = 0

MarkerInv ==
    /\ TypeOK /\ Powered
    /\ HonestFiles(disk) /\ HonestFiles(durable)
    /\ LiveIsOver(disk) /\ LiveIsOver(durable)
    /\ GuardHolds

-----------------------------------------------------------------------------
(* The inductive invariants behind VerdictIsStable, CutIsReported and          *)
(* OutageIsDated.                                                              *)

\* Each record of this boot, on whichever path and medium, says what the next start()
\* would write: the verdict is the same wherever it is read from.
SaysTheSame(r) ==
    r.boot = boot => /\ r.last_shutdown = StartRecord.last_shutdown
                     /\ r.last_shutdown_ts = StartRecord.last_shutdown_ts
                     /\ r.about = StartRecord.about

OneVerdict ==
    power # "off" => \A p \in Path : SaysTheSame(disk[p]) /\ SaysTheSame(durable[p])

\* The one marker is live as long as its process runs, and is left live in a boot
\* that was cut; what was judged from such a record is unclean.
LeftLive ==
    /\ writable = Path /\ durable = disk /\ disk["user"].boot = 0
    /\ cutUp \subseteq 1..boot /\ (power # "off" => boot \notin cutUp)
    /\ BootIdReadable /\ boot \in cutUp => read.boot = boot
    /\ BootIdReadable /\ proc \in {"started", "live"}
         => read.boot = boot /\ read.state = "live"
    /\ read.boot \in cutUp => read.state = "live"
    /\ read.boot # 0 => /\ read.about < read.boot
                        /\ read.about \in cutUp => read.last_shutdown = "unclean"

\* The record of a running monitor is less than a heartbeat older than the top of its
\* cycle, and so is the one it leaves at a cut, and what is judged from that.
IsFresh(ts, top) == ts <= top /\ top - ts < HEARTBEAT_S

LeftFresh ==
    /\ BootIdReadable /\ proc \in {"started", "live"}
         => read.ts = lastBeat /\ IsFresh(lastBeat, lastTop) /\ lastTop <= now
    /\ read.boot \in cutUp => IsFresh(read.ts, topAt[read.boot])
    /\ read.boot # 0 /\ read.about \in cutUp
         => IsFresh(read.last_shutdown_ts, topAt[read.about])

=============================================================================
