# A verification of cc-rms-mqtt-monitor

TLA+ modules, TLC configurations and TLAPS proofs about the CC RMS MQTT monitor: an
agent that runs beside RMS meteor cameras, publishes the health of each station to an
MQTT broker every minute, and updates itself from git. Paths below are relative to the
repository (`src/`), Python files to `src/cc_mqtt_monitor/`; line numbers are those of the
commit the models were written from.

Contents: [1 The system](#1-the-system) · [2 The modules](#2-the-modules) ·
[3 The runs](#3-the-runs) · [4 Fairness](#4-fairness) · [5 The proofs](#5-the-proofs) ·
[6 Where code and documentation part](#6-where-code-and-documentation-part) ·
[7 What is not modelled](#7-what-is-not-modelled) · [8 Plan](#8-plan) ·
[9 How to run it](#9-how-to-run-it)

## 1. The system

One process per host, `python -m cc_mqtt_monitor`, under systemd with `Restart=always`.
It has a main thread (the loop) and paho's network thread. A second unit, driven by a
timer, runs `scripts/autoupdate.sh`.

| component | source | state it keeps | operations | talks to |
|---|---|---|---|---|
| publish loop | `monitor.py` 322-509 | `connected`, `cleared`, the position in the cycle, the clock of the watchdog | discover, connect, publish, wipe, go silent, sleep, stop | publisher, discovery, boot marker |
| publisher | `publisher.py` | paho client, queue of QoS 1 messages, the endpoint that won, `_last_publish_ok` | connect, announce, publish, tombstone, flush, disconnect, clear a renamed host | broker; paho calls `_on_connect`, `_on_disconnect`, `_on_publish` in its own thread |
| host identity, configuration | `config.py` | `host_uid`, a suffix and the last host name on disk, fields pinned by a reload | load, hot reload | file system |
| station discovery | `discovery.py` | none; reads each station's `.config` again every time | discover, parse | file system |
| camera standby | `monitor.py` 22-43, 120-168 | `_UNREACHABLE`, `_STANDBY` | visit a station, recheck by ping | ping |
| adaptive diagnosis | `diagnose.py` | `_ESCALATE` | decide on a heavy probe, note it | ffprobe, ping |
| capture process scan | `collect.py` 29-253 | none | list `/proc`, find instances and ages | processes of RMS |
| output collectors | `collect.py`, `rmsmode.py` | none | newest session, FF file and frame, what is expected now | RMS's directories, the sun |
| log collectors | `collect.py` 586-1304 | none | tail, window, fatal errors, drops, processing runs | RMS's logs, the journal |
| health evaluation | `health.py` | none | `output_stalled`, `classify_drops`, `evaluate`, `evaluate_host` | |
| OS metrics | `oslevel.py` | the counters of the previous cycle | OOM kills, disk errors, rates | kernel log, `/proc`, `/sys` |
| boot marker | `bootmarker.py` | a JSON record on disk at one of two paths | start, heartbeat, stop, metrics | file system, kernel boot id, systemctl |
| auto update | `scripts/autoupdate.sh` | the checkout, `update_blocked`, the installed copy of itself, its unit | fetch, merge, rescue, install, restart | git, pip, systemd |
| maintenance windows | `maintenance.py` | none | detect | process list |

Shared state: the loop and paho's thread share the message queue and the connection; the
loop and the operator share the `.config` files; the updater, the operator and the service
share the checkout; one boot and the next share the marker; one start and the next share
the last host name; the broker keeps retained records and a Last Will while the process
comes and goes; the monitor reads RMS's processes, files and logs while RMS changes them.

What is hard here, and what therefore should be right:

* **Consent.** `.config` is read three times per cycle while the operator edits it. A
  station that refuses must not be named in any payload, and one that withdraws must be
  erased, over lost wires, resends and crashes.
* **Retained data outlives us.** Tombstones, the Last Will and the "online" of a
  reconnection are ordered only by the queue of the client and the sessions of the broker,
  and a renamed host must take its old name with it.
* **The end of a process, and of a connection.** Stop, crash and power cut must leave the
  status topic and the boot marker saying something true; a session that stands and
  delivers nothing must be noticed.
* **The verdict on the previous boot** is drawn from one file, written without fsync, in
  one of two directories, by a process that may be killed at any time.
* **Standby** suppresses the very metrics that led to it. It must not feed on itself.
* **A record is put together from readings of different moments.** Processes fork and end
  during the scan, output is judged by ages across restarts, sunrise and sunset, and a
  metric that could not be read must neither hide a failure nor invent one.
* **Logs are evidence with holes**: lines without a time, a tail that cuts, a crash in the
  middle of an episode, drops whose cause precedes and whose effect follows them.
* **The kernel log outlives what it tells of**: a kill whose victim was replaced, a disk
  that has another name since, a counter that starts anew.
* **The updater** destroys work if a command before `reset --hard` fails or does not see
  it, and decides by comparing HEAD with itself.

The full list, each at its line, with the properties that watch it, is `hazards` in
`PROJECT.json`.

## 2. The modules

Every action stands for one handler or one stretch of code between two points where
another actor can interfere; its comment names the code. Operators whose comment begins
with *Mutant:* are plausible bugs and are used by no specification: substituting one for
the definition it follows must make a run fail.

| module | stands for | uses | proofs |
|---|---|---|---|
| `PublishLoop` (`MCPublishLoop`) | consent, delivery, the ends of the process | | `PublishLoopProofs` |
| `HostSession` | the name, the endpoints, the watchdog | | `HostSessionProofs` |
| `BootVerdict` | what the host record promises about the last boot (abstract) | | |
| `BootMarker` | the boot marker; implements `BootVerdict` | `INSTANCE BootVerdict` | `BootMarkerProofs` |
| `CameraOutage` | what records promise about a camera that is gone (abstract) | | |
| `StationCycle` | standby and probes; implements `CameraOutage` | `INSTANCE CameraOutage` | `StationCycleProofs` |
| `Health` | `evaluate`, `output_stalled` as operators on metrics | | |
| `ProcessScan` | RMS's processes and the scan of `/proc` | | |
| `StationRecord` (`MCStationRecord`) | one station's record from its processes and output | `EXTENDS ProcessScan`, `INSTANCE Health` | `StationRecordProofs` |
| `StationLog` | what is concluded from the log | | `StationLogProofs` |
| `HostRecord` (`MCHostRecord`) | the host's record from the kernel log and counters | | `HostRecordProofs` |
| `AutoUpdate` | the updater | | `AutoUpdateProofs` |

The modules `MC...` add the symmetry for TLC.

### BootVerdict, BootMarker

`BootVerdict` says what a reader of `last_shutdown` may rely on (`docs/bridge_contract.md`):
a verdict is settled when the machine comes up, is true of the boot it is about, is shown
from some moment on and then neither changed nor withdrawn until the boot ends. With a firm
marker, a boot cut under a running monitor is what the very next boot speaks of. It knows
no files, paths, heartbeats or processes.

`BootMarker` is `bootmarker.py` within the life of its process. `disk` is what the file system shows at
the two candidate paths (`config.py` 31-42), `durable` what the medium holds: `Write`
updates both, or only the first when writes are volatile, and `Sync` catches up. `Start`,
`LoopTop` (heartbeat) and `Stop` are the three writers; `Published` is `metrics()`. The
environment kills the process (`Die`), cuts the power (which brings `durable` back), shuts
down in order, and makes a directory unwritable (`Remount`). The loop beats at the top of a
cycle (`lastTop`), is at work for any length of time, as nothing bounds the body of a cycle
(`_connect_with_retry` returns only once an endpoint answers), and sleeps (`BodyDone`) until
`IntervalS` after that top, or at once if that has passed. The lines between launch and the
first cycle take no time. A record's field `about`, the boot its verdict was reached from,
and `topAt`, the top of the cycle a cut interrupted, are history; the code does not store
them.

The refinement is `Promise`: what is settled is what `start()` writes in this boot, or
would write if it ran now (`Settled`); what is shown is the record's verdict once the
record is this boot's (`Shown`); the marker is firm when writes are not volatile, the
directories do not change (`FirmDisk`) and the boot id can be read.
`VerdictIsAsPromised` is the abstract specification.

Boot ids are numbers, 0 where there is none. Left out: `heartbeat(force=True)`, which
nothing calls.

### PublishLoop

`run_loop`, `run_once`, `gather_host`, `gather`, `Publisher` and the consent part of
`discovery.py`. `pc` walks through the cycle: `top` (first reading), `connect`, `host`
(second reading), `gather` (third), `publish`, `clear`, `watchdog`, `sleep`; or `silent`,
`silence`, `sleep`; or `stopping`, `disconnect`, `off`. Each `for` loop visits its stations
in any order, `batch` holding those left.

A payload is the set of names it discloses, `{}` the empty payload that deletes a retained
record; `PayloadOf` says what each topic may carry. `unseen` and `fleeting` are history: the
stations that are publishable again and have not been seen so by a whole cycle, and those
that opted out again before they were. `out` is paho's queue of unacknowledged messages and `taken` how many of them the
broker already has: `BrokerTakes` and `PubAck` are the two halves of a delivery, and a
reconnection sends everything unacknowledged again, behind the new "online". `link` is
`half` when the wire is dead and the client does not know yet: then `_publish` still
accepts messages. `session` is the broker's side, with the Last Will.

Approximations: `Flushed` (waiting for acknowledgements) succeeds at once when the link is
not up, since `flush()` gives up after a timeout; `Drop` followed by `Heal` also stands for
a broker that stalls longer than that. An exception in the cycle (`CycleError`) can come
between any two of its steps. A signal between the CONNACK and `connected = True`, or a
second one inside `finally`, has the effect of `Crash`. A station's directory is taken to
be named after its ID, so that an unparsable file keeps the ID.

### HostSession

The other side of the publisher: the connection as a whole, for a host that goes on
publishing. `own` is what the configuration makes `host_uid` at this moment, `uid` what
the process holds, `statusUid` what its topic and client id were built from. `Start` and
`Reload` read the configuration (`Loaded` is `_instance_suffix`: without a MAC and a
directory to write, every load draws another suffix). `Connect` is `connect()`: endpoints
in order, or only the one that won before; an endpoint that takes the TCP connection
counts, with or without a CONNACK. It also is `clear_renamed_host()`: tombstones for the
previous name are queued and the new one is recorded, in the order and with the failures
of the two state directories. `RunOnce`, `WatchdogExits`, `WatchdogPasses` and `GoSilent`
are the loop; `Deliver` and `Reconnect` are paho; `NetChange`, `Wedge`, `Rename` and `Die`
are the world. `age` is the time since `_last_publish_ok`, kept up to one beyond the
limit. `excused` is history: the names nothing will clear any more, each with its reason.

Approximations: all that is queued is delivered at once (`PublishLoop` has the details);
an exit of the process leaves "offline" or the Last Will under the name of its topic.

### CameraOutage, StationCycle

`CameraOutage` says what a reader of the records may rely on (`docs/bridge_contract.md`,
`camera_standby`): a record collapses only after the station has been stalled and silent
for the whole grace period, and stays so until it is seen well. It knows no pings, clocks
or cycles.

`StationCycle` is `gather`'s visit of each station. `Visit` takes the fast path when the
station is in standby (`Recheck`), and otherwise `Collect` (with `ShouldEscalate`), perhaps
`Probe`, and `Judge`; `Track` is `_track_unreachable`. The condition of each station (what
a ping would find, whether output flows, how it drops frames, whether it consents) belongs
to the world and changes at any time, so that a visit may read two different moments.
Times are kept as ages and remainders, saturated where the code no longer distinguishes
them, so that time is unbounded: `unreachable` holds the age of each clock at the last
reading of `time.monotonic()` (one per cycle, line 95), `escalate[s].wait` what is left
until `next_t`. `calm`, `probes` and `gap` are history. `output` stands for
`output_stalled` (see `StationRecord`), `drops` for the threshold and `classify`.
`enable_adaptive_probe` is taken to be on.

The refinement is `Outage == INSTANCE CameraOutage WITH view <- ..., silence <- calm`: a
view is collapsed when the station is in standby, and silence is the history variable.
`OutageIsAsPromised` is the abstract specification.

### Health, ProcessScan, StationRecord

`Health` translates `health.py` 134-169 and 312-543: a metric that was not read is `None`;
each check that only compares one metric with its threshold is an entry of
`PlainProblems`, whose outcome is an input, and the checks that combine metrics are
written out (`ResolveExpected`, `Settling`, `OutputStalled`, `CaptureStalled`,
`DetectionStalled`) with the early returns that leave out what follows from a root cause.

`ProcessScan` has the processes of one station: main processes that a supervisor starts
without looking whether one runs, their workers (same command line) and helpers, and
orphans. `BeginScan` is `os.listdir`; a process is read at that moment or later (`late`),
and its configuration may be unreadable (`blind`). `Roots` is the choice of instances, and
`EndsUnread` the case in which the oldest ends before its age is read for the record.

`StationRecord` joins the two: RMS opens session directories, writes FF files by night and
frames by day, ends and is restarted (`Start`, `Spawn`, `End`, `Produce`, `Switch`,
`Tick`), and a cycle reads it in two steps and judges (`BeginCycle`, `EndScan`, `Judge`).
The world moves freely between cycles and may take one step within a cycle. `Metrics` is
`collect_station`. History: `quiet`, how long output has been due and missing, and
`cloned`, whether a second instance has run in this session, when the newest directory
need not be the one in use. Whether anything was detected is an input.

### StationLog

One log, a sequence of lines known by the pattern they match: the line that opens a
traceback, its body (which carries no time stamp), pipelines built, decoder complaints,
periodic buffer lines with fill and dropped frames, begin and end of processing. RMS
writes it (`OpenLog`, `Raise`, `Report`, ...) and dies at any point (`Crash`). `Read` is
`collect_logs` (`Scanned` the tail, `Carried` the time a line has or inherits, `InWindow`,
`LeadUp` the fill before the last drop, both by positions of lines),
`collect_capture_events` (`InProcessing`: the last line that begins a run has none after it
that ends one; the code's pass over the log comes to that), the end of `collect_station`, and `classify_drops` (`DropCause`).
Evidence from outside the log, and what the journal says, are inputs. `lagging` on a
line is history: whether the consumer really was behind.

`collect_logs` finds the last drop by the session counter increasing from one buffer line
to the next. RMS resets that counter at each transition (`collect.py` 648), so a drop whose
count does not exceed the last one before the transition is not found, and an older one is
judged instead. `BackpressureIsEarned` therefore speaks of the drop that is found
(`DropInReach`): the fill that earns the verdict was just before that one.

### HostRecord

`collect_host` and `evaluate_host` for the three checks that compare a reading with
another one: the growth of NIC counters per minute, rounded to one decimal (`NicRate`,
`RoundedAway`, `Sample`; `PerTick` is the fewest errors per tick whose rate is not rounded
to zero), OOM kills against the ages
of captures and of the boot (`OomLevel`), and disk errors by name against the mounts in
effect (`RelevantDisks`, `OurErrors`). A cycle is one step, time is counted in ticks of
hours. The world starts and ends captures, kills a worker, fails and renames disks, drops
the data disk, resets interfaces, moves cameras to another interface and reboots; the
kernel log is the journal's or the files', which a boot does not end. `nicPast` is
history: the interfaces and the time of the last sample, and the errors since.

### AutoUpdate

Every command of `scripts/autoupdate.sh` as a step, with its failure where the script
handles or ignores one: `set -e` and `pipefail` end the run, `|| true` does not. A
version is a number; `touches` and `rewrites` say which works its files collide with and
whether it rewrites history. `place` says where git has each of the operator's works:
untracked, unstaged, staged, committed, on a rescue branch, in the stash, or gone. The
`EXIT` trap is the steps `sync` and `migrate`, which `Kill` skips; a killed git may leave
`index.lock`. The operator works in the checkout, the origin moves and the monitor
restarts at any point of the run.

Taken for granted: all versions of the script behave like this one; the unit is writable;
writing or removing the marker file succeeds.

## 3. The runs

Between them the passing runs take every action of every next-state relation.
`CHECK_DEADLOCK` is off where the bounds, or the machine being off for good, end a
behaviour (`boot_marker`, `boot_marker_cut`, `station_world`).

| run | what it asks | bounds |
|---|---|---|
| `boot_marker` | types; "clean" and "unclean" are backed by what happened; the verdict is stable within a boot | 3 boots, clock 0..1, one change of writability, volatile writes |
| `boot_marker_cut` | the marker implements `BootVerdict`, so every cut under a running monitor is reported by the next boot; it is dated to within a heartbeat of the top of the cycle it interrupts | 3 boots, clock 0..4, heartbeat 2, cycles of any length, durable writes |
| `publish_faults` | types; consent; erasure; what a quiet cycle, a silent host and a stop leave behind | 2 stations, 2 edits, one drop, one stop, one exception, backlog 1 |
| `publish_live` | consent for good is published for good, refusal for good is erased for good | 2 stations, one of which consents at first, 2 edits, any two of a drop, a crash and an exception |
| `station_world` | types; the cycle implements `CameraOutage`; probes back off and never cease; standby ends, and begins | 1 station from any condition, 3 changes, 2 faults, grace 2, probes 1 to 3 |
| `station_record` | types; stalls and duplicates are real; dead output is pinged | 3 processes, ages to 2, graces 2, symmetric processes |
| `station_log` | types; errors are recent; back-pressure is earned; processing is exact | 4 lines of which 3 are read, ages to 3, windows 1 |
| `host_record` | types; NIC errors are reported exactly, but for rates that round to zero; kills and disk errors are kept | 2 stations, 2 interfaces, 3 disks, 2 moments, 1 error each, 2 names in the log, 2 errors per tick not to round to zero |
| `host_session` | types; no old name is left; a wedged session ends; the link returns | 2 names, 2 endpoints, watchdog limit 1 |
| `autoupdate` | types; the rescue; the checkout and the copy follow or say why not; the monitor follows | 2 works, one push, 3 operator steps, 1 fault |
| `publish_reconsent`, `autoupdate_staged` | violations, section 6 | as small as shows them |

Why these bounds are enough to be of use.

* *Boots:* a record is judged by the next boot that starts the monitor and at worst
  shadows one from the boot before that, so three boots hold every relation between
  writer, judged and judge.
* *Stations:* the loop treats stations alike and couples them only through the host
  record, the count of consenting ones and the abort of a cycle; two give "one consents,
  one does not". With `InitiallyOn` and `Placeholder` empty nothing singles a station out,
  and `publish_faults` uses that symmetry (safety only). The placeholder ID is covered by
  the proofs, which leave `Placeholder` arbitrary. For standby one station is enough, as
  stations are independent but for an aborted cycle; it starts in all 36 conditions, and
  three changes bring it into standby, out and back. `ProbeMax = 3` is not a multiple of
  the doubled interval, as 3600 s is not of 600 s.
* *Edits and backlog:* two edits are needed to consent and withdraw; together with an
  unreadable file they cross all three readings of a cycle. In `publish_live` the station
  that does not consent at first can be wiped, come back and go again, so that the re-arming
  of `cleared` is exercised; the one that does keeps the host connected meanwhile.
  `MaxFaults = 2` there leaves out only the runs that have all three faults. `MaxBacklog`
  only stops a new cycle from starting on a long queue; within a cycle the queue grows to
  what the cycle publishes.
* *Processes:* three process ids hold an instance with a worker beside a second instance,
  an orphaned worker beside a new instance, and a process id that is used again. Graces
  and thresholds are equal (2), as `capture_restart_grace_s` and `output_fresh_error_s`
  are by default (300 s); ages saturate one step above what a check compares.
* *Log:* four lines of which three are read hold a traceback cut at its first line, and a
  connection, a buffer line, and the line that shows the drop, in any order. `Old` is
  above both windows together.
* *Host:* two moments are enough to tell "at the same time" from "before", which is all
  the comparison of ages does; `OomRecent = 0` gives both levels. One error per
  interface, with resets and interfaces that are exchanged, gives a counter that grows,
  falls and stays under an unchanged sum. Two names in the log (`MaxLines`) put a line of
  an earlier boot, of a disk that is not ours or without a name beside one of ours. With `PerTick = 2` one error within the moment of
  the last sample counts, two a moment later count, and one a moment later is rounded away.
* *Session:* two names give every rename and every rename back; two endpoints the one
  that won and the one that did not.
* *Updater:* two works suffice for a staged one to be taken along by, or missed without,
  an unstaged one; three operator steps commit one work or opt out around one.

The properties, by what they would catch:

* `CleanIsSound`, `UncleanIsSound`, `VerdictIsStable`, `OutageIsDated` relate a verdict to
  the history of an earlier boot. `OutageIsDated` says that no cycle began a heartbeat or
  more after the time that is reported; how long the last cycle had been at work when the
  power went, nobody records (section 6).
* `VerdictIsAsPromised`: the same seen from the host record, step by step; that a verdict
  once shown is not withdrawn; and that no cut goes unreported, which `CutIsReported` says
  as an invariant of its own.
* `NeverOpenNeverNamed`: no payload on the broker *or in flight* names a station that
  never looked publishable.
* `ClearedIsErased`: `cleared` is a belief about the broker. It is true, or the tombstone
  is the last word in flight, whatever is resent.
* `QuietCyclePublishes`: a cycle nothing disturbs settles all three kinds of topic.
* `EndIsComplete`: what is left on the broker by going silent, and by stopping. It
  assumes that the wire has held; section 6 says what happens otherwise.
* `ConsentIsPublished`, `OptOutIsErased`: the liveness of consent, through any two of a
  lost wire, a crash and a failed cycle. The latter excepts only a station that came back for less than a
  whole cycle (`fleeting`), for which `cleared` is not re-armed: `QuietCycleErases`.
* `NoOrphan`: a name the host has had is gone from the broker, or is one of those the
  model has counted as lost: for each it says where (`excused`).
* `WedgeEnds`, `LinkReturns`: the watchdog does its work although nothing but time tells
  it; and no choice of endpoint, silent spell or mute endpoint keeps a host away for ever.
* `OutageIsAsPromised`, `AnswerEndsStandby`, `DeadCameraStandsBy`: standby is entered for
  a reason, left when it is over, and entered when it must be.
* `ProbesBackOff`, `DropsAreProbed`: the documented spacing, and that probes never cease.
* `StalledIsReal`, `DeadOutputIsPinged`: the two directions of the stall verdict, over
  restarts, sunrise and sunset, unreadable directories and output that never came.
* `DuplicateIsReal`: the scan counts trees of processes, whatever changes under it.
* `FatalIsRecent`, `BackpressureIsEarned`, `ProcessingIsExact`: what may be concluded from
  a log with holes.
* `NicAlertIsExact`, `OomIsKept`, `DiskErrorIsFlagged`: an alert neither repeated, nor
  dropped because the counter, the clock or the name of the disk has changed. The first
  speaks of samples of the same interfaces with no reset between, as a reset gives no rate.
* `RescueKeeps`: what a run may never do to committed work and to unstaged edits. What it
  does to staged ones is `NothingIsDestroyed`, section 6.
* The type invariants also say what a wrong turn would leave behind: `PublishLoop`, that no
  topic carries another's payload; `StationRecord`, that a record with a root cause (capture
  down, data unreadable) names nothing that follows from it; `AutoUpdate`, the order of
  versions.
* `CheckoutFollows`, `StuckIsReported`, `UpdateTakesEffectUnlessBroken`: the updater gets
  there, and says so when it cannot.

## 4. Fairness

Safety runs use the plain specification, but for `host_session`, `station_world` and
`autoupdate`, which check liveness too. The liveness properties assume:

* `PublishLoop`: the loop takes its steps (every wait in it has a timeout, except
  `_connect_with_retry`, which ends once the broker answers), systemd restarts the process,
  keepalives expire or the wire heals, the broker takes and acknowledges what reaches it,
  paho reconnects, and an editor finishes saving. Nothing is assumed of operators, drops,
  crashes, stops and exceptions, which are finitely many by their bounds.
* `HostSession`: systemd starts the process again, `_connect_with_retry` and the loop go
  on, paho retries, time passes. Nothing is assumed of the network, renames, stops and
  deaths, which may happen for ever; and nothing of deliveries.
* `StationCycle`: the loop goes on (collectors, ping and ffprobe have timeouts, and an
  exception only ends the cycle) and time passes.
* `AutoUpdate`: the timer starts the script and its commands end. Nobody is made to remove
  `index.lock`, or to restart the monitor.

All of it is weak fairness.

## 5. The proofs

TLAPS checks these for every value of the constants: any number of stations, boots,
names, endpoints, processes, lines, versions and works, any bound on faults. Assumptions
on constants are the named `ASSUME` of each module (types and finiteness of the
parameters, `Grace > 0`, `0 < ProbeMin <= ProbeMax`, topic names distinct from station
names, `Old > LogWindow + SpikeWindow`).

| module | theorem | property |
|---|---|---|
| `BootMarkerProofs` | `TypeCorrect`, `CleanVerdictsAreSound`, `UncleanVerdictsAreSound` | `TypeOK`, `CleanIsSound`, `UncleanIsSound` |
| | `VerdictPromiseKept` | `VerdictIsAsPromised` |
| | `OneVerdictPerBoot`, `CutsAreReported`, `OutagesAreDated` | `VerdictIsStable`, `CutIsReported`, `OutageIsDated` |
| `PublishLoopProofs` | `TypeCorrect`, `NeverNamed`, `Erased` | `TypeOK`, `NeverOpenNeverNamed`, `ClearedIsErased` |
| | `QuietCyclesPublish`, `EndsAreComplete` | `QuietCyclePublishes`, `EndIsComplete` |
| | `NoContact` | a host without a publishable station is unknown to the broker |
| `HostSessionProofs` | `TypeCorrect`, `NoOrphanIsLeft` | `TypeOK`, `NoOrphan` |
| `StationCycleProofs` | `TypeCorrect`, `OutagePromiseKept` | `TypeOK`, `OutageIsAsPromised` |
| | `ProbesAreSpaced` | `ProbesBackOff` |
| | `StandbyEarned` | standby follows a whole grace period without being seen well |
| `StationRecordProofs` | `TypeCorrect`, `DuplicatesAreReal` | `TypeOK`, `DuplicateIsReal` |
| | `StallsAreReal`, `DeadOutputsArePinged` | `StalledIsReal`, `DeadOutputIsPinged` |
| `StationLogProofs` | `TypeCorrect`, `ErrorsAreRecent` | `TypeOK`, `FatalIsRecent` |
| | `BackpressureIsNoSpike`, `ProcessingIsReported` | `BackpressureIsEarned`, `ProcessingIsExact` |
| `HostRecordProofs` | `TypeCorrect`, `NicErrorsAreExact` | `TypeOK`, `NicAlertIsExact` |
| | `OomStaysReported`, `DiskFailureIsReported` | `OomIsKept`, `DiskErrorIsFlagged` |
| `AutoUpdateProofs` | `TypeCorrect`, `RescueIsComplete` | `TypeOK`, `RescueKeeps` |

*BootMarker.* Soundness of the published verdict is not inductive: the verdict may come
from a record written boots ago, on the other path, or one the medium had kept. `MarkerInv`
adds that every record on either path, visible or durable, is honest (`HonestFiles`); that
a record left `live` by a boot that is over belongs to a cut or lapsed boot (`LiveIsOver`);
and that while the guard holds, a live record of this boot has a process behind it that
will run `stop()` and write where it is read (`GuardHolds`). That a verdict does not change
needs more: `OneVerdict` says that every record of this boot, on either path and medium,
says what the next start would publish, so that it does not matter which of them a restart
finds. `CutsAreReported` and `OutagesAreDated` hold only where writes reach one place and
stay there (`FirmDisk`). Then there is one marker, it is left live in every boot that was cut
(`LeftLive`), and while the monitor runs it is never younger than the top of the present
cycle, and older by less than a heartbeat (`IsFresh`, `LeftFresh`): a cycle at whose top no
beat was due had one that recent, however long its body then takes.

`VerdictPromiseKept` is the refinement. While the machine is up, `OneVerdict` keeps what is
settled and a record of this boot one of this boot, so the only thing that may happen to
what is shown is `Show` (`UpKeepsVerdict`). What `PowerOn` settles comes from the record
that is read then: honest by `HonestFiles`, over by `LiveIsOver`, and with a firm marker
the live record of the boot that was cut by `LeftLive` (`PowerOnSettles`).
`boot_marker_cut` checks it where writes are firm; where they are volatile it rests on the
proof, and `boot_marker` checks its parts.

*PublishLoop.* `LoopInv` joins the consent properties with `OpenOnly` (what the loop is
about to name has looked publishable), `Contact` (a client only while connected, and
contact only after some station looked publishable) and `Delivered` (what the broker has
taken is what it retains, unless it took something newer on that topic). `Delivered` is
what makes a resend harmless for `ClearedIsErased`: when the count of taken messages falls
back to zero, the broker's records are still what the queue will say. Two further
invariants build on it. `QuietInv` follows a quiet cycle: consent stays what the loop read
at its top (`SameConsent`), the host record and each station's are on their way once the
loop has passed them, and until a process ends nothing but "online" is said on the status
topic, so that a Last Will is always followed by one (`OnlyOnline`, `ShownOnline`).
`EndInv` follows the two ways to disconnect while the wire holds: the last words are the
last in the queue when its flush begins (`LastWords`), and no Last Will of an earlier
session can come after them, because a connected loop has the session (`Wired`). What the
broker shows once everything is acknowledged is then what was said last (`FlushedTo`).

*HostSession.* `NameInv` accounts for every retained name at every moment. Without a
client it is the name on disk, which the next connection will clear, or excused; with one
it is a name of this process, or its tombstone is in the queue, or it is excused, and the
name of this process is on disk for the next one. So when the queue is empty `NoOrphan` is
all that is left.

*StationCycle.* `ClockInv`: no clock is older than the time since the station was last
seen well, and a station on the full path is not in standby. The second half is needed
because `Judge` adds to `_STANDBY` and never takes out. `OutagePromiseKept` is the
refinement: the initial states of the cycle are those of `CameraOutage`, and each of its
steps is an abstract one or changes neither view nor silence; `Collapse` is where
`ClockInv` is used. `BackOffInv` ties the back-off to the history of probes: the interval
is the one documented for their number, and what is left of it and the time since the last
probe make up at least that interval. Doubling and saturating at `ProbeMax` needs two facts
about powers of two, which the library lacks: `PowersDouble` counts subsets, `PowersGrow`
takes a smallest counterexample.

*StationRecord.* `ScanInv`: as long as nothing has stirred since the cycle began, what was
listed is what there is, so every root that is counted is the root of a tree. That a
configuration cannot be read only takes roots away; it is the mutant `RootsByConfig`, where
it makes roots, that the lemma `InstancesAreTrees` excludes. The two directions of the
stall verdict rest on `StallInv`. One half bounds the silence from below: something the
collectors look at (the last switch, the session by night, the frames by day, or the whole
capture) is as young as `quiet` (`Young`); the other from above: nothing they look at is
younger (`NothingIsYounger`). Both need that a capture is alone, all marked processes are
its own and the newest session is written by it (`OneCapture`), and that the scan finds
just that capture and its age, whatever one process does meanwhile (`ListIsTrue`,
`FoundIsTrue`). That a root cause stands alone (`TypeCorrect`) follows from the early
returns of `Problems` (`RootCauses`). The two stall theorems assume `Timely`: coordinates are known, and the graces after
a restart and after a switch last at least `output_fresh_error_s`. The defaults (300 s each,
plus `capture_wait_seconds`) just meet it; a larger `output_fresh_error_s` does not.

*StationLog.* `LogInv`: the body of a traceback follows the line that opens it, in every
log and therefore in its tail, unless the tail begins with it. So the line an error takes
its time from is a line of its own traceback (`ErrorsAreDated`). `SpikeInv`: lines are in
the order of their ages, and a buffer line shows a high fill only because the consumer lags
or because a pipeline was built in the same moment (`Explained`). If no line of the window
tells of a pipeline, then none was built since `SpikeWindow` before a drop that is in
reach, so the fill before it is a lag (`SpikesAreDistrusted`). `RunInv`: once a capture has
opened its log, that log is in a processing run exactly when RMS is; before, no run is on.

*HostRecord.* `AlarmInv`: while a capture counts as damaged, the kill is not older than the
boot, so that neither of the two ages excuses it (`KillIsFlagged`); and each disk that has
failed in this boot has left a line without a name, or under the name it has now, because
only a boot renames disks. For the NIC counters, `TotalCounts` shows that the sum
`read_nic_stats` takes over the interfaces is the number of all their errors, a recursive
fold being computed by taking a smallest set on which it would not be; `NicInv` then says
that the errors of the interfaces of the last sample are that sample and those counted since
(`Since`), and that the code dates the sample as the history does, so that growth and time,
and with them the rounding, are exact.

*AutoUpdate.* `RescueInv`: between the branch and the reset every commit is on the rescue
branch, and at the reset no tracked file differs from the index, except for what the
operator has moved since the run began or git has failed at. Only `Reset` loses work
(`StepKeeps`).

Every safety property that a run checks is proved. Only model-checked: all liveness, since
the prover has no ENABLED.

## 6. Where code and documentation part

Two runs check what the repository says and find it violated:

* **`publish_reconsent`** (`monitor.py` 464) — a station that is opted out at the first
  reading of a cycle and consents at the third is published and stays in `cleared`; when
  it opts out again its record is not wiped while the process lives.
* **`autoupdate_staged`** (`autoupdate.sh` 101) — "nothing is destroyed", says the script
  (28-29); an edit that is only in the index is not seen by `git diff --quiet`, not stashed,
  and destroyed by `reset --hard`, although no command fails.

The properties that pass were cut to what the code does where it does less than is said:

* *Dating an outage* (`monitor.py` 432). Only the top of a cycle beats. A cut during a body
  longer than a heartbeat, as when no endpoint answers, is dated too early by more than the
  "to within HEARTBEAT_S" of `bootmarker.py` 31 and the "~2 min" of
  `docs/bridge_contract.md` 124. `OutageIsDated` measures from the top of that cycle.
* *Any increase* (`oslevel.py` 534). The threshold 0 is documented so, but the rate is
  rounded to one decimal before it is compared: one error in more than 20 minutes without a
  sample is 0.0 and never reported. `NicAlertIsExact` says when that is so. The UDP and
  reassembly rates round alike.
* *A host nobody consents on* (`monitor.py` 471-475, `publisher.py` 318-328). If the last
  station opts out while the monitor is stopped, the next process has nobody to connect for
  and never wipes what the broker retains; if it opts out while the wire is dead,
  `go_silent()` queues tombstones that the disconnect discards, or drops them when the
  outage is known, and `connected` becomes false all the same. `EndIsComplete` assumes a
  wire that held and a process that did not end; `OptOutIsErased` that another consents.
* *Refusal* (`discovery.py` 125). A `.config` that cannot be parsed for a moment publishes a
  station that refuses, because `weblog_enable` defaults to true; `NeverOpenNeverNamed`
  takes such a reading for consent, as the code does.
* *Pinned identity* (`config.py` 425). A reload pins `host_name` and the prefix but not
  `host_uid`, computed from the new name: after a rename the host record goes to the topic
  of the new name, and station records (whose topics are those of the stations) name it as
  their host, while status, Last Will and client id keep the old one. `NoOrphan` counts such
  names as lost.

Also seen while modelling; the properties except them or their inputs show them.

*Publishing.* A stop during an outage may end with "online" retained, if paho reconnects
while `disconnect()` is at work. The new host name is recorded before the tombstones of the
old one are delivered. Without a MAC and without a directory to write to, every start is
another host. An endpoint that accepts and never answers counts as connected, so no
fallback is tried until it does not accept any more; after a silent spell only the endpoint
that won is tried. The watchdog's clock goes on over a reconnection.

*Standby.* A camera that filters ICMP and whose output once stalled for the grace period
stays "unreachable" after the output is back: in standby only the ping is looked at, while
the docstring of `_track_unreachable` says standby ends on "not stalled". A station that
opts out, or whose cycles fail, leaves its clock running. Drops that flap around the
threshold reset the back-off.

*Records.* Output that never came has its camera pinged and, if the ping is answered, is
reported by nobody: `output_stalled` has a branch the `capture_stalled` check has not, and
the docstring (`health.py` 134) calls the one factored out of the other. `detection_stalled`
cannot arise while files are added to the session directory, whose own time stamp it
compares. The newer directory of a short-lived second instance hides the output of the
first. A capture that ends between the listing of /proc and the second reading of its age
(`collect.py` 247) has none, hence no grace, and its record shows a stall for one cycle
(`health.py` 384-390 fails toward alerting). Workers that outlive their main process count
as an instance. A process whose
working directory cannot be read makes its station "capture down".

*Logs.* "Dropped in the last 10 min" is read from the newest buffer line, however old. A log
window shorter than the spike window, or a tail that cuts, hides the reconnection that
explains a full buffer. Fatal lines of the journal are not bounded in time. Undatable lines
count as recent.

*Host.* A change of the watched interfaces gives a rate over two different sums. An OOM
kill is taken to be over when any one capture is restarted, or the host booted, since
(`health.py` 588-598); the comments at `health.py` 550-560 and `config.py` 219-225 still say
that only a reboot clears it. Lines of the kernel log files
cannot be dated, so a kill found there is an error until the log is rotated. A data disk
that is gone from the mounts counts as somebody else's, against the comment in
`oslevel.py` that prefers a false alarm.

*Boot marker.* A monitor killed without `stop()` before an orderly reboot makes the next
boot report "unclean", which `docs/bridge_contract.md` 122-123 reserves for cuts, resets
and panics (`UncleanIsSound` states what does hold).

*Updater.* `reset --hard` destroys an untracked file in its way, and what the operator does
between the stash and the reset. After a failed `pip`, a failed restart or a kill behind the
merge, every later
run finds HEAD unchanged and the old code goes on running
(`UpdateTakesEffectUnlessBroken`).

## 7. What is not modelled

* *Viewer, command line, test publishers:* one-shot printing or reading.
* *`solar.py`:* real-valued astronomy, out of TLC's reach. Day, night and the transition
  between them are inputs of `StationRecord`.
* *Maintenance windows:* `detect` reads the process list and the uptime and changes no
  state; the windows only label records and shorten a sleep that may be of any length here.
* *`sanitize.py`:* string rewriting without state.
* *`install.sh`, `deploy_station.sh`, `uninstall_station.sh`:* interactive, run once.
* *Collectors that only read a value:* platepar, timelapse, bandwidth, upload queue, disk
  space, clock, memory, pressure, link speed; their comparisons are `PlainProblems`. The UDP
  and reassembly rates are taken as the NIC rate is.
* *What probes measure:* ffprobe and ping packet loss are inputs (`evidence`).
* *paho's queue limit:* it is far above what one cycle publishes, and nothing is queued while
  the client knows it is offline.
* *Logical volumes:* `NameOf` takes the name of a mount and that of a kernel line to be names
  of the same disk. Where the mount is `dm-0` and the kernel complains of `sda`, the line is
  taken for another disk's (`oslevel.py` 245), which `DiskErrorIsFlagged` does not speak of.
* *Faults without end:* a fetch, a `pip` or a `git status` that fails at every run, and an
  endpoint that stays dead or mute for ever; the liveness properties speak of faults that end.
* *Station directories that appear or disappear:* the code has no handling to model.

## 8. Plan

Done: the modules of section 2 with their runs and proofs. Left, in this order:

1. An abstract specification of consent (a station's record is on the broker only after
   consent, and gone after refusal) that `PublishLoop` implements, as `StationCycle`
   implements `CameraOutage` and `BootMarker` implements `BootVerdict`.
2. A directory that disappears, in `PublishLoop`.
3. The timelapse checks of `evaluate`, which compare times of several days.

## 9. How to run it

    tlc -workers 2 -config AutoUpdate_faults.cfg AutoUpdate
    tlc -workers 2 -config PublishLoop_faults.cfg MCPublishLoop
    tlapm PublishLoopProofs.tla

`PROJECT.json` lists all runs with module, configuration and expected outcome, the mutants
with the property each must break, the source lines behind each definition, and the
theorems. No run takes more than about three minutes on two cores.
