------------------------------ MODULE HostRecord ------------------------------
(***************************************************************************)
(* The record of the host: collect_host of oslevel.py, gather_host of      *)
(* monitor.py and health.evaluate_host, for the three checks that compare  *)
(* what they read with something read elsewhere or before: NIC errors (a   *)
(* rate), OOM kills (against the ages of capture and of the boot) and disk *)
(* errors (against the mounts).                                            *)
(*                                                                         *)
(* A cycle takes seconds and is one step here; time is counted in ticks of *)
(* hours, within which two moments are not told apart.  Every station      *)
(* consents.  Left out: memory pressure, link speed, CPU; the UDP and      *)
(* reassembly rates, which are taken like the NIC rate, of one counter     *)
(* each.                                                                   *)
(***************************************************************************)
EXTENDS FiniteSets, Functions, Integers

CONSTANTS
    Stations, Nics,
    OomRecent,      \* oom_recent_s
    PerTick,        \* the fewest errors in a tick that make a rate of 0.1 per minute
                    \* when it is rounded to one decimal
    MaxNow,         \* bound: the ticks that are run
    MaxErrors,      \* bound: the errors a NIC counts
    MaxLines        \* bound: the names the kernel log holds disk errors under

ASSUME HostRecordAssumption ==
    /\ IsFiniteSet(Stations) /\ Stations # {}
    /\ IsFiniteSet(Nics) /\ "any" \notin Nics
    /\ {OomRecent, PerTick, MaxNow, MaxErrors, MaxLines} \subseteq Nat

VARIABLES
    now, bootedAt,
    startedAt,   \* when the capture of each station started, None if it is down
    killedAt,    \* the last OOM kill in the kernel log, None without one
    source,      \* what of the kernel log can be read: "journal" | "files"
    errors,      \* the names in the disk errors of the kernel log
    swapped,     \* the kernel has named the data disk and another one in this order
    mounted,     \* the data disk is mounted; else the data directory is on the root's
    rx,          \* RX errors each NIC has counted
    route,       \* the NIC the cameras are on, "any" when it cannot be told
    nicLast,     \* _NIC_LAST: the last total, and when it was read
    record,      \* just written: its problems, and whether an RX sample was read
    failing,     \* history: the disks of ours behind what errors holds of this boot
    damaged,     \* history: the captures that lost a worker to a kill and go on
    nicPast      \* history: the NICs nicLast was taken of, {} if one has been reset
                 \* since, when, and how many errors they have had since

oomVars  == <<startedAt, killedAt, damaged>>
diskVars == <<errors, swapped, mounted, failing>>
nicVars  == <<rx, route>>
vars == <<now, bootedAt, oomVars, diskVars, nicVars, source, nicLast, nicPast, record>>

None    == -1
NoRecord == [problems |-> {}, sampled |-> FALSE, written |-> FALSE]
NoPast   == [watched |-> {}, at |-> 0, count |-> 0]
NoSample == [total |-> None, at |-> 0]

-----------------------------------------------------------------------------
(* oslevel. *)

\* iface_for_ip of the cameras; all interfaces when it names none.
Watched == IF route = "any" THEN Nics ELSE {route}

\* read_nic_stats.
NicTotal == FoldFunctionOnSet(+, 0, rx, Watched)

\* So few errors in so many ticks that their rate is rounded to 0.0.
RoundedAway(growth, ticks) == growth < ticks * PerTick

\* collect_nic_errors: the growth per minute since the last sample, rounded to one
\* decimal, of which no more is kept than whether it is 0; None for the first sample and
\* after a reset.
NicRate(total) ==
    LET growth == total - nicLast.total
    IN  CASE nicLast.total = None \/ growth < 0 -> None
          [] nicLast.total # None /\ RoundedAway(growth, now - nicLast.at) -> 0
          [] OTHER -> growth

\* Mutant: a sample that cannot be read is one of zero.
SampleOrZero(readable) == [total |-> IF readable THEN NicTotal ELSE 0, at |-> now]

\* Mutant: the samples add up.
SampleAdded(readable) ==
    [total |-> IF nicLast.total = None THEN NicTotal ELSE nicLast.total + NicTotal,
     at    |-> now]

\* What the next cycle compares with: a sample that cannot be read changes nothing.
Sample(readable) == IF readable THEN [total |-> NicTotal, at |-> now] ELSE nicLast

Disks == {"root", "data", "other"}

\* The name the kernel gives a disk, which depends on the order it finds them in.
NameOf(disk) ==
    CASE disk = "root" -> "sda"
      [] disk = "data" -> IF swapped THEN "sdc" ELSE "sdb"
      [] OTHER         -> IF swapped THEN "sdb" ELSE "sdc"

\* The disks the system and the data directories are on.
InUse == IF mounted THEN {"root", "data"} ELSE {"root"}

\* Mutant: a station's disk is the one of its data directory.
DataDisks == IF mounted THEN {NameOf("data")} ELSE {NameOf("root")}

\* _relevant_disks: the disks of the root and of the data directories, as the mounts
\* in effect name them.
RelevantDisks == {NameOf(d) : d \in InUse}

\* scan_disk_errors: a line that names other disks only is somebody else's; one that
\* names none is not.
OurErrors(relevant) == errors \cap (relevant \cup {"unnamed"})

\* scan_oom and _kloc_age_s: the log files give no date it can parse.
KillAge == IF killedAt = None \/ source = "files" THEN None ELSE now - killedAt

-----------------------------------------------------------------------------
(* gather_host and evaluate_host. *)

\* Mutant: a capture as old as the kill is taken for a restarted one.
RestartedBy(age) ==
    age # None /\ \E s \in Stations : startedAt[s] # None /\ now - startedAt[s] <= age

\* A capture was started since the kill: capture_restart_age_s is the age of the
\* youngest capture of all stations.
Restarted(age) ==
    age # None /\ \E s \in Stations : startedAt[s] # None /\ now - startedAt[s] < age

\* The host was booted since the kill.
Rebooted(age)  == age # None /\ age > now - bootedAt

\* A kill of which nobody can tell when it was is flagged.
OomLevel ==
    CASE killedAt = None \/ Restarted(KillAge) \/ Rebooted(KillAge) -> "none"
      [] OTHER -> IF KillAge = None \/ KillAge <= OomRecent THEN "error" ELSE "degraded"

Problems(rate) ==
    {p \in {<<"oom", OomLevel>>} : OomLevel # "none"}
    \cup {p \in {<<"nic_errors", "degraded">>} : rate > 0}
    \cup {p \in {<<"disk_errors", "degraded">>} : OurErrors(RelevantDisks) # {}}

-----------------------------------------------------------------------------
(* The host. *)

Init ==
    /\ now = 0 /\ bootedAt = 0
    /\ startedAt = [s \in Stations |-> None] /\ killedAt = None /\ damaged = {}
    /\ source \in {"journal", "files"}
    /\ errors = {} /\ failing = {} /\ swapped = FALSE /\ mounted = TRUE
    /\ rx = [n \in Nics |-> 0] /\ route \in Nics \cup {"any"}
    /\ nicLast = NoSample /\ nicPast = NoPast
    /\ record = NoRecord

\* The host moves while the monitor sleeps.
Moves == ~record.written /\ UNCHANGED <<bootedAt, source, nicLast, record>>

StartCapture(s) ==
    /\ Moves
    /\ startedAt' = [startedAt EXCEPT ![s] = now]
    /\ damaged' = damaged \ {s}
    /\ UNCHANGED <<now, killedAt, diskVars, nicVars, nicPast>>

EndCapture(s) ==
    /\ Moves /\ startedAt[s] # None
    /\ startedAt' = [startedAt EXCEPT ![s] = None]
    /\ damaged' = damaged \ {s}
    /\ UNCHANGED <<now, killedAt, diskVars, nicVars, nicPast>>

\* The victim is a worker of one capture, which goes on without it.
OomKill(s) ==
    /\ Moves /\ startedAt[s] # None
    /\ killedAt' = now /\ damaged' = damaged \cup {s}
    /\ UNCHANGED <<now, startedAt, diskVars, nicVars, nicPast>>

\* A disk that fails is in use, or somebody else's.  Not every line has a name.
DiskError(disk) ==
    /\ Moves /\ disk \in InUse \cup {"other"}
    /\ \E line \in {NameOf(disk), "unnamed"} :
          /\ Cardinality(errors \cup {line}) <= MaxLines
          /\ errors' = errors \cup {line}
    /\ failing' = failing \cup ({disk} \cap InUse)
    /\ UNCHANGED <<now, oomVars, swapped, mounted, nicVars, nicPast>>

\* The data disk drops off the bus, or is mounted again.
Remount ==
    /\ Moves /\ mounted' = ~mounted
    /\ UNCHANGED <<now, oomVars, errors, swapped, failing, nicVars, nicPast>>

\* The kernel has logged so much that the tail holds nothing of this any more.
Scroll ==
    /\ Moves /\ (killedAt # None \/ errors # {})
    /\ killedAt' = None /\ errors' = {} /\ failing' = {}
    /\ UNCHANGED <<now, startedAt, damaged, swapped, mounted, nicVars, nicPast>>

RxError(n) ==
    /\ Moves /\ rx[n] < MaxErrors
    /\ rx' = [rx EXCEPT ![n] = @ + 1]
    /\ nicPast' = IF n \in nicPast.watched THEN [nicPast EXCEPT !.count = @ + 1] ELSE nicPast
    /\ UNCHANGED <<now, oomVars, diskVars, route>>

NicReset(n) ==
    /\ Moves /\ rx[n] > 0
    /\ rx' = [rx EXCEPT ![n] = 0]
    /\ nicPast' = IF n \in nicPast.watched THEN NoPast ELSE nicPast
    /\ UNCHANGED <<now, oomVars, diskVars, route>>

\* A camera moves, a route changes, a .config names another camera.
Reroute ==
    /\ Moves /\ \E to \in Nics \cup {"any"} : to # route /\ route' = to
    /\ UNCHANGED <<now, oomVars, diskVars, rx, nicPast>>

Tick ==
    /\ Moves /\ now < MaxNow /\ now' = now + 1
    /\ UNCHANGED <<oomVars, diskVars, nicVars, nicPast>>

\* The log files outlive a boot, the journal's and dmesg's view of the kernel do not.
\* The kernel may name the disks anew.
Reboot ==
    /\ bootedAt' = now
    /\ startedAt' = [s \in Stations |-> None] /\ damaged' = {}
    /\ killedAt' = IF source = "files" THEN killedAt ELSE None
    /\ errors' = IF source = "files" THEN errors ELSE {}
    /\ failing' = {} /\ swapped' \in BOOLEAN /\ mounted' \in BOOLEAN
    /\ rx' = [n \in Nics |-> 0]
    /\ nicLast' = NoSample /\ nicPast' = NoPast
    /\ record' = NoRecord
    /\ UNCHANGED <<now, source, route>>

\* The service is restarted: the samples are gone.
Restart ==
    /\ nicLast' = NoSample /\ nicPast' = NoPast
    /\ record' = NoRecord
    /\ UNCHANGED <<now, bootedAt, source, oomVars, diskVars, nicVars>>

-----------------------------------------------------------------------------
(* The cycle. *)

Cycle ==
    /\ ~record.written
    /\ \E readable \in BOOLEAN :
         /\ record' = [problems |-> Problems(IF readable THEN NicRate(NicTotal) ELSE None),
                       sampled |-> readable, written |-> TRUE]
         /\ nicLast' = Sample(readable)
    /\ UNCHANGED <<now, bootedAt, source, oomVars, diskVars, nicVars, nicPast>>

Sleep ==
    /\ record.written
    /\ nicPast' = IF record.sampled
                  THEN [watched |-> Watched, at |-> now, count |-> 0] ELSE nicPast
    /\ record' = NoRecord
    /\ UNCHANGED <<now, bootedAt, source, oomVars, diskVars, nicVars, nicLast>>

Next ==
    \/ \E s \in Stations : StartCapture(s) \/ EndCapture(s) \/ OomKill(s)
    \/ \E n \in Nics : RxError(n) \/ NicReset(n)
    \/ \E disk \in Disks : DiskError(disk)
    \/ Remount \/ Scroll \/ Reroute \/ Tick \/ Reboot \/ Restart
    \/ Cycle \/ Sleep

Spec == Init /\ [][Next]_vars

-----------------------------------------------------------------------------
(* Properties. *)

TypeOK ==
    /\ now \in 0..MaxNow /\ bootedAt \in 0..now
    /\ startedAt \in [Stations -> -1..MaxNow] /\ killedAt \in -1..MaxNow
    /\ source \in {"journal", "files"}
    /\ errors \subseteq {"sda", "sdb", "sdc", "unnamed"} /\ swapped \in BOOLEAN
    /\ mounted \in BOOLEAN /\ failing \subseteq {"root", "data"}
    /\ rx \in [Nics -> 0..MaxErrors] /\ route \in Nics \cup {"any"}
    /\ nicLast \in [total: -1..(MaxErrors * Cardinality(Nics)), at: 0..MaxNow]
    /\ record.sampled \in BOOLEAN
    /\ damaged \subseteq Stations

Flagged(key) == \E p \in record.problems : p[1] = key

\* RX errors are reported in the cycle after they occurred and in no other, however many
\* samples were missed in between, whatever other interfaces count and wherever the route
\* was in the meantime, unless they are so few for that time that their rate is rounded to
\* zero.  (Of the same interfaces as the last sample, none of which has been reset since.)
NicAlertIsExact ==
    record.written /\ record.sampled /\ nicPast.watched = Watched
      => (Flagged("nic_errors") <=>
            nicPast.count > 0 /\ ~RoundedAway(nicPast.count, now - nicPast.at))

\* The kill is reported as long as the kernel log holds it, the capture it damaged
\* goes on and no other has been started since.
OomIsKept ==
    record.written /\ killedAt # None /\ damaged # {}
      /\ (\A s \in Stations : startedAt[s] <= killedAt)
      => Flagged("oom")

\* A disk of the system, or of a mounted data directory, that has failed in this boot
\* is reported, by whatever name, whichever disks are mounted or named when it failed,
\* and whatever an earlier boot has left in the log.
DiskErrorIsFlagged ==
    record.written /\ failing \cap InUse # {} => Flagged("disk_errors")

=============================================================================
