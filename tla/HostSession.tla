------------------------------ MODULE HostSession ------------------------------
(***************************************************************************)
(* The name a host publishes under, its connection to the broker, and the  *)
(* watchdog over it: config.py (host_uid, state_paths, reload_config),     *)
(* publisher.py (connect, clear_renamed_host, the callbacks) and the part  *)
(* of monitor.run_loop that drives them.                                   *)
(*                                                                         *)
(* host_uid is the host's name and a suffix of this install; a change of   *)
(* either is a change of it.  What is retained is known by the host_uid in *)
(* its topic.  At least one station consents but for silent spells         *)
(* (go_silent).  paho itself, the broker and the network are external.     *)
(***************************************************************************)
EXTENDS Integers

CONSTANTS
    Uids,        \* the values host_uid takes
    Endpoints,   \* broker and fallbacks: 1 is the broker, 2.. the fallbacks in order
    Limit        \* CC_PUBLISH_WATCHDOG_S

nobody == "nobody"

ASSUME HostSessionAssumption ==
    /\ Uids # {} /\ nobody \notin Uids
    /\ Endpoints \in Nat \ {0} /\ Limit \in Nat

VARIABLES
    own,         \* what the configuration makes host_uid now
    writable,    \* the state directories that can be written, of System and User
    hasMac,      \* the suffix can be had from a MAC address
    lastName,    \* the last_host_name file of each state directory
    net,         \* each endpoint: "open", "refused", or "mute": no CONNACK in 5 s
    retained,    \* the host_uids with a retained record
    up,          \* the process runs
    uid,         \* config.host_uid
    statusUid,   \* the one in host_status_topic and in the client id
    link,        \* "none" until connect(), then "waiting" or "linked"
    via,         \* the endpoint the client is for
    winner,      \* _winning_broker, 0 for None
    tombs,       \* host_uids whose tombstones are in the client's queue
    wedged,      \* the session stands and nothing that is sent arrives
    age,         \* the time since _last_publish_ok, None before it is set
    phase,       \* "idle" | "published": run_once is done, the watchdog is next
    excused      \* history: host_uids whose record nothing will clear

worldVars == <<own, writable, hasMac, net>>
procVars  == <<up, uid, statusUid, link, via, winner, tombs, wedged, age, phase>>
vars == <<worldVars, lastName, retained, excused, procVars>>

None   == -1
System == 1
User   == 2
Paths  == {System, User}

Higher(n) == IF n = None \/ n > Limit THEN n ELSE n + 1

-----------------------------------------------------------------------------
(* config. *)

\* _instance_suffix: what a load of the configuration may make host_uid.  Without a
\* MAC and without a place to keep it, every load draws another suffix.
Loaded == IF hasMac \/ writable # {} THEN {own} ELSE Uids

(* clear_renamed_host. *)

\* The first state file that says anything; state_paths gives their order.
Previous ==
    IF lastName[System] # nobody THEN lastName[System] ELSE lastName[User]

\* Mutant: tombstones are dropped, like snapshots, without a connection.
TombstonesWhenLinked(endpoint) ==
    IF net[endpoint] = "open" THEN {Previous} \ {uid, nobody} ELSE {}

\* Mutant: an empty file is a name like any other.
TombstonesOfNone(endpoint) == {Previous} \ {uid}

\* The names to clear; the tombstones wait in the client's queue.
Tombstones(endpoint) == {Previous} \ {uid, nobody}

\* The name is recorded in the first directory that can be written.
Recorded ==
    IF Previous = uid \/ writable = {} THEN lastName
    ELSE [lastName EXCEPT ![IF System \in writable THEN System ELSE User] = uid]

-----------------------------------------------------------------------------
(* publisher.connect. *)

\* Mutant: after a silent spell the next endpoint is tried, not the one that won.
AttemptsLeft == (winner + 1)..Endpoints

\* The endpoints connect() tries: the one that won before, else all in order.
Attempts == IF winner # 0 THEN {winner} ELSE 1..Endpoints

\* Those that take a TCP connection; the first of them gets it.
Reached == {e \in Attempts : net[e] # "refused"}

\* on_connect starts the clock of the watchdog, once.
Started(n) == IF n = None THEN 0 ELSE n

-----------------------------------------------------------------------------
(* The world. *)

Init ==
    /\ own \in Uids /\ writable \in {{}, {User}, Paths}
    \* (Whether there is a MAC matters only if there is nothing to write to.)
    /\ hasMac \in BOOLEAN /\ (hasMac \/ writable = {})
    \* An installation as root may have left a file its service cannot write.
    /\ lastName \in [Paths -> Uids \cup {nobody}] /\ lastName[User] = nobody
    /\ net = [e \in 1..Endpoints |-> "open"]
    /\ retained = {lastName[System]} \ {nobody} /\ excused = {}
    /\ up = FALSE /\ uid = own /\ statusUid = own
    /\ link = "none" /\ via = 0 /\ winner = 0 /\ tombs = {}
    /\ wedged = FALSE /\ age = None /\ phase = "idle"

\* A new host_name in config.yaml, or a new hostname.
Rename ==
    /\ \E u \in Uids \ {own} : own' = u
    /\ UNCHANGED <<writable, hasMac, net, lastName, retained, excused, procVars>>

\* The network changes; a link over an endpoint that is not open any more is lost.
NetChange(e) ==
    /\ \E state \in {"open", "refused", "mute"} \ {net[e]} : net' = [net EXCEPT ![e] = state]
    /\ link' = IF via = e /\ link = "linked" THEN "waiting" ELSE link
    /\ wedged' = (wedged /\ link' = "linked")
    /\ UNCHANGED <<own, writable, hasMac, lastName, retained, excused,
                   up, uid, statusUid, via, winner, tombs, age, phase>>

\* The server was restarted or a proxy sits in between: it answers pings only.
Wedge ==
    /\ link = "linked" /\ ~wedged /\ wedged' = TRUE
    /\ UNCHANGED <<worldVars, lastName, retained, excused,
                   up, uid, statusUid, link, via, winner, tombs, age, phase>>

Tick ==
    /\ age' = Higher(age)
    /\ UNCHANGED <<worldVars, lastName, retained, excused,
                   up, uid, statusUid, link, via, winner, tombs, wedged, phase>>

-----------------------------------------------------------------------------
(* paho. *)

Reconnect ==
    /\ link = "waiting" /\ net[via] = "open"
    /\ link' = "linked" /\ age' = Started(age)
    /\ UNCHANGED <<worldVars, lastName, retained, excused,
                   up, uid, statusUid, via, winner, tombs, wedged, phase>>

\* What the client has queued arrives, "online" among it, and is acknowledged.
Deliver ==
    /\ link = "linked" /\ ~wedged
    /\ retained' = (retained \ tombs) \cup {statusUid}
    /\ tombs' = {} /\ age' = 0
    /\ UNCHANGED <<worldVars, lastName, excused,
                   up, uid, statusUid, link, via, winner, wedged, phase>>

-----------------------------------------------------------------------------
(* The process. *)

Start ==
    /\ ~up /\ up' = TRUE
    /\ \E u \in Loaded : uid' = u /\ statusUid' = u /\ own' = u
    /\ UNCHANGED <<writable, hasMac, net, lastName, retained, excused,
                   link, via, winner, tombs, wedged, age, phase>>

\* _connect_with_retry, when an attempt of connect() succeeds: an endpoint that takes
\* the connection counts, with or without a CONNACK.
Connect ==
    /\ up /\ link = "none"
    /\ \E e \in Reached :
           /\ \A f \in Reached : e <= f
           /\ via' = e
           /\ link' = IF net[e] = "open" THEN "linked" ELSE "waiting"
           /\ winner' = IF e > 1 THEN e ELSE winner
           /\ tombs' = Tombstones(e) /\ lastName' = Recorded
           /\ age' = IF net[e] = "open" THEN Started(age) ELSE age
    /\ excused' = IF Previous = uid \/ Recorded[System] = uid
                     \/ (Recorded[System] = nobody /\ Recorded[User] = uid)
                  THEN excused ELSE excused \cup {uid}
    /\ UNCHANGED <<worldVars, retained, up, uid, statusUid, wedged, phase>>

\* The configuration is read again: the names of the topics are pinned, host_uid is not.
Reload ==
    /\ up /\ phase = "idle"
    /\ \E u \in Loaded :
         /\ uid' = u /\ own' = u
         /\ excused' = IF u = uid THEN excused ELSE excused \cup {u, uid}
    /\ UNCHANGED <<writable, hasMac, net, lastName, retained,
                   up, statusUid, link, via, winner, tombs, wedged, age, phase>>

\* run_once: snapshots are dropped without a link.
RunOnce ==
    /\ up /\ link # "none" /\ phase = "idle" /\ phase' = "published"
    /\ IF link = "linked" /\ ~wedged
       THEN retained' = retained \cup {uid} /\ age' = 0
       ELSE UNCHANGED <<retained, age>>
    /\ UNCHANGED <<worldVars, lastName, excused,
                   up, uid, statusUid, link, via, winner, tombs, wedged>>

\* Mutant: the watchdog takes a session that stands for one that works.
NeverStale == FALSE

Stale == link = "linked" /\ age # None /\ age > Limit

\* The process is gone, by itself or not; with it its queue.  The broker or the
\* process itself says "offline".
Gone ==
    /\ up' = FALSE /\ link' = "none" /\ via' = 0 /\ winner' = 0 /\ tombs' = {}
    /\ wedged' = FALSE /\ age' = None /\ phase' = "idle"
    /\ retained' = IF link = "linked" THEN retained \cup {statusUid} ELSE retained
    /\ excused' = excused \cup tombs
    /\ UNCHANGED <<worldVars, lastName, uid, statusUid>>

\* _publish_watchdog; systemd starts the process again.
WatchdogExits == phase = "published" /\ Stale /\ Gone

WatchdogPasses ==
    /\ phase = "published" /\ ~Stale /\ phase' = "idle"
    /\ UNCHANGED <<worldVars, lastName, retained, excused,
                   up, uid, statusUid, link, via, winner, tombs, wedged, age>>

\* A crash, a stop, a reboot.
Die == up /\ Gone

\* No station consents any more.
GoSilent ==
    /\ up /\ phase = "idle" /\ link # "none"
    /\ retained' = IF link = "linked" /\ ~wedged
                   THEN retained \ {uid, statusUid} ELSE retained
    /\ link' = "none" /\ via' = 0 /\ wedged' = FALSE
    /\ tombs' = {} /\ excused' = excused \cup tombs
    /\ UNCHANGED <<worldVars, lastName, up, uid, statusUid, winner, age, phase>>

Next ==
    \/ Rename \/ Wedge \/ Tick \/ \E e \in 1..Endpoints : NetChange(e)
    \/ Reconnect \/ Deliver
    \/ Start \/ Connect \/ Reload \/ RunOnce \/ WatchdogExits \/ WatchdogPasses
    \/ Die \/ GoSilent

\* systemd restarts the service, the loop goes on, time passes, paho retries.
Fairness ==
    /\ WF_vars(Start) /\ WF_vars(Connect) /\ WF_vars(RunOnce)
    /\ WF_vars(WatchdogExits) /\ WF_vars(WatchdogPasses)
    /\ WF_vars(Reconnect) /\ WF_vars(Tick)

Spec == Init /\ [][Next]_vars /\ Fairness

-----------------------------------------------------------------------------
(* Properties. *)

TypeOK ==
    /\ own \in Uids /\ uid \in Uids /\ statusUid \in Uids
    /\ writable \subseteq Paths /\ hasMac \in BOOLEAN
    /\ lastName \in [Paths -> Uids \cup {nobody}]
    /\ net \in [1..Endpoints -> {"open", "refused", "mute"}]
    /\ retained \subseteq Uids /\ tombs \subseteq Uids /\ excused \subseteq Uids
    /\ up \in BOOLEAN /\ link \in {"none", "waiting", "linked"}
    /\ via \in 0..Endpoints /\ winner \in {0} \cup 2..Endpoints
    /\ wedged \in BOOLEAN /\ age \in -1..(Limit + 1)
    /\ phase \in {"idle", "published"}

\* Whatever a host was called before, nothing stays retained under that name once it is
\* connected and its tombstones have arrived -- but for the names in excused: tombstones
\* that died with the process, names that could not be recorded, and names a reload gave.
NoOrphan ==
    up /\ link = "linked" /\ tombs = {} => retained \ {uid, statusUid} \subseteq excused

\* A session that stands and delivers nothing does not last: its link breaks, or the
\* watchdog ends the process.
WedgeEnds == (wedged ~> ~wedged)

\* A process that goes on is connected again and again once every endpoint is open for
\* good, whichever it had settled on and with whatever it had taken for a connection.
LinkReturns ==
    <>[](up /\ \A e \in 1..Endpoints : net[e] = "open") => []<>(link = "linked")

=============================================================================
