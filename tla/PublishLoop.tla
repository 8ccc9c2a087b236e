----------------------------- MODULE PublishLoop -----------------------------
(***************************************************************************)
(* The publish loop and the consent it must honour: run_loop, run_once,    *)
(* gather_host and gather of monitor.py, the Publisher of publisher.py,    *)
(* and what discovery.py reads from each station's .config.                *)
(*                                                                         *)
(* One process on the host reads the consent of its stations several times *)
(* per cycle, publishes one retained record per consenting station plus a  *)
(* host record naming them, and erases the records of the others with an   *)
(* empty retained payload (a tombstone).  paho's network thread connects,  *)
(* announces, resends what was not acknowledged, and loses the wire; the   *)
(* broker keeps the retained records and publishes the Last Will.          *)
(*                                                                         *)
(* A payload is the set of names it discloses; {} is the empty payload.    *)
(***************************************************************************)
EXTENDS Naturals, Sequences

CONSTANTS
    Stations,      \* the station directories on this host
    Placeholder,   \* those still on RMS's default stationID
    InitiallyOn,   \* those with weblog_enable true when the story begins
    MayGarble,     \* a .config may be unparsable for a while
    MaxEdits,      \* bound: edits of .config files
    MaxDrops,      \* bound: times the wire to the broker dies
    MaxCrashes,    \* bound: times the process is killed
    MaxStops,      \* bound: SIGTERMs and watchdog exits
    MaxErrors,     \* bound: cycles that end in an exception
    MaxFaults,     \* bound: the faults of all these kinds together
    MaxBacklog     \* bound: unacknowledged messages when a cycle begins

ASSUME PublishLoopAssumption ==
    /\ Placeholder \subseteq Stations /\ InitiallyOn \subseteq Stations
    /\ MayGarble \in BOOLEAN
    /\ Stations \cap {"status", "host", "online", "offline"} = {}
    /\ {MaxEdits, MaxDrops, MaxCrashes, MaxStops, MaxErrors, MaxFaults,
        MaxBacklog} \subseteq Nat

VARIABLES
    weblog,      \* stations whose .config says weblog_enable: true
    garbled,     \* stations whose .config cannot be parsed at the moment
    edits,       \* how often a .config has been edited
    pc,          \* where run_loop is
    connected,   \* run_loop's flag: it has connected and not gone silent
    opted_out,   \* run_loop's list from the top of the cycle
    cleared,     \* run_loop's set of stations it believes it has wiped
    batch,       \* what the current for loop still has to visit
    link,        \* "none" | "up" | "half" (dead, but the client thinks it is up)
    out,         \* paho's QoS 1 messages not acknowledged yet, oldest first
    taken,       \* how many of them the broker has taken already
    session,     \* the broker holds a session, hence our Last Will
    retained,    \* the broker's retained payload of each topic
    faults,      \* how often each kind of fault has happened
    everOpen,    \* history: stations the code would ever have called publishable
    unseen,      \* history: those publishable again since the last whole cycle began
    fleeting,    \* history: those that opted out again while unseen
    dirty,       \* history: stations published again since their tombstone
    quiet        \* history: nothing disturbed this cycle so far

fileVars   == <<weblog, garbled, edits, everOpen, fleeting>>
loopVars   == <<pc, connected, opted_out, cleared, batch>>
clientVars == <<link, out, taken>>
brokerVars == <<session, retained>>
vars       == <<fileVars, loopVars, clientVars, brokerVars, faults, dirty, unseen, quiet>>

Topic   == {"status", "host"} \cup Stations
Name    == {"online", "offline"} \cup Stations

\* What each topic carries: "online" or "offline", the names in the host record, or a
\* station's own record; the empty payload deletes.
PayloadOf(topic) ==
    CASE topic = "status" -> {{}, {"online"}, {"offline"}}
      [] topic = "host"   -> SUBSET Stations
      [] OTHER            -> {{}, {topic}}

Message == UNION {[topic: {t}, payload: PayloadOf(t)] : t \in Topic}

Msg(topic, payload) == [topic |-> topic, payload |-> payload]
Online    == Msg("status", {"online"})
Tombstone(topic) == Msg(topic, {})

FaultKind == {"drop", "crash", "stop", "error"}
FaultBound(kind) == CASE kind = "drop"  -> MaxDrops
                      [] kind = "crash" -> MaxCrashes
                      [] kind = "stop"  -> MaxStops
                      [] kind = "error" -> MaxErrors

Fault(kind) == /\ faults[kind] < FaultBound(kind)
               /\ faults["drop"] + faults["crash"] + faults["stop"] + faults["error"] < MaxFaults
               /\ faults' = [faults EXCEPT ![kind] = @ + 1]

-----------------------------------------------------------------------------
(* Discovery. *)

\* Mutant: consent is not asked.
EveryStation(on, bad) == Stations \ Placeholder

\* _publishable over discover_stations: weblog_enable defaults to true, also for
\* a file _read_config could not parse, and the placeholder ID never passes.  (A
\* station's directory is named after its ID, which is what an unparsable file
\* leaves of it.)
PublishableIn(on, bad) == (on \cup bad) \ Placeholder

Publishable == PublishableIn(weblog, garbled)

-----------------------------------------------------------------------------
(* The Publisher. *)

\* is_connected(): what the client believes, not what the wire can carry.
Believes == link # "none"

\* _publish: hands the message to paho, or drops it while offline.
Publish(msg) == IF Believes THEN Append(out, msg) ELSE out

\* flush(): waits for the acknowledgements of what _publish handed over, which the
\* "online" of _on_connect is not, and gives up on a wire that is dead.  (What an
\* earlier flush gave up on is waited for again: acknowledgements come in order.)
Flushed == link # "up" \/ \A i \in 1..Len(out) : out[i] = Online

\* The end of the client: loop_stop, and a DISCONNECT the broker only gets over a
\* live wire; without it the broker keeps the session, and the Last Will with it.
\* What is not acknowledged is forgotten with the client.
Disconnect ==
    /\ link = "up" => taken = Len(out)
    /\ session' = IF link = "up" THEN FALSE ELSE session
    /\ link' = "none" /\ out' = <<>> /\ taken' = 0

\* A new session under our client id: the broker ends the old one, whose Last
\* Will it then publishes.
NewSession ==
    /\ session' = TRUE
    /\ retained' = IF session THEN [retained EXCEPT !["status"] = {"offline"}]
                              ELSE retained

-----------------------------------------------------------------------------
(* Initial state: the service has just been started on a fresh broker. *)

Init ==
    /\ weblog = InitiallyOn /\ garbled = {} /\ edits = 0
    /\ everOpen = InitiallyOn \ Placeholder
    /\ unseen = {} /\ fleeting = {}
    /\ pc = "top" /\ connected = FALSE
    /\ opted_out = {} /\ cleared = {} /\ batch = {}
    /\ link = "none" /\ out = <<>> /\ taken = 0
    /\ session = FALSE /\ retained = [t \in Topic |-> {}]
    /\ faults = [k \in FaultKind |-> 0]
    /\ dirty = {} /\ quiet = FALSE

-----------------------------------------------------------------------------
(* run_loop. *)

\* The top of the cycle: the first of its three readings of the .config files.
Discover ==
    /\ pc = "top" /\ Len(out) <= MaxBacklog
    /\ opted_out' = Stations \ Publishable
    /\ pc' = IF Publishable # {}
             THEN IF connected THEN "host" ELSE "connect"
             ELSE IF connected THEN "silent" ELSE "sleep"
    /\ quiet' = TRUE
    /\ UNCHANGED <<fileVars, connected, cleared, batch, clientVars, brokerVars,
                   faults, dirty, unseen>>

\* _connect_with_retry, once an endpoint answers with a CONNACK.  (Until one does
\* the loop stays here.)  A new client, whose _on_connect announces "online".
ConnectOk ==
    /\ pc = "connect" /\ pc' = "host" /\ connected' = TRUE
    /\ link' = "up" /\ out' = <<Online>> /\ taken' = 0
    /\ NewSession
    /\ UNCHANGED <<fileVars, opted_out, cleared, batch, faults, dirty, unseen, quiet>>

\* The same when TCP connects and no CONNACK comes within 5 s: connect() returns
\* all the same, and paho goes on trying.
ConnectNoAck ==
    /\ pc = "connect" /\ pc' = "host" /\ connected' = TRUE
    /\ Fault("drop")
    /\ link' = "none" /\ out' = <<>> /\ taken' = 0
    /\ UNCHANGED <<fileVars, opted_out, cleared, batch, brokerVars, dirty, unseen, quiet>>

\* gather_host, the second reading, and publish_host_state.
PublishHost ==
    /\ pc = "host" /\ pc' = "gather"
    /\ out' = IF Publishable # {} THEN Publish(Msg("host", Publishable)) ELSE out
    /\ UNCHANGED <<fileVars, connected, opted_out, cleared, batch, link, taken,
                   brokerVars, faults, dirty, unseen, quiet>>

\* Mutant: stations that were wiped once are skipped.
GatherSkipsCleared ==
    /\ pc = "gather" /\ pc' = "publish"
    /\ batch' = Publishable \ cleared
    /\ UNCHANGED <<fileVars, connected, opted_out, cleared, clientVars, brokerVars,
                   faults, dirty, unseen, quiet>>

\* gather, the third reading.
Gather ==
    /\ pc = "gather" /\ pc' = "publish"
    /\ batch' = Publishable
    /\ UNCHANGED <<fileVars, connected, opted_out, cleared, clientVars, brokerVars,
                   faults, dirty, unseen, quiet>>

\* Mutant: every record carries all the stations of the cycle.
PublishStates(s) ==
    /\ pc = "publish" /\ s \in batch
    /\ batch' = batch \ {s}
    /\ out' = Publish(Msg(s, batch))
    /\ dirty' = IF Believes THEN dirty \cup {s} ELSE dirty
    /\ UNCHANGED <<fileVars, pc, connected, opted_out, cleared, link, taken,
                   brokerVars, faults, unseen, quiet>>

\* publish_state for one of the stations that gather found.
PublishState(s) ==
    /\ pc = "publish" /\ s \in batch
    /\ batch' = batch \ {s}
    /\ out' = Publish(Msg(s, {s}))
    /\ dirty' = IF Believes THEN dirty \cup {s} ELSE dirty
    /\ UNCHANGED <<fileVars, pc, connected, opted_out, cleared, link, taken,
                   brokerVars, faults, unseen, quiet>>

\* The flush that ends run_once; the tombstones are next.
RunOnceDone ==
    /\ pc = "publish" /\ batch = {} /\ Flushed
    /\ pc' = "clear" /\ batch' = opted_out \ cleared
    /\ UNCHANGED <<fileVars, connected, opted_out, cleared, clientVars, brokerVars,
                   faults, dirty, unseen, quiet>>

\* Mutant: the tombstone counts as sent although the client was offline.
ClearAnyway(s) ==
    /\ pc = "clear" /\ s \in batch /\ Flushed
    /\ batch' = batch \ {s}
    /\ out' = Publish(Tombstone(s))
    /\ cleared' = cleared \cup {s} /\ dirty' = dirty \ {s}
    /\ UNCHANGED <<fileVars, pc, connected, opted_out, link, taken, brokerVars,
                   faults, unseen, quiet>>

\* clear_station: wiped only if the tombstone was handed to a connected client.
ClearStation(s) ==
    /\ pc = "clear" /\ s \in batch /\ Flushed
    /\ batch' = batch \ {s}
    /\ out' = Publish(Tombstone(s))
    /\ cleared' = IF Believes THEN cleared \cup {s} ELSE cleared
    /\ dirty' = IF Believes THEN dirty \ {s} ELSE dirty
    /\ UNCHANGED <<fileVars, pc, connected, opted_out, link, taken, brokerVars,
                   faults, unseen, quiet>>

\* Mutant: a station that comes back is still taken for wiped.
ClearDoneForGood ==
    /\ pc = "clear" /\ batch = {} /\ Flushed
    /\ pc' = "watchdog" /\ unseen' = unseen \cap opted_out
    /\ UNCHANGED <<fileVars, connected, opted_out, cleared, batch, clientVars,
                   brokerVars, faults, dirty, quiet>>

\* The flush of the last tombstone, and the set re-armed for those who came back: a
\* whole cycle has now seen them.
ClearDone ==
    /\ pc = "clear" /\ batch = {} /\ Flushed
    /\ pc' = "watchdog"
    /\ cleared' = cleared \cap opted_out /\ unseen' = unseen \cap opted_out
    /\ UNCHANGED <<fileVars, connected, opted_out, batch, clientVars, brokerVars,
                   faults, dirty, quiet>>

\* An exception in the body of the cycle: logged, and the rest of it is skipped.
CycleError ==
    /\ pc \in {"host", "gather", "publish", "clear"}
    /\ Fault("error")
    /\ pc' = "watchdog" /\ batch' = {} /\ quiet' = FALSE
    /\ UNCHANGED <<fileVars, connected, opted_out, cleared, clientVars, brokerVars,
                   dirty, unseen>>

\* _publish_watchdog is content (its clock is not part of this module).
WatchdogPasses ==
    /\ pc = "watchdog" /\ pc' = "sleep"
    /\ UNCHANGED <<fileVars, connected, opted_out, cleared, batch, clientVars,
                   brokerVars, faults, dirty, unseen, quiet>>

\* go_silent: tombstones for the status and the host record ...
GoSilent ==
    /\ pc = "silent" /\ pc' = "silence"
    /\ out' = IF Believes THEN out \o <<Tombstone("status"), Tombstone("host")>>
                          ELSE out
    /\ batch' = Stations
    /\ UNCHANGED <<fileVars, connected, opted_out, cleared, link, taken, brokerVars,
                   faults, dirty, unseen, quiet>>

\* ... then for every station on the host ...
SilenceStation(s) ==
    /\ pc = "silence" /\ s \in batch
    /\ batch' = batch \ {s}
    /\ out' = Publish(Tombstone(s))
    /\ UNCHANGED <<fileVars, pc, connected, opted_out, cleared, link, taken,
                   brokerVars, faults, dirty, unseen, quiet>>

\* ... a flush, and a disconnect without an "offline" marker.
SilenceDone ==
    /\ pc = "silence" /\ batch = {} /\ Flushed
    /\ Disconnect
    /\ pc' = "sleep" /\ connected' = FALSE /\ cleared' = {}
    /\ unseen' = {}
    /\ UNCHANGED <<fileVars, opted_out, batch, retained, faults, dirty, quiet>>

\* _sleep_until_next.
Sleep ==
    /\ pc = "sleep" /\ pc' = "top"
    /\ UNCHANGED <<fileVars, connected, opted_out, cleared, batch, clientVars,
                   brokerVars, faults, dirty, unseen, quiet>>

-----------------------------------------------------------------------------
(* How the process ends, and systemd. *)

\* What a process forgets when it is gone.
Forget ==
    /\ pc' = "off" /\ connected' = FALSE
    /\ opted_out' = {} /\ cleared' = {} /\ batch' = {} /\ dirty' = {}
    /\ unseen' = {}
    /\ quiet' = FALSE

\* SIGTERM anywhere inside the try block, or SystemExit(1) from the watchdog,
\* which only a client that believes it is connected can meet.
Stop ==
    /\ pc \notin {"off", "stopping", "disconnect"}
    /\ Fault("stop")
    /\ pc' = "stopping" /\ batch' = {} /\ quiet' = FALSE
    /\ UNCHANGED <<fileVars, connected, opted_out, cleared, clientVars, brokerVars,
                   dirty, unseen>>

\* The finally block of a loop that never connected, or has gone silent.
ExitSilently ==
    /\ pc = "stopping" /\ ~connected
    /\ Forget
    /\ UNCHANGED <<fileVars, clientVars, brokerVars, faults>>

\* The finally block of a connected loop, Publisher.disconnect: the "offline"
\* marker, if it is not dropped ...
AnnounceOffline ==
    /\ pc = "stopping" /\ connected /\ Flushed
    /\ pc' = "disconnect"
    /\ out' = Publish(Msg("status", {"offline"}))
    /\ UNCHANGED <<fileVars, connected, opted_out, cleared, batch, link, taken,
                   brokerVars, faults, dirty, unseen, quiet>>

\* Mutant: the process exits without waiting for the marker to be delivered.
ExitUnflushed ==
    /\ pc = "disconnect"
    /\ session' = IF link = "up" THEN FALSE ELSE session
    /\ link' = "none" /\ out' = <<>> /\ taken' = 0
    /\ Forget
    /\ UNCHANGED <<fileVars, retained, faults>>

\* ... and the disconnect.
ExitAnnounced ==
    /\ pc = "disconnect" /\ Flushed
    /\ Disconnect
    /\ Forget
    /\ UNCHANGED <<fileVars, retained, faults>>

\* SIGKILL, the OOM killer, a power cut.
Crash ==
    /\ pc # "off"
    /\ Fault("crash")
    /\ Forget
    /\ link' = "none" /\ out' = <<>> /\ taken' = 0
    /\ UNCHANGED <<fileVars, brokerVars>>

\* systemd's Restart=always.
Restart ==
    /\ pc = "off" /\ pc' = "top"
    /\ UNCHANGED <<fileVars, connected, opted_out, cleared, batch, clientVars,
                   brokerVars, faults, dirty, unseen, quiet>>

-----------------------------------------------------------------------------
(* paho's network thread, the wire and the broker (external). *)

Drop ==
    /\ link = "up" /\ Fault("drop")
    /\ link' = "half" /\ quiet' = FALSE
    /\ UNCHANGED <<fileVars, loopVars, out, taken, brokerVars, dirty, unseen>>

\* A wire that comes back before either end gave it up; with Drop, also a broker
\* that stalls for longer than a flush waits.
Heal ==
    /\ link = "half" /\ session
    /\ link' = "up"
    /\ UNCHANGED <<fileVars, loopVars, out, taken, brokerVars, faults, dirty, unseen, quiet>>

\* The keepalive expires at the client: _on_disconnect.
ClientNotices ==
    /\ link = "half"
    /\ link' = "none" /\ taken' = 0
    /\ UNCHANGED <<fileVars, loopVars, out, brokerVars, faults, dirty, unseen, quiet>>

\* The keepalive expires at the broker, which publishes the Last Will.
BrokerNotices ==
    /\ session /\ link # "up"
    /\ session' = FALSE
    /\ retained' = [retained EXCEPT !["status"] = {"offline"}]
    /\ UNCHANGED <<fileVars, loopVars, clientVars, faults, dirty, unseen, quiet>>

\* Mutant: "online" is announced on the first connect only.
ReconnectSilently ==
    /\ connected /\ link = "none"
    /\ link' = "up" /\ out' = out /\ taken' = 0
    /\ NewSession
    /\ quiet' = FALSE
    /\ UNCHANGED <<fileVars, loopVars, faults, dirty, unseen>>

\* paho reconnects on its own as long as its loop runs; _on_connect announces
\* "online" ahead of the messages paho sends again.
Reconnect ==
    /\ connected /\ link = "none"
    /\ link' = "up" /\ out' = <<Online>> \o out /\ taken' = 0
    /\ NewSession
    /\ quiet' = FALSE
    /\ UNCHANGED <<fileVars, loopVars, faults, dirty, unseen>>

\* The broker takes the next message: an empty retained payload deletes.
BrokerTakes ==
    /\ link = "up" /\ taken < Len(out)
    /\ LET m == out[taken + 1]
       IN  retained' = [retained EXCEPT ![m.topic] = m.payload]
    /\ taken' = taken + 1
    /\ UNCHANGED <<fileVars, loopVars, link, out, session, faults, dirty, unseen, quiet>>

\* PUBACK for the oldest message: _on_publish.
PubAck ==
    /\ link = "up" /\ taken > 0
    /\ out' = Tail(out) /\ taken' = taken - 1
    /\ UNCHANGED <<fileVars, loopVars, link, brokerVars, faults, dirty, unseen, quiet>>

-----------------------------------------------------------------------------
(* The operator, who edits .config files (external). *)

Edit == /\ edits < MaxEdits /\ edits' = edits + 1

\* What the files say of consent from now on.
Says(on, bad) ==
    LET publishable == PublishableIn(on, bad)
    IN  /\ everOpen' = everOpen \cup publishable
        /\ unseen' = (unseen \cap publishable) \cup (publishable \ Publishable)
        /\ fleeting' = fleeting \cup (unseen \ publishable)

SetWeblog(s) ==
    /\ Edit
    /\ weblog' = IF s \in weblog THEN weblog \ {s} ELSE weblog \cup {s}
    /\ Says(weblog', garbled)
    /\ quiet' = FALSE
    /\ UNCHANGED <<garbled, loopVars, clientVars, brokerVars, faults, dirty>>

\* An editor that truncates before it writes, a duplicated key, a lost
\* permission: for a while the parser gets nothing out of the file.
Garble(s) ==
    /\ MayGarble /\ Edit /\ s \notin garbled
    /\ garbled' = garbled \cup {s}
    /\ Says(weblog, garbled')
    /\ quiet' = FALSE
    /\ UNCHANGED <<weblog, loopVars, clientVars, brokerVars, faults, dirty>>

Mend(s) ==
    /\ s \in garbled
    /\ garbled' = garbled \ {s}
    /\ Says(weblog, garbled')
    /\ quiet' = FALSE
    /\ UNCHANGED <<weblog, edits, loopVars, clientVars, brokerVars, faults, dirty>>

-----------------------------------------------------------------------------
LoopStep ==
    \/ Discover \/ ConnectOk \/ ConnectNoAck \/ PublishHost \/ Gather
    \/ \E s \in Stations : PublishState(s) \/ ClearStation(s) \/ SilenceStation(s)
    \/ RunOnceDone \/ ClearDone \/ WatchdogPasses
    \/ GoSilent \/ SilenceDone \/ Sleep
    \/ ExitSilently \/ AnnounceOffline \/ ExitAnnounced

NetworkStep == Heal \/ ClientNotices \/ BrokerNotices \/ Reconnect \/ BrokerTakes \/ PubAck

Environment ==
    \/ CycleError \/ Stop \/ Crash \/ Drop
    \/ \E s \in Stations : SetWeblog(s) \/ Garble(s) \/ Mend(s)

Next == LoopStep \/ Restart \/ NetworkStep \/ Environment

Spec == Init /\ [][Next]_vars

\* The loop runs, systemd restarts it, keepalives expire, the broker comes back
\* and serves, and an editor finishes saving.
Fairness ==
    /\ WF_vars(LoopStep) /\ WF_vars(Restart)
    /\ WF_vars(ClientNotices \/ Heal) /\ WF_vars(BrokerNotices)
    /\ WF_vars(Reconnect) /\ WF_vars(BrokerTakes) /\ WF_vars(PubAck)
    /\ \A s \in Stations : WF_vars(Mend(s))

FairSpec == Spec /\ Fairness

-----------------------------------------------------------------------------
(* Properties. *)

\* Every variable has its type, and every topic carries what it is for, on the broker
\* and on the way there: a station's topic that station's record and nobody else's.
TypeOK ==
    /\ weblog \subseteq Stations /\ garbled \subseteq Stations /\ edits \in Nat
    /\ pc \in {"off", "top", "connect", "host", "gather", "publish", "clear",
               "watchdog", "silent", "silence", "sleep", "stopping", "disconnect"}
    /\ connected \in BOOLEAN
    /\ opted_out \subseteq Stations /\ cleared \subseteq Stations
    /\ batch \subseteq Stations
    /\ link \in {"none", "up", "half"} /\ out \in Seq(Message)
    /\ taken \in 0..Len(out)
    /\ session \in BOOLEAN /\ retained \in [Topic -> SUBSET Name]
    /\ \A t \in Topic : retained[t] \in PayloadOf(t)
    /\ faults \in [FaultKind -> Nat]
    /\ everOpen \subseteq Stations /\ unseen \subseteq Stations
    /\ fleeting \subseteq Stations
    /\ dirty \subseteq Stations /\ quiet \in BOOLEAN

\* A station that has never looked publishable is named by no payload, neither on
\* the broker nor on its way there: not its own record, not the host record.
NeverOpenNeverNamed ==
    \A s \in Stations \ everOpen :
        /\ \A t \in Topic : s \notin retained[t]
        /\ \A i \in 1..Len(out) : s \notin out[i].payload

\* A host none of whose stations has ever looked publishable is unknown to the
\* broker: no session, no retained record, not even an offline marker.
NeverOpenNoContact ==
    everOpen = {} =>
        /\ ~connected /\ ~session
        /\ \A t \in Topic : retained[t] = {}

\* With messages q in flight to a broker that retains r, topic t will hold payload
\* p once all of q has been delivered.
SettlesIn(q, r, t, p) ==
    \/ \E i \in 1..Len(q) :
         /\ q[i] = Msg(t, p)
         /\ \A j \in i + 1..Len(q) : q[j].topic # t
    \/ /\ \A i \in 1..Len(q) : q[i].topic # t
       /\ r[t] = p

Settles(t, p) == SettlesIn(out, retained, t, p)

\* A station in `cleared` that was not published again since has no record on the
\* broker, or the last word in flight about it is its tombstone: whatever the wire
\* loses, the broker takes twice, or paho sends again.
ClearedIsErased ==
    \A s \in cleared \ dirty : Settles(s, {})

\* A cycle during which nothing changed, failed or reconnected ends with the broker
\* showing us online, the host record naming exactly the publishable stations, and
\* a record of each of them.
QuietCyclePublishes ==
    pc = "sleep" /\ quiet /\ connected /\ link = "up"
      => /\ Settles("status", {"online"})
         /\ Settles("host", Publishable)
         /\ \A s \in Publishable : Settles(s, {s})

\* As documented: an opted-out station's retained record is cleared, so a quiet
\* cycle leaves none.
QuietCycleErases ==
    pc = "sleep" /\ quiet /\ connected /\ link = "up"
      => \A s \in Stations \ Publishable : Settles(s, {})

\* As long as the wire has held, a session that is over has not left "online" behind: its
\* own marker, or nothing, has replaced it.  And if no process ended on the way, a host
\* that went silent, or never had to speak, leaves nothing at all on the broker, also
\* when consent returned and left again between the readings of one cycle.
\* (After a drop paho may reconnect, and announce, while disconnect() is at work.)
EndIsComplete ==
    faults["drop"] = 0 /\ ~session =>
        /\ retained["status"] # {"online"}
        /\ pc = "sleep" /\ ~connected /\ faults["crash"] = 0 /\ faults["stop"] = 0
             => \A t \in Topic : retained[t] = {}

\* A station that consents for good is eventually on the broker for good, by its
\* record and in the host record, and the host is online.
ConsentIsPublished ==
    \A s \in Stations \ Placeholder :
        <>[](s \in weblog) =>
            <>[](/\ retained[s] = {s} /\ s \in retained["host"]
                 /\ retained["status"] = {"online"})

\* A station that opts out for good, on a host where another one consents, is
\* eventually gone from the broker for good: its record is tombstoned through lost
\* wires, crashes and failed cycles, also when it had been wiped before and came back.
\* (Not if it came back for less than a whole cycle, which `cleared` is not re-armed
\* for: QuietCycleErases.)
OptOutIsErased ==
    \A s \in Stations :
        <>[](s \notin Publishable) /\ <>[](weblog \ Placeholder # {}) =>
            <>[](\/ s \in fleeting
                 \/ retained[s] = {} /\ s \notin retained["host"])

-----------------------------------------------------------------------------
(* The inductive invariant behind the consent properties and ClearedIsErased. *)

\* What the loop is about to name has looked publishable.
OpenOnly ==
    /\ Publishable \subseteq everOpen
    /\ pc = "publish" => batch \subseteq everOpen

\* There is a client only while the loop is connected, and contact with the broker
\* only after some station has looked publishable.
Contact ==
    /\ ~connected => link = "none" /\ out = <<>> /\ cleared = {}
    /\ pc = "connect" => ~connected
    /\ pc = "connect" \/ connected \/ session \/ (\E t \in Topic : retained[t] # {})
         => everOpen # {}

\* What the broker has taken is what it retains, unless it took something newer on
\* the same topic; on the status topic the Last Will may come in between.
DeliveredOn(t) ==
    \A i \in 1..taken :
        out[i].topic = t =>
            \/ retained[t] = out[i].payload
            \/ \E j \in i + 1..taken : out[j].topic = t

Delivered == \A t \in Topic \ {"status"} : DeliveredOn(t)

LoopInv ==
    /\ TypeOK /\ OpenOnly /\ NeverOpenNeverNamed
    /\ Contact /\ Delivered /\ ClearedIsErased

-----------------------------------------------------------------------------
(* The inductive invariants behind QuietCyclePublishes and EndIsComplete. *)

\* The status topic is about to be, or has been, given its last word.
Ending == pc \in {"silence", "stopping", "disconnect"}

\* Until then it is told nothing but "online".
OnlyOnline ==
    ~Ending => \A i \in 1..Len(out) : out[i].topic = "status" => out[i] = Online

\* And as long as the wire holds, or may come back before the broker gives it up, the
\* broker shows us online or is about to.
ShownOnline ==
    connected /\ ~Ending /\ (link = "up" \/ (link = "half" /\ session)) =>
        \/ retained["status"] = {"online"}
        \/ \E i \in taken + 1..Len(out) : out[i] = Online

\* In a quiet cycle consent stays what the loop read at its top.
SameConsent ==
    /\ quiet /\ pc \in {"connect", "host", "gather", "publish", "clear", "watchdog"} =>
          Publishable # {} /\ opted_out = Stations \ Publishable
    /\ pc = "clear" => batch \subseteq opted_out

\* The host record, and those of the stations, are on their way once the loop has passed
\* them, if there was a client to take them.
HostIsNamed ==
    quiet /\ Believes /\ pc \in {"gather", "publish", "clear", "watchdog", "sleep"} =>
        Settles("host", Publishable)

StationsAreKept ==
    quiet /\ Believes /\ pc \in {"publish", "clear", "watchdog", "sleep"} =>
        \A s \in Publishable : (pc = "publish" /\ s \in batch) \/ Settles(s, {s})

QuietInv == OnlyOnline /\ ShownOnline /\ SameConsent /\ HostIsNamed /\ StationsAreKept

\* As long as the wire has held: a connected loop has it, ...
Wired ==
    /\ link = "up" => session
    /\ pc \in {"silent", "silence", "disconnect"} => connected
    /\ faults["drop"] = 0 => (connected <=> link = "up")

\* ... no Last Will comes between what the broker has taken and what it shows, and the
\* last words are on their way, ...
LastWords ==
    faults["drop"] = 0 =>
        /\ DeliveredOn("status")
        /\ pc = "disconnect" => Settles("status", {"offline"})
        /\ pc = "silence" =>
              /\ Settles("status", {}) /\ Settles("host", {})
              /\ \A s \in Stations \ batch : Settles(s, {})

\* ... and a process that was not told to stop leaves nothing when it is not connected.
NoTrace ==
    /\ pc \in {"stopping", "disconnect"} => faults["stop"] > 0
    /\ pc = "off" => faults["stop"] + faults["crash"] > 0
    /\ faults["drop"] = 0 /\ ~session => retained["status"] # {"online"}
    /\ faults["drop"] = 0 /\ faults["crash"] = 0 /\ faults["stop"] = 0 /\ ~connected =>
          ~session /\ \A t \in Topic : retained[t] = {}

EndInv == Wired /\ LastWords /\ NoTrace

=============================================================================
