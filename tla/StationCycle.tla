----------------------------- MODULE StationCycle -----------------------------
(***************************************************************************)
(* What the monitor remembers of a station from one cycle to the next:     *)
(* gather and _track_unreachable of monitor.py, camera_reachable,          *)
(* should_escalate and note_escalation of diagnose.py.                     *)
(*                                                                         *)
(* A station whose output is stalled and whose camera has not answered a   *)
(* ping for a grace period is put in standby: from then on it is only      *)
(* pinged.  A station that drops frames nothing on the host explains gets  *)
(* a heavy probe, at intervals that double while it goes on dropping.      *)
(*                                                                         *)
(* A moment in the past is kept as its age and a moment to come as what is *)
(* left until then, both up to the value where the code stops telling them *)
(* apart; so time itself is unbounded.                                     *)
(***************************************************************************)
EXTENDS Integers

CONSTANTS
    Stations,     \* the stations of this host
    Grace,        \* camera_unreachable_grace_s
    ProbeMin,     \* probe_min_interval_s
    ProbeMax,     \* probe_max_interval_s
    MaxChanges,   \* bound: what the world does to the stations
    MaxFaults     \* bound: cycles that end in an exception, and restarts

ASSUME StationCycleAssumption ==
    /\ Grace \in Nat \ {0}
    /\ ProbeMin \in Nat \ {0} /\ ProbeMax \in Nat /\ ProbeMin <= ProbeMax
    /\ MaxChanges \in Nat /\ MaxFaults \in Nat

VARIABLES
    camera,       \* what a ping of each camera would find
    output,       \* whether each station's output flows
    drops,        \* the frames each station drops
    listed,       \* the stations that consent to being published
    changes,      \* how often the four above have changed
    pc,           \* where gather is
    cur,          \* the station it is at
    batch,        \* the stations it still has to visit
    stalled,      \* what the metrics of this station say of its output
    unreachable,  \* _UNREACHABLE: the age of each station's clock
    standby,      \* _STANDBY
    elapsed,      \* time since gather last read the clock
    escalate,     \* _ESCALATE: until the next probe, and the interval
    faults,       \* how many cycles have failed, how often the process died
    calm,         \* history: since a station was last seen not (stalled and silent)
    probes,       \* history: heavy probes of each station since its drops cleared
    gap           \* history: since the last of them

worldVars == <<camera, output, drops, listed, changes>>
visitVars == <<pc, cur, batch, stalled>>
clockVars == <<unreachable, standby, elapsed, calm>>
probeVars == <<escalate, probes, gap>>
vars      == <<worldVars, visitVars, clockVars, probeVars, faults>>

Ping      == {"answers", "silent", "unclear"}
DropCause == {"few", "on_host", "unexplained"}

NotTracked == -1
NoBackoff  == [wait |-> 0, interval |-> 0]

Cap(n, max) == IF n <= max THEN n ELSE max

\* Beyond this many the interval is ProbeMax.
ManyProbes == ProbeMax + 1

\* The documented spacing: ProbeMin, doubling up to ProbeMax.
Spacing(n) == Cap(ProbeMin * 2^(n - 1), ProbeMax)

-----------------------------------------------------------------------------

\* The monitor has just started; its stations may be in any condition.
Init ==
    /\ camera \in [Stations -> Ping] /\ output \in [Stations -> {"flows", "stalled"}]
    /\ drops \in [Stations -> DropCause] /\ listed \in SUBSET Stations /\ changes = 0
    /\ pc = "sleep" /\ cur \in Stations /\ batch = {} /\ stalled = FALSE
    /\ unreachable = [s \in Stations |-> NotTracked] /\ standby = {} /\ elapsed = 0
    /\ escalate = [s \in Stations |-> NoBackoff]
    /\ calm = [s \in Stations |-> 0]
    /\ probes = [s \in Stations |-> 0] /\ gap = [s \in Stations |-> 0]
    /\ faults = 0

-----------------------------------------------------------------------------
(* gather. *)

\* The beginning: which stations to visit, and the one reading of the clock that
\* the standby decisions of this cycle use.
Begin ==
    /\ pc = "sleep" /\ pc' = "next"
    /\ batch' = listed
    /\ unreachable' = [s \in Stations |->
           IF unreachable[s] = NotTracked THEN NotTracked
           ELSE Cap(unreachable[s] + elapsed, Grace)]
    /\ calm' = [s \in Stations |-> Cap(calm[s] + elapsed, Grace)]
    /\ elapsed' = 0
    /\ UNCHANGED <<worldVars, cur, stalled, standby, probeVars, faults>>

\* The next station, by the fast path if it is in standby.
Visit(s) ==
    /\ pc = "next" /\ s \in batch
    /\ cur' = s /\ batch' = batch \ {s}
    /\ pc' = IF s \in standby THEN "recheck" ELSE "collect"
    /\ UNCHANGED <<worldVars, stalled, clockVars, probeVars, faults>>

\* Mutant: each silent ping starts the clock anew.
TrackRestarts(s, isStalled, reachable) ==
    unreachable' = [unreachable EXCEPT ![s] =
        IF isStalled /\ reachable = "silent" THEN 0 ELSE NotTracked]

\* _track_unreachable: the clock runs while the station is stalled and silent.
Track(s, isStalled, reachable) ==
    unreachable' = [unreachable EXCEPT ![s] =
        IF ~(isStalled /\ reachable = "silent") THEN NotTracked
        ELSE IF @ = NotTracked THEN 0 ELSE @]

\* Mutant: a recovered station keeps its clock.
RecheckKeepsClock ==
    /\ pc = "recheck"
    /\ IF camera[cur] = "silent"
       THEN pc' = "next" /\ Track(cur, TRUE, "silent") /\ UNCHANGED <<standby, calm>>
       ELSE /\ pc' = "collect" /\ UNCHANGED unreachable
            /\ standby' = standby \ {cur} /\ calm' = [calm EXCEPT ![cur] = 0]
    /\ UNCHANGED <<worldVars, cur, batch, stalled, elapsed, probeVars, faults>>

\* Mutant: only an answer ends standby.
RecheckNeedsAnswer ==
    /\ pc = "recheck"
    /\ IF camera[cur] # "answers"
       THEN pc' = "next" /\ Track(cur, TRUE, "silent") /\ UNCHANGED <<standby, calm>>
       ELSE /\ pc' = "collect" /\ Track(cur, FALSE, camera[cur])
            /\ standby' = standby \ {cur} /\ calm' = [calm EXCEPT ![cur] = 0]
    /\ UNCHANGED <<worldVars, cur, batch, stalled, elapsed, probeVars, faults>>

\* The fast path: a camera that is still silent gets its collapsed record.  A
\* camera that answers, or whose ping is undeterminable, leaves standby, and its
\* station is visited in full.
Recheck ==
    /\ pc = "recheck"
    /\ IF camera[cur] = "silent"
       THEN pc' = "next" /\ Track(cur, TRUE, "silent") /\ UNCHANGED <<standby, calm>>
       ELSE /\ pc' = "collect" /\ Track(cur, FALSE, camera[cur])
            /\ standby' = standby \ {cur} /\ calm' = [calm EXCEPT ![cur] = 0]
    /\ UNCHANGED <<worldVars, cur, batch, stalled, elapsed, probeVars, faults>>

\* Mutant: a drop explained by the host resets the back-off as well.
ShouldEscalateForgets(s) ==
    /\ pc' = IF drops[s] = "unexplained" /\ escalate[s].wait = 0
             THEN "probe" ELSE "judge"
    /\ IF drops[s] # "unexplained"
       THEN escalate' = [escalate EXCEPT ![s] = NoBackoff]
       ELSE UNCHANGED escalate
    /\ IF drops[s] = "few" THEN probes' = [probes EXCEPT ![s] = 0]
                           ELSE UNCHANGED probes

\* Mutant: every look at a station that still drops starts its wait anew.
ShouldEscalateRearms(s) ==
    /\ pc' = IF drops[s] = "unexplained" /\ escalate[s].wait = 0
             THEN "probe" ELSE "judge"
    /\ IF drops[s] = "few"
       THEN /\ escalate' = [escalate EXCEPT ![s] = NoBackoff]
            /\ probes' = [probes EXCEPT ![s] = 0]
       ELSE /\ escalate' = [escalate EXCEPT ![s].wait =
                   IF @ = 0 THEN 0 ELSE escalate[s].interval]
            /\ UNCHANGED probes

\* should_escalate: drops that nothing on the host explains, unless the last probe
\* is too recent.  Few drops reset the back-off.
ShouldEscalate(s) ==
    /\ pc' = IF drops[s] = "unexplained" /\ escalate[s].wait = 0
             THEN "probe" ELSE "judge"
    /\ IF drops[s] = "few"
       THEN /\ escalate' = [escalate EXCEPT ![s] = NoBackoff]
            /\ probes' = [probes EXCEPT ![s] = 0]
       ELSE UNCHANGED <<escalate, probes>>

\* collect_station, and whether its metrics call for a heavy probe.
Collect ==
    /\ pc = "collect"
    /\ stalled' = (output[cur] = "stalled")
    /\ ShouldEscalate(cur)
    /\ UNCHANGED <<worldVars, cur, batch, clockVars, gap, faults>>

\* Mutant: the interval is not bounded by probe_max_interval_s.
ProbeUncapped ==
    /\ pc = "probe" /\ pc' = "judge"
    /\ LET last == escalate[cur].interval
           next == IF last = 0 THEN ProbeMin ELSE last * 2
       IN  escalate' = [escalate EXCEPT ![cur] = [wait |-> next, interval |-> next]]
    /\ probes' = [probes EXCEPT ![cur] = Cap(@ + 1, ManyProbes)]
    /\ gap' = [gap EXCEPT ![cur] = 0]
    /\ UNCHANGED <<worldVars, cur, batch, stalled, clockVars, faults>>

\* run_probe, which takes its time, and note_escalation when it is done.
Probe ==
    /\ pc = "probe" /\ pc' = "judge"
    /\ LET last == escalate[cur].interval
           next == IF last = 0 THEN ProbeMin ELSE Cap(last * 2, ProbeMax)
       IN  escalate' = [escalate EXCEPT ![cur] = [wait |-> next, interval |-> next]]
    /\ probes' = [probes EXCEPT ![cur] = Cap(@ + 1, ManyProbes)]
    /\ gap' = [gap EXCEPT ![cur] = 0]
    /\ UNCHANGED <<worldVars, cur, batch, stalled, clockVars, faults>>

\* The camera of a stalled station is pinged, the clock advanced, and the station
\* put in standby when its clock has run for the grace period.
Judge ==
    /\ pc = "judge" /\ pc' = "next"
    /\ LET reachable == IF stalled THEN camera[cur] ELSE "none"
       IN  /\ Track(cur, stalled, reachable)
           /\ standby' = IF unreachable'[cur] >= Grace THEN standby \cup {cur}
                                                       ELSE standby
           /\ calm' = IF stalled /\ reachable = "silent" THEN calm
                      ELSE [calm EXCEPT ![cur] = 0]
    /\ UNCHANGED <<worldVars, cur, batch, stalled, elapsed, probeVars, faults>>

\* Every station has been visited; the records go out.
Done ==
    /\ pc = "next" /\ batch = {} /\ pc' = "sleep"
    /\ UNCHANGED <<worldVars, cur, batch, stalled, clockVars, probeVars, faults>>

\* An exception in a collector, the probe or the evaluation ends the cycle: the
\* stations after this one are not visited.
CycleError ==
    /\ pc # "sleep" /\ pc' = "sleep"
    /\ faults < MaxFaults /\ faults' = faults + 1
    /\ batch' = {}
    /\ UNCHANGED <<worldVars, cur, stalled, clockVars, probeVars>>

\* The process dies and systemd starts it again: nothing of this is persisted.
Restart ==
    /\ faults < MaxFaults /\ faults' = faults + 1
    /\ pc' = "sleep" /\ batch' = {} /\ elapsed' = 0
    /\ unreachable' = [s \in Stations |-> NotTracked] /\ standby' = {}
    /\ escalate' = [s \in Stations |-> NoBackoff]
    /\ probes' = [s \in Stations |-> 0] /\ calm' = [s \in Stations |-> 0]
    /\ UNCHANGED <<worldVars, cur, stalled, gap>>

-----------------------------------------------------------------------------
(* Time and the world. *)

Tick ==
    /\ elapsed' = Cap(elapsed + 1, Grace)
    /\ escalate' = [s \in Stations |->
           [escalate[s] EXCEPT !.wait = IF @ = 0 THEN 0 ELSE @ - 1]]
    /\ gap' = [s \in Stations |-> Cap(gap[s] + 1, ProbeMax)]
    /\ UNCHANGED <<worldVars, visitVars, unreachable, standby, calm, probes, faults>>

\* Cameras are unplugged, networks filter ICMP, captures stall and recover, frames
\* are dropped, operators edit weblog_enable.
Change(s) ==
    /\ changes < MaxChanges /\ changes' = changes + 1
    /\ \/ \E p \in Ping : camera' = [camera EXCEPT ![s] = p]
          /\ UNCHANGED <<output, drops, listed>>
       \/ \E o \in {"flows", "stalled"} : output' = [output EXCEPT ![s] = o]
          /\ UNCHANGED <<camera, drops, listed>>
       \/ \E d \in DropCause : drops' = [drops EXCEPT ![s] = d]
          /\ UNCHANGED <<camera, output, listed>>
       \/ listed' \in {listed \cup {s}, listed \ {s}}
          /\ UNCHANGED <<camera, output, drops>>
    /\ UNCHANGED <<visitVars, clockVars, probeVars, faults>>

Loop == \/ Begin \/ Recheck \/ Collect \/ Probe \/ Judge \/ Done
        \/ \E s \in Stations : Visit(s)

Next == \/ Loop \/ CycleError \/ Restart \/ Tick
        \/ \E s \in Stations : Change(s)

Spec == Init /\ [][Next]_vars

\* The loop never stops for good: the collectors, the ping and the probe all have
\* their timeouts, and an exception only ends the cycle.  And time passes.
FairSpec == Spec /\ WF_vars(Loop) /\ WF_vars(Tick)

-----------------------------------------------------------------------------
(* Invariants. *)

\* Clocks, back-offs and the loop's position keep their types; a clock never runs
\* beyond the grace period.
TypeOK ==
    /\ camera \in [Stations -> Ping] /\ output \in [Stations -> {"flows", "stalled"}]
    /\ drops \in [Stations -> DropCause] /\ listed \subseteq Stations
    /\ changes \in 0..MaxChanges /\ faults \in 0..MaxFaults
    /\ pc \in {"sleep", "next", "recheck", "collect", "probe", "judge"}
    /\ cur \in Stations /\ batch \subseteq Stations /\ stalled \in BOOLEAN
    /\ unreachable \in [Stations -> NotTracked..Grace] /\ standby \subseteq Stations
    /\ elapsed \in 0..Grace
    /\ escalate \in [Stations -> [wait : 0..ProbeMax, interval : 0..ProbeMax]]
    /\ calm \in [Stations -> 0..Grace]
    /\ probes \in [Stations -> 0..ManyProbes] /\ gap \in [Stations -> 0..ProbeMax]

\* A station is in standby only if, for the whole grace period, no cycle has seen
\* its output flow, its camera answer or its ping fail to run: a short outage never
\* collapses its record, whatever happened in earlier outages.
StandbyIsEarned ==
    \A s \in standby : calm[s] >= Grace

\* While a station goes on dropping frames, the n-th heavy probe and the next one
\* are at least the documented interval apart (probe_min_interval_s, doubling up to
\* probe_max_interval_s), even if the host explains the drops for a while, the
\* station spends time in standby, or a cycle fails.
ProbesBackOff ==
    [][\A s \in Stations :
          pc # "probe" /\ pc' = "probe" /\ cur = s /\ probes[s] > 0
              => gap[s] >= Spacing(probes[s])]_vars

-----------------------------------------------------------------------------
(* What the records promise. *)

\* A station's record is collapsed while the station is in standby.
Outage == INSTANCE CameraOutage WITH
    view    <- [s \in Stations |-> IF s \in standby THEN "collapsed" ELSE "full"],
    silence <- calm

\* gather, with its two paths, its clocks and its failed cycles, implements the
\* promise: no step of it collapses a record early, nor takes the collapsed record
\* back for any reason but that the station was seen well, or a restart.
OutageIsAsPromised == Outage!Spec

-----------------------------------------------------------------------------
(* Liveness. *)

Consents(s) == s \in listed

\* A camera that answers again for good, or that can no longer be judged, brings
\* its station out of standby for good: standby does not feed on itself.
AnswerEndsStandby ==
    \A s \in Stations :
        <>[](Consents(s) /\ camera[s] # "silent") => <>[](s \notin standby)

\* A camera that is dead for good, with its output stalled, ends up in standby and
\* stays there, despite failed cycles and restarts.
DeadCameraStandsBy ==
    \A s \in Stations :
        <>[](Consents(s) /\ camera[s] = "silent" /\ output[s] = "stalled")
            => <>[](s \in standby)

\* A reachable station whose drops stay unexplained is probed again and again: the
\* back-off slows the probes down and never ends them.
DropsAreProbed ==
    \A s \in Stations :
        <>[](Consents(s) /\ camera[s] # "silent" /\ drops[s] = "unexplained")
            => []<>(pc = "probe" /\ cur = s)

=============================================================================
