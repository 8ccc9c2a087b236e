------------------------------ MODULE StationLog ------------------------------
(***************************************************************************)
(* What the monitor concludes from the log of one station: collect_logs,   *)
(* collect_journal_fatal and collect_capture_events of collect.py, the end *)
(* of collect_station, and health.classify_drops on their findings.        *)
(*                                                                         *)
(* RMS opens a log when it has started and appends to it.  A line is known *)
(* by the pattern it matches; the body of a traceback has no time stamp.   *)
(* Ages count up to Old, beyond every window.  Left out: the texts of      *)
(* errors and warnings, star and meteor counts, the schedule of camera     *)
(* reboots.                                                                *)
(***************************************************************************)
EXTENDS FiniteSetsExt, Integers, Sequences

CONSTANTS
    LogWindow,     \* log_window_s
    SpikeWindow,   \* _SPIKE_WINDOW_S
    TailLines,     \* log_tail_lines
    Old,           \* the age at which ages are no longer told apart
    MaxLines       \* bound: the lines of a log

ASSUME StationLogAssumption ==
    /\ LogWindow \in Nat /\ SpikeWindow \in Nat
    /\ TailLines \in Nat \ {0} /\ MaxLines \in Nat
    /\ Old \in Nat /\ Old > LogWindow + SpikeWindow

VARIABLES
    alive,      \* the capture process runs
    opened,     \* it has opened its log
    phase,      \* "capture" | "processing": of a night's folder, at dawn or restart
    behind,     \* the consumer cannot keep up
    spiking,    \* a pipeline was built just now: its buffer is full at first
    session,    \* RMS's dropped frames of this session
    log,        \* the newest log
    pc,         \* "sleep" | "scanned" | "judged"
    stirred,    \* RMS did something between the two
    seenAlive,  \* capture_alive, as collect_process found it
    record      \* the conclusions

rmsVars   == <<alive, opened, phase, behind, spiking, session, log>>
cycleVars == <<pc, stirred, seenAlive, record>>
vars      == <<rmsVars, cycleVars>>

None == -1
Low  == 0
High == 1      \* over buffer_fill_spike_pct

Kinds == {"traceback", "body", "pipeline", "decoder", "buffer", "begin", "end"}

\* fill, drops and lagging mean something on buffer lines only; lagging is not
\* in the text: it is whether the consumer really was behind.
Line(kind) == [kind |-> kind, age |-> 0, fill |-> Low, drops |-> 0,
               hot |-> FALSE, lagging |-> FALSE]

NoRecord == [fatal |-> "none", cause |-> "none", processing |-> "none"]

-----------------------------------------------------------------------------
(* collect_logs. *)

\* _tail: the last lines of the newest log.
Scanned == SubSeq(log, IF Len(log) > TailLines THEN Len(log) - TailLines + 1 ELSE 1, Len(log))

\* Mutant: a line without a time stamp has no time.
OwnAge(lines, i) == IF lines[i].kind = "body" THEN None ELSE lines[i].age

\* last_ts: an undated line belongs to the last dated one before it in the tail.
Carried(lines, i) ==
    LET dated == {j \in 1..i : lines[j].kind # "body"}
    IN  IF dated = {} THEN None ELSE lines[Max(dated)].age

\* A line nobody can date counts.
InWindow(lines, i) ==
    LogWindow = 0 \/ Carried(lines, i) = None \/ Carried(lines, i) <= LogWindow

Count(lines, kinds) ==
    Cardinality({i \in DOMAIN lines : lines[i].kind \in kinds /\ InWindow(lines, i)})

\* _fatal_match: the line that opens a traceback, and the exception that ends it.
FatalKinds == {"traceback", "body"}

BufferLines(lines) == {i \in DOMAIN lines : lines[i].kind = "buffer"}

\* The drops: where the session counter grew from one buffer line to the next.
DropLines(lines) ==
    {i \in BufferLines(lines) :
       \E j \in BufferLines(lines) :
         /\ j < i /\ lines[j].drops < lines[i].drops
         /\ \A k \in BufferLines(lines) : k <= j \/ i <= k}

\* Mutant: the fill on the line that shows the drop counts as its cause.
LeadUpToDrop(lines) ==
    LET drops == DropLines(lines)
        lead  == {i \in BufferLines(lines) :
                    /\ drops # {} /\ i <= Max(drops)
                    /\ lines[i].age - lines[Max(drops)].age <= SpikeWindow}
    IN  IF lead = {} THEN None ELSE Max({lines[i].fill : i \in lead})

\* buffer_fill_max_leadup: the highest fill strictly before the last drop.
LeadUp(lines) ==
    LET drops == DropLines(lines)
        lead  == {i \in BufferLines(lines) :
                    /\ drops # {} /\ i < Max(drops)
                    /\ lines[i].age - lines[Max(drops)].age <= SpikeWindow}
    IN  IF lead = {} THEN None ELSE Max({lines[i].fill : i \in lead})

\* dropped_frames_10min of the newest buffer line, over dropped_frames_warn.
Dropping(lines) ==
    \E i \in BufferLines(lines) :
      lines[i].hot /\ \A j \in BufferLines(lines) : j <= i

-----------------------------------------------------------------------------
(* classify_drops: the first cause with evidence.  evidence names the first of *)
(* those from outside the log: a counter of this host that climbs (see         *)
(* HostRecord), else the loss a probe has found.                               *)

SpikeIsCause(lines) == LeadUp(lines) = High /\ Count(lines, {"pipeline"}) = 0

DropCause(lines, evidence) ==
    CASE ~Dropping(lines) -> "none"
      [] Dropping(lines) /\ SpikeIsCause(lines) -> "cpu/io back-pressure"
      [] OTHER ->
           CASE evidence # "none" -> evidence
             [] OTHER -> IF Count(lines, {"decoder", "pipeline"}) > 0
                         THEN "camera/link bandwidth" ELSE "uncertain"

-----------------------------------------------------------------------------
(* collect_capture_events, which reads the whole log. *)

\* Mutant: the line that ends a run is taken for the start of one.
EndBegins(lines) ==
    LET runs == {i \in DOMAIN lines : lines[i].kind \in {"begin", "end"}}
    IN  IF runs = {} THEN "none" ELSE lines[Max(runs)].kind

\* A run is underway when the last start has no end after it.
InProcessing(lines) ==
    IF \E i \in DOMAIN lines :
         lines[i].kind = "begin" /\ \A j \in DOMAIN lines : lines[j].kind = "end" => j < i
    THEN "begin" ELSE "none"

\* Mutant: a crash leaves the log, and the record, in processing for ever.
ProcessingOf(aliveThen) == InProcessing(log)

\* collect_station: a run lives inside the capture process.
Processing(aliveThen) == IF aliveThen THEN InProcessing(log) ELSE "none"

-----------------------------------------------------------------------------
(* RMS. *)

Init ==
    /\ alive = FALSE /\ opened = FALSE /\ phase = "capture"
    /\ behind = FALSE /\ spiking = FALSE /\ session = 0
    /\ log = <<>>
    /\ pc = "sleep" /\ stirred = FALSE /\ seenAlive = FALSE /\ record = NoRecord

\* RMS acts freely while the monitor sleeps, once within a cycle.
Acts ==
    /\ pc # "judged" /\ ~stirred
    /\ stirred' = (pc # "sleep")
    /\ UNCHANGED <<pc, seenAlive, record>>

Append1(line) == Len(log) < MaxLines /\ log' = Append(log, line)

\* A start may end before it opens its log.
Launch ==
    /\ Acts /\ ~alive
    /\ alive' = TRUE /\ opened' = FALSE /\ phase' = "capture"
    /\ UNCHANGED <<behind, spiking, session, log>>

OpenLog ==
    /\ Acts /\ alive /\ ~opened
    /\ opened' = TRUE /\ log' = <<>>
    /\ spiking' = FALSE /\ session' = 0
    /\ UNCHANGED <<alive, phase, behind>>

Crash ==
    /\ Acts /\ alive
    /\ alive' = FALSE /\ opened' = FALSE /\ phase' = "capture"
    /\ UNCHANGED <<behind, spiking, session, log>>

Lag ==
    /\ Acts
    /\ behind' = ~behind
    /\ UNCHANGED <<alive, opened, phase, spiking, session, log>>

\* A stream is connected, or connected again.
Connect ==
    /\ Acts /\ opened /\ Append1(Line("pipeline"))
    /\ spiking' = TRUE
    /\ UNCHANGED <<alive, opened, phase, behind, session>>

\* Sunrise or sunset: the counters start anew and the pipeline is rebuilt.
Transition ==
    /\ Acts /\ opened /\ Append1(Line("pipeline"))
    /\ session' = 0 /\ spiking' = TRUE
    /\ UNCHANGED <<alive, opened, phase, behind>>

\* The periodic line: the buffer is full after a connect or under a slow consumer.
\* dropped_frames_10min also counts the drops of the lines just before.
Report ==
    /\ Acts /\ opened
    /\ \E drop \in BOOLEAN :
         /\ session' = IF drop /\ session < MaxLines THEN session + 1 ELSE session
         /\ Append1([kind |-> "buffer", age |-> 0, drops |-> session', lagging |-> behind,
                     fill |-> IF spiking \/ behind THEN High ELSE Low,
                     hot |-> drop \/ \E i \in DOMAIN log : log[i].hot /\ log[i].age = 0])
    /\ UNCHANGED <<alive, opened, phase, behind, spiking>>

\* The decoder conceals what is damaged.
Conceal ==
    /\ Acts /\ opened
    /\ Append1(Line("decoder"))
    /\ UNCHANGED <<alive, opened, phase, behind, spiking, session>>

Raise ==
    /\ Acts /\ opened /\ Len(log) + 1 < MaxLines
    /\ log' = log \o <<Line("traceback"), Line("body")>>
    /\ UNCHANGED <<alive, opened, phase, behind, spiking, session>>

StartProcessing ==
    /\ Acts /\ opened /\ phase = "capture"
    /\ phase' = "processing" /\ Append1(Line("begin"))
    /\ UNCHANGED <<alive, opened, behind, spiking, session>>

EndProcessing ==
    /\ Acts /\ opened /\ phase # "capture"
    /\ phase' = "capture" /\ Append1(Line("end"))
    /\ UNCHANGED <<alive, opened, behind, spiking, session>>

Tick ==
    /\ pc = "sleep"
    /\ log' = [i \in DOMAIN log |-> [log[i] EXCEPT !.age = IF @ < Old THEN @ + 1 ELSE Old]]
    /\ spiking' = FALSE
    /\ UNCHANGED <<alive, opened, phase, behind, session, cycleVars>>

-----------------------------------------------------------------------------
(* The cycle. *)

\* collect_process.
Scan ==
    /\ pc = "sleep" /\ pc' = "scanned"
    /\ seenAlive' = alive /\ stirred' = FALSE
    /\ UNCHANGED <<rmsVars, record>>

\* Where a fatal error is found: in the log, else in the journal of the unit that
\* capture runs, or once ran, under.
Fatal(lines, journal) ==
    CASE Count(lines, FatalKinds) > 0 -> "log"
      [] Count(lines, FatalKinds) = 0 /\ journal -> "journal"
      [] OTHER -> "none"

\* evaluate returns before it comes to log_fatal when capture is down.
Read ==
    /\ pc = "scanned" /\ pc' = "judged"
    /\ \E evidence \in {"none", "network: kernel UDP buffer"}, journal \in BOOLEAN :
         record' = [fatal |-> IF seenAlive THEN Fatal(Scanned, journal) ELSE "none",
                    cause |-> DropCause(Scanned, evidence),
                    processing |-> Processing(seenAlive)]
    /\ seenAlive' = FALSE
    /\ UNCHANGED <<rmsVars, stirred>>

Sleep ==
    /\ pc = "judged" /\ pc' = "sleep"
    /\ record' = NoRecord /\ stirred' = FALSE
    /\ UNCHANGED <<rmsVars, seenAlive>>

Next ==
    \/ Launch \/ OpenLog \/ Crash \/ Lag \/ Connect \/ Transition
    \/ Report \/ Conceal \/ Raise \/ StartProcessing \/ EndProcessing \/ Tick
    \/ Scan \/ Read \/ Sleep

Spec == Init /\ [][Next]_vars

-----------------------------------------------------------------------------
(* Properties. *)

TypeOK ==
    /\ alive \in BOOLEAN /\ opened \in BOOLEAN /\ behind \in BOOLEAN
    /\ phase \in {"capture", "processing"}
    /\ spiking \in BOOLEAN /\ session \in 0..MaxLines
    /\ Len(log) <= MaxLines
    /\ \A i \in DOMAIN log : log[i].kind \in Kinds /\ log[i].age \in 0..Old
    /\ pc \in {"sleep", "scanned", "judged"} /\ stirred \in BOOLEAN
    /\ seenAlive \in BOOLEAN
    /\ record.fatal \in {"none", "log", "journal"}
    /\ record.processing \in {"none", "begin"}

\* An error from the log is reported for log_window_s (if there is one) and no longer,
\* unless the tail was cut within its traceback, which leaves lines nobody can date.
FatalIsRecent ==
    pc = "judged" /\ record.fatal = "log" /\ LogWindow # 0
      => \/ \E i \in DOMAIN log : log[i].kind \in FatalKinds /\ log[i].age <= LogWindow
         \/ Scanned[1].kind = "body"

\* The last drop of the tail, and all that led up to it, is within the log window (if
\* there is one) and within the tail.
DropInReach(d) ==
    /\ d \in DropLines(Scanned) /\ \A k \in DropLines(Scanned) : k <= d
    /\ LogWindow = 0 \/ Scanned[d].age + SpikeWindow <= LogWindow
    /\ Len(log) <= TailLines \/ Scanned[1].age > Scanned[d].age + SpikeWindow

\* Drops are put down to back-pressure only if the consumer really was behind just before
\* the last of them: the spike of a fresh connection is never taken for that.
BackpressureIsEarned ==
    pc = "judged" /\ record.cause = "cpu/io back-pressure"
      => \A d \in DOMAIN Scanned : DropInReach(d) =>
           \E i \in BufferLines(Scanned) :
             /\ i < d /\ Scanned[i].lagging
             /\ Scanned[i].age <= Scanned[d].age + SpikeWindow

\* The record says a processing run is underway exactly when one is, whatever crashes
\* left the log at; until a restarted RMS has opened its log, the old one still speaks.
ProcessingIsExact ==
    pc = "judged" /\ ~stirred /\ (alive => opened)
      => (record.processing = "begin" <=> phase = "processing")

=============================================================================
