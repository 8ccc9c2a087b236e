----------------------------- MODULE StationRecord -----------------------------
(***************************************************************************)
(* How the record of one station comes about: its capture processes and    *)
(* their output, the collectors of collect.py that look at them one after  *)
(* the other (collect_station), and health.evaluate on what they found.    *)
(*                                                                         *)
(* Time passes between cycles only: thresholds are minutes, a cycle        *)
(* seconds.  Between two readings of one cycle the world may take one step.*)
(* Ages are kept up to MaxAge, where no check tells them apart any more.   *)
(* Left out: timelapses, platepar, video segments, memory and CPU figures. *)
(***************************************************************************)
EXTENDS ProcessScan

CONSTANTS
    RestartGrace, Fresh, ActiveWindow, DetectionGrace, Disabled,  \* see Health
    SwitchGrace,   \* rmsmode's grace, or the time the sun takes through the
                   \* transition band of _expected_output
    Located,       \* the .config gives the station's coordinates
    Continuous     \* continuous_capture, switch_camera_modes and save_frames

INSTANCE Health

ASSUME StationRecordAssumption ==
    /\ nobody \notin Pids /\ IsFiniteSet(Pids)
    /\ RestartGrace \in Nat /\ Fresh \in Nat \ {0} /\ ActiveWindow \in Nat
    /\ DetectionGrace \in Nat /\ SwitchGrace \in Nat
    /\ MaxAge \in Nat
    /\ \A t \in {RestartGrace, Fresh, ActiveWindow + 1, DetectionGrace + 1, SwitchGrace} :
         t <= MaxAge
    /\ Located \in BOOLEAN /\ Continuous \in BOOLEAN

VARIABLES
    sun,         \* "day" | "night", as RMS's switch horizon divides them
    switched,    \* the time since the last switch
    session,     \* the newest session directory: when it last changed, and
                 \* whether it holds an FF file
    owner,       \* the main process that writes there
    frame,       \* the newest frame image: its age and its tag
    quiet,       \* history: since output came, or since it has been due
    cloned,      \* history: a second instance began in this session
    pc,          \* "sleep" | "scanning" | "scanned" | "judged"
    stirred,     \* the world has taken its step in this cycle
    found,       \* what collect_process found
    record       \* the record: problems, and whether the camera gets a ping

outputVars == <<sun, switched, session, owner, frame>>
cycleVars  == <<pc, stirred, found, record>>
vars == <<procs, old, outputVars, quiet, cloned, cycleVars>>

NoSession == [touched |-> None, hasFF |-> FALSE]
NoFrame   == [age |-> None, tag |-> "none"]
NoFound   == [alive |-> FALSE, instances |-> 0, age |-> None]
NoRecord  == [problems |-> {}, pinged |-> FALSE]

Aged(n) == IF n = None \/ n = MaxAge THEN n ELSE n + 1

-----------------------------------------------------------------------------

Init ==
    /\ procs = NoProcs /\ old = NoProcs
    /\ sun \in {"day", "night"} /\ switched = MaxAge
    /\ session = NoSession /\ owner = nobody /\ frame = NoFrame
    /\ quiet = 0 /\ cloned = FALSE
    /\ pc = "sleep" /\ stirred = FALSE /\ found = NoFound /\ record = NoRecord

\* The output RMS owes: FF files by night, frames by day if it captures then.
Due == IF sun = "night" THEN "ff" ELSE IF Continuous THEN "frames" ELSE "idle"

-----------------------------------------------------------------------------
(* The world. *)

\* The world moves freely while the monitor sleeps, one step within a cycle.
Moves ==
    /\ pc # "judged"
    /\ pc # "sleep" => ~stirred
    /\ stirred' = (pc # "sleep")
    /\ UNCHANGED <<old, pc, found, record>>

\* An instance that starts by night opens a session directory of its own.
Start(p) ==
    /\ Moves /\ Launch(p)
    /\ IF sun = "night"
       THEN session' = [touched |-> 0, hasFF |-> FALSE] /\ owner' = p
       ELSE UNCHANGED <<session, owner>>
    /\ quiet' = IF Mains = {} THEN 0 ELSE quiet
    /\ cloned' = IF Marked(procs) # {} THEN TRUE
                 ELSE IF sun = "night" THEN FALSE ELSE cloned
    /\ UNCHANGED <<sun, switched, frame>>

Spawn(m, p) ==
    /\ Moves /\ Fork(m, p)
    /\ UNCHANGED <<outputVars, quiet, cloned>>

End(p) ==
    /\ Moves /\ Exit(p)
    /\ UNCHANGED <<outputVars, quiet, cloned>>

\* Output of an instance: an FF file in its own session directory, or a frame
\* where all frames go.
Produce(m) ==
    /\ Moves /\ m \in Mains /\ Due # "idle"
    /\ session' = IF sun = "night" /\ owner = m
                  THEN [touched |-> 0, hasFF |-> TRUE] ELSE session
    /\ frame' = IF Continuous THEN [age |-> 0, tag |-> sun] ELSE frame
    /\ quiet' = 0
    /\ UNCHANGED <<procs, sun, switched, owner, cloned>>

\* Sunrise or sunset; with the night a new session begins.
Switch ==
    /\ Moves /\ switched = MaxAge
    /\ sun' = IF sun = "night" THEN "day" ELSE "night"
    /\ switched' = 0 /\ quiet' = 0
    /\ IF sun = "day" /\ Mains # {}
       THEN /\ \E m \in Mains : owner' = m
            /\ session' = [touched |-> 0, hasFF |-> FALSE]
            /\ cloned' = (Cardinality(Marked(procs)) > 1 /\ Cardinality(Trees(procs)) > 1)
       ELSE UNCHANGED <<owner, session, cloned>>
    /\ UNCHANGED <<procs, frame>>

Tick ==
    /\ pc = "sleep"
    /\ procs' = Older(procs)
    /\ switched' = Aged(switched)
    /\ session' = [session EXCEPT !.touched = Aged(@)]
    /\ frame' = [frame EXCEPT !.age = Aged(@)]
    /\ quiet' = Aged(quiet)
    /\ UNCHANGED <<old, sun, owner, cloned, cycleVars>>

-----------------------------------------------------------------------------
(* The cycle: collect_process, the collectors of the output, evaluate. *)

BeginCycle ==
    /\ pc = "sleep" /\ pc' = "scanning"
    /\ BeginScan
    /\ stirred' = FALSE
    /\ UNCHANGED <<procs, outputVars, quiet, cloned, found, record>>

\* A process that names no configuration on its command line, and whose working
\* directory cannot be read (it has ended, or belongs to another user), is nobody's.
\* One that ends after that is read has no age.
EndScan ==
    /\ pc = "scanning" /\ pc' = "scanned"
    /\ \E late \in SUBSET Changed, blind \in SUBSET Live(old), unread \in BOOLEAN :
         /\ unread => EndsUnread(Roots(Seen(late), blind))
         /\ found' = Collected(Seen(late), blind, unread)
    /\ old' = NoProcs
    /\ UNCHANGED <<procs, outputVars, quiet, cloned, stirred, record>>

\* collect_mode: what the sun and the mode of the station call for.
Expected ==
    IF ~Located THEN "unknown"
    ELSE IF switched < SwitchGrace THEN "transition" ELSE Due

\* collect_capture and collect_frames: files that cannot be listed are not there.
Metrics(readable, detected, wrong) ==
    [camera_standby |-> FALSE,
     capture_alive |-> found.alive, instances |-> found.instances,
     capture_age |-> found.age, data_dir_readable |-> readable,
     expected_output |-> Expected,
     session_age |-> IF readable THEN session.touched ELSE None,
     fits_age |-> IF readable /\ session.hasFF THEN session.touched ELSE None,
     frame_age |-> IF readable THEN frame.age ELSE None,
     frame_mode |-> IF readable THEN frame.tag ELSE "none",
     detected |-> detected, wrong |-> wrong]

\* A station whose output is stalled gets a ping; here its camera answers, and
\* evaluate judges the metrics (see StationCycle for a camera that does not).
Judge ==
    /\ pc = "scanned" /\ pc' = "judged"
    /\ \E readable, detected \in BOOLEAN, wrong \in {{}, PlainProblems} :
         LET m == Metrics(readable, detected, wrong)
         IN  record' = [problems |-> Keys(Flagged(m)), pinged |-> OutputStalled(m)]
    /\ found' = NoFound
    /\ UNCHANGED <<procs, old, outputVars, quiet, cloned, stirred>>

Sleep ==
    /\ pc = "judged" /\ pc' = "sleep"
    /\ record' = NoRecord /\ stirred' = FALSE
    /\ UNCHANGED <<procs, old, outputVars, quiet, cloned, found>>

Next ==
    \/ \E p \in Pids : Start(p) \/ End(p) \/ Produce(p)
    \/ \E m, p \in Pids : Spawn(m, p)
    \/ Switch \/ Tick
    \/ BeginCycle \/ EndScan \/ Judge \/ Sleep

Spec == Init /\ [][Next]_vars

-----------------------------------------------------------------------------
(* Properties. *)

\* Every variable has its type, and a record that names a root cause names nothing that
\* follows from it: of a capture that is down, or whose directory is closed to us, nothing
\* is said of its output.
TypeOK ==
    /\ procs \in [Pids -> Process] /\ old \in [Pids -> Process]
    /\ sun \in {"day", "night"} /\ switched \in 0..MaxAge
    /\ session \in [touched: -1..MaxAge, hasFF: BOOLEAN]
    /\ owner \in Pids \cup {nobody}
    /\ frame \in [age: -1..MaxAge, tag: {"none", "day", "night"}]
    /\ quiet \in 0..MaxAge /\ cloned \in BOOLEAN
    /\ pc \in {"sleep", "scanning", "scanned", "judged"} /\ stirred \in BOOLEAN
    /\ found \in [alive: BOOLEAN, instances: Nat, age: -1..MaxAge]
    /\ record.pinged \in BOOLEAN
    /\ \A cause \in {"capture_down", "data_unreadable"} :
          cause \in record.problems => record.problems \subseteq {cause, "capture_duplicate"}

\* A record that does not say that capture is down.
Judged == pc = "judged" /\ "capture_down" \notin record.problems

\* A stall is only reported of output that really stopped: none of any instance for
\* output_fresh_error_s, since it became due or capture (re)started.  (After a second
\* instance has run, the newest session directory may not be the one written to; and
\* an instance that ends while it is looked at has no age, hence no grace.)
StalledIsReal ==
    pc = "judged" /\ "capture_stalled" \in record.problems /\ ~cloned
      => quiet >= Fresh \/ (stirred /\ Mains = {})

\* Output that is due has stopped, or never came, under a capture that has settled.
DeadOutput ==
    /\ Expected \in {"ff", "frames"} /\ quiet >= Fresh
    /\ \E m \in Mains : procs[m].age >= RestartGrace

\* The output of a settled capture that stopped, or never came, always has the camera
\* pinged, whatever is in the session directory, if it can be listed at all.
DeadOutputIsPinged ==
    Judged /\ ~stirred /\ ~cloned /\ DeadOutput => record.pinged

\* Duplicate instances are only reported when two trees of capture processes run at
\* once, however many workers there are and whoever's directories cannot be read.
DuplicateIsReal ==
    pc = "judged" /\ ~stirred /\ "capture_duplicate" \in record.problems
      => Cardinality(Trees(procs)) >= 2

-----------------------------------------------------------------------------
(* The inductive invariant behind StalledIsReal and DeadOutputIsPinged. *)

\* What a process is, and who its parent may be.
Parented ==
    \A p \in Live(procs) :
        /\ procs[p].kind # "none"
        /\ procs[p].parent \in Mains \cup {nobody}
        /\ p \in Mains => procs[p].parent = nobody

\* Unless a second instance has run, all that is marked belongs to the one main process
\* there is, and by night that is the owner of the session.
OneCapture ==
    ~cloned => \A m \in Mains :
        /\ \A p \in Marked(procs) : p = m \/ procs[p].parent = m
        /\ sun = "night" => owner = m

\* Something the collectors look at is as young as `quiet`.
SomethingIsYoung ==
    \/ switched <= quiet
    \/ sun = "night" /\ session.touched <= quiet
    \/ sun = "day" /\ frame.age <= quiet

YoungCapture == \A p \in Marked(procs) : procs[p].age <= quiet

Young == ~cloned => SomethingIsYoung \/ YoungCapture

\* Nothing they look at is younger.
NothingIsYounger ==
    /\ session.hasFF => session.touched >= quiet
    /\ frame.age # None => frame.age >= quiet
    /\ ~cloned /\ session.touched # None => session.touched >= quiet

\* The listed processes are still what they were, but for one that may have ended;
\* when it was the root of its tree no main process is left.
ListIsTrue ==
    pc = "scanning" =>
        /\ ~stirred => old = procs
        /\ \A p \in Live(old) \cap Live(procs) : procs[p].kind = old[p].kind
        /\ ~cloned => \A r \in Marked(old) \ Live(procs) :
              old[r].parent \notin Marked(old) \cap Live(procs) => Mains = {}

\* What was found is as old as the capture, unless that has just ended.
FoundIsTrue ==
    pc = "scanned" /\ found.alive =>
        /\ ~stirred => Marked(procs) # {}
        /\ found.age = None => stirred /\ (cloned \/ Mains = {})
        /\ ~cloned /\ found.age # None => SomethingIsYoung \/ found.age <= quiet
        /\ ~cloned /\ ~stirred => \A m \in Mains : found.age >= procs[m].age

StallInv ==
    /\ TypeOK /\ Parented /\ OneCapture
    /\ Young /\ NothingIsYounger /\ ListIsTrue /\ FoundIsTrue

\* The sun is known, and the graces last as long as output may take.
Timely == Located /\ Fresh <= SwitchGrace /\ Fresh <= RestartGrace

=============================================================================
