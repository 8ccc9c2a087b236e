-------------------------- MODULE StationRecordProofs --------------------------
(***************************************************************************)
(* Three properties of the record for any number of processes and all      *)
(* thresholds: duplicates are two trees of processes (ScanInv), a stall is *)
(* one, and dead output has its camera pinged (StallInv of StationRecord,  *)
(* which says what of the world is as young as the silence, and that the   *)
(* collectors look at just that).                                          *)
(***************************************************************************)
EXTENDS StationRecord, FiniteSetTheorems, WellFoundedInduction, TLAPS

-----------------------------------------------------------------------------
(* Ages, trees, processes. *)

\* A set of ages that is not empty has a greatest one, and Max is it.
LEMMA MaxOfAges ==
    ASSUME NEW S, S \subseteq 0..MaxAge, S # {}
    PROVE  Max(S) \in S /\ \A a \in S : a <= Max(S)
<1>0. MaxAge \in Nat
    BY StationRecordAssumption
<1> DEFINE R == {ss \in Nat \X Nat : ss[1] < ss[2]}
           T == {MaxAge - a : a \in S}
<1>1. T \subseteq Nat /\ T # {}
    BY <1>0
<1>2. IsWellFoundedOn(R, Nat)
    BY NatLessThanWellFounded, Zenon DEF OpToRel
<1>3. PICK t \in T : \A u \in T : <<u, t>> \notin R
    <2> HIDE DEF R, T
    <2> QED BY <1>1, <1>2, WFMin
<1>4. PICK s \in S : t = MaxAge - s
    BY <1>3
<1>5. \A a \in S : s >= a
    <2> SUFFICES ASSUME NEW a \in S PROVE s >= a
        OBVIOUS
    <2>1. MaxAge - a \in T /\ MaxAge - a \in Nat /\ t \in Nat
        BY <1>1, <1>3
    <2>2. ~(MaxAge - a < t)
        BY <1>3, <2>1
    <2> QED BY <1>0, <1>4, <2>1, <2>2
<1>6. Max(S) \in S /\ \A a \in S : Max(S) >= a
    BY <1>5 DEF Max
<1> QED BY <1>0, <1>6

\* The age found is that of the oldest root still alive, if there is one.
LEMMA MainAgeIsMax ==
    ASSUME procs \in [Pids -> Process], NEW roots
    PROVE  /\ MainAge(roots) \in -1..MaxAge
           /\ MainAge(roots) = None <=> roots \cap Live(procs) = {}
           /\ MainAge(roots) # None =>
                \E p \in roots \cap Live(procs) : MainAge(roots) = procs[p].age
           /\ \A p \in roots \cap Live(procs) : procs[p].age <= MainAge(roots)
<1> DEFINE ages == {procs[p].age : p \in roots \cap Live(procs)}
<1>0. MaxAge \in Nat /\ None = -1
    BY StationRecordAssumption DEF None
<1>1. ages \subseteq 0..MaxAge
    BY DEF Live, Process
<1>m. MainAge(roots) = IF ages = {} THEN -1 ELSE Max(ages)
    BY DEF MainAge
<1>2. CASE ages = {}
    <2>1. MainAge(roots) = -1
        <3> HIDE DEF ages
        <3> QED BY <1>m, <1>2
    <2>2. roots \cap Live(procs) = {}
        BY <1>2
    <2> QED BY <1>0, <2>1, <2>2
<1>3. CASE ages # {}
    <2>1. MainAge(roots) = Max(ages)
        <3> HIDE DEF ages
        <3> QED BY <1>m, <1>3
    <2>2. Max(ages) \in ages /\ \A a \in ages : a <= Max(ages)
        <3> HIDE DEF ages
        <3> QED BY <1>1, <1>3, MaxOfAges
    <2>3. MainAge(roots) \in 0..MaxAge
        BY <1>1, <2>1, <2>2
    <2>4. roots \cap Live(procs) # {} /\ MainAge(roots) # None
        BY <1>0, <1>3, <2>3
    <2>5. \E p \in roots \cap Live(procs) : MainAge(roots) = procs[p].age
        BY <2>1, <2>2
    <2>6. \A p \in roots \cap Live(procs) : procs[p].age <= MainAge(roots)
        BY <2>1, <2>2
    <2> QED BY <1>0, <2>3, <2>4, <2>5, <2>6
<1> QED BY <1>2, <1>3

\* Any set of processes is finite, and so is what is counted of it.
LEMMA TreesAreFinite ==
    ASSUME NEW table PROVE IsFiniteSet(Trees(table)) /\ Cardinality(Trees(table)) \in Nat
<1>1. Trees(table) \subseteq Pids
    BY DEF Trees, Marked, Live
<1> QED BY <1>1, StationRecordAssumption, FS_Subset, FS_CardinalityType

\* An instance is the root of a tree, whichever process's configuration cannot be read:
\* a directory that cannot be read leaves trees out and makes none.
LEMMA InstancesAreTrees ==
    ASSUME NEW table, NEW blind, NEW unread
    PROVE  /\ Collected(table, blind, unread).instances \in Nat
           /\ Collected(table, blind, unread).instances <= Cardinality(Trees(table))
<1>1. Roots(table, blind) \subseteq Trees(table)
    BY DEF Roots, Trees
<1>2. /\ Cardinality(Roots(table, blind)) \in Nat
      /\ Cardinality(Roots(table, blind)) <= Cardinality(Trees(table))
    BY <1>1, TreesAreFinite, FS_Subset, FS_CardinalityType
<1> QED BY <1>2 DEF Collected

\* Steps keep the table a table.
LEMMA NextProcs ==
    ASSUME procs \in [Pids -> Process], [Next]_vars PROVE procs' \in [Pids -> Process]
<1>a. MaxAge \in Nat
    BY StationRecordAssumption
<1>1. ASSUME NEW p \in Pids, Start(p) PROVE procs' \in [Pids -> Process]
    BY <1>a, <1>1 DEF Start, Launch, Process, Kind
<1>2. ASSUME NEW p \in Pids, End(p) PROVE procs' \in [Pids -> Process]
    <2>1. Free \in Process
        BY <1>a DEF Free, Process, Kind
    <2>2. \A q \in Pids : [procs[q] EXCEPT !.parent = nobody] \in Process
        BY <1>a DEF Process
    <2> QED BY <1>2, <2>1, <2>2 DEF End, Exit
<1>3. ASSUME NEW m \in Pids, NEW p \in Pids, Spawn(m, p) PROVE procs' \in [Pids -> Process]
    BY <1>a, <1>3 DEF Spawn, Fork, Process, Kind
<1>4. CASE Tick
    <2>1. \A q \in Pids : procs[q].age # MaxAge
              => [procs[q] EXCEPT !.age = @ + 1] \in Process
        BY <1>a DEF Process
    <2> QED BY <1>4, <2>1 DEF Tick, Older
<1>5. CASE UNCHANGED procs
    BY <1>5
<1> QED
    BY <1>1, <1>2, <1>3, <1>4, <1>5
    DEF Next, Produce, Switch, BeginCycle, EndScan, Judge, Sleep, vars

-----------------------------------------------------------------------------
(* Types. *)

\* An age that was never read stays so; one that was stays a number.
LEMMA AgedType ==
    ASSUME NEW n \in -1..MaxAge
    PROVE  Aged(n) \in -1..MaxAge /\ (n # None => Aged(n) \in 0..MaxAge)
BY StationRecordAssumption DEF Aged, None

\* evaluate's early returns, after flag() has left out what is disabled.
LEMMA RootCauses ==
    ASSUME NEW readable, NEW detected, NEW wrong \in {{}, PlainProblems},
           NEW cause \in {"capture_down", "data_unreadable"},
           cause \in Keys(Flagged(Metrics(readable, detected, wrong)))
    PROVE  Keys(Flagged(Metrics(readable, detected, wrong))) \subseteq {cause, "capture_duplicate"}
<1> DEFINE m == Metrics(readable, detected, wrong)
<1>1. m.wrong = wrong /\ m.camera_standby = FALSE
    BY DEF Metrics
<1> HIDE DEF m
<1>2. PICK f \in Problems(m) : f[1] = cause
    BY DEF m, Keys, Flagged
<1>3. f \notin wrong
    BY <1>2 DEF PlainProblems
<1>4. \A g \in Problems(m) : g[1] \in {cause, "capture_duplicate"}
    BY <1>1, <1>2, <1>3 DEF Problems, When
<1> QED BY <1>4 DEF m, Keys, Flagged

LEMMA TypeInit == Init => TypeOK
<1> SUFFICES ASSUME Init PROVE TypeOK
    OBVIOUS
<1>1. MaxAge \in Nat /\ None = -1
    BY StationRecordAssumption DEF None
<1>2. NoProcs \in [Pids -> Process]
    BY <1>1 DEF NoProcs, Free, Process, Kind
<1>3. /\ NoSession \in [touched: -1..MaxAge, hasFF: BOOLEAN]
      /\ NoFrame \in [age: -1..MaxAge, tag: {"none", "day", "night"}]
      /\ NoFound \in [alive: BOOLEAN, instances: Nat, age: -1..MaxAge]
      /\ NoRecord.pinged \in BOOLEAN
    BY <1>1 DEF NoSession, NoFrame, NoFound, NoRecord
<1>4. cloned \in BOOLEAN /\ stirred \in BOOLEAN
    BY DEF Init
<1> QED
    BY <1>1, <1>2, <1>3, <1>4 DEF Init, TypeOK, NoRecord, NoRecord

LEMMA TypeStep ==
    ASSUME TypeOK, [Next]_vars PROVE TypeOK'
<1>0. MaxAge \in Nat /\ None = -1
    BY StationRecordAssumption DEF None
<1>p. procs' \in [Pids -> Process]
    BY NextProcs DEF TypeOK
<1>1. ASSUME NEW p \in Pids, Start(p) PROVE TypeOK'
    <2>1. [touched |-> 0, hasFF |-> FALSE] \in [touched: -1..MaxAge, hasFF: BOOLEAN]
        BY <1>0
    <2>2. session' \in [touched: -1..MaxAge, hasFF: BOOLEAN]
        BY <1>1, <2>1 DEF Start, TypeOK
    <2>3. owner' \in Pids \cup {nobody} /\ quiet' \in 0..MaxAge
        BY <1>0, <1>1 DEF Start, TypeOK
    <2>4. cloned' \in BOOLEAN /\ stirred' \in BOOLEAN
        BY <1>1 DEF Start, Moves, TypeOK
    <2> QED BY <1>p, <1>1, <2>2, <2>3, <2>4 DEF Start, Moves, TypeOK
<1>2. ASSUME NEW p \in Pids, End(p) PROVE TypeOK'
    BY <1>0, <1>p, <1>2 DEF End, Moves, TypeOK, outputVars
<1>3. ASSUME NEW m \in Pids, NEW p \in Pids, Spawn(m, p) PROVE TypeOK'
    BY <1>0, <1>p, <1>3 DEF Spawn, Moves, TypeOK, outputVars
<1>4. ASSUME NEW m \in Pids, Produce(m) PROVE TypeOK'
    BY <1>0, <1>p, <1>4 DEF Produce, Moves, TypeOK
<1>5. CASE Switch
    <2>1. [touched |-> 0, hasFF |-> FALSE] \in [touched: -1..MaxAge, hasFF: BOOLEAN]
        BY <1>0
    <2>2. session' \in [touched: -1..MaxAge, hasFF: BOOLEAN]
        BY <1>5, <2>1 DEF Switch, TypeOK
    <2>3. owner' \in Pids \cup {nobody}
        BY <1>5 DEF Switch, TypeOK, Mains
    <2>4. cloned' \in BOOLEAN /\ stirred' \in BOOLEAN
        BY <1>5 DEF Switch, Moves, TypeOK
    <2>5. quiet' \in 0..MaxAge /\ switched' \in 0..MaxAge
        BY <1>0, <1>5 DEF Switch
    <2> QED BY <1>p, <1>5, <2>2, <2>3, <2>4, <2>5 DEF Switch, Moves, TypeOK
<1>6. CASE Tick
    <2>1. switched' \in 0..MaxAge /\ quiet' \in 0..MaxAge
        BY <1>0, <1>6, AgedType DEF Tick, TypeOK
    <2>2. session' \in [touched: -1..MaxAge, hasFF: BOOLEAN]
        BY <1>6, AgedType DEF Tick, TypeOK
    <2>3. frame' \in [age: -1..MaxAge, tag: {"none", "day", "night"}]
        BY <1>6, AgedType DEF Tick, TypeOK
    <2> QED BY <1>p, <1>6, <2>1, <2>2, <2>3 DEF Tick, TypeOK, cycleVars
<1>7. CASE BeginCycle
    BY <1>7 DEF BeginCycle, BeginScan, TypeOK, outputVars
<1>8. CASE EndScan
    <2>1. PICK late, blind, unread : found' = Collected(Seen(late), blind, unread)
        BY <1>8 DEF EndScan
    <2>2. found' \in [alive: BOOLEAN, instances: Nat, age: -1..MaxAge]
        <3>1. MainAge(Roots(Seen(late), blind)) \in -1..MaxAge
            BY MainAgeIsMax DEF TypeOK
        <3>2. (IF unread THEN -1 ELSE MainAge(Roots(Seen(late), blind))) \in -1..MaxAge
            BY <1>0, <3>1
        <3>3. Collected(Seen(late), blind, unread).instances \in Nat
            BY InstancesAreTrees
        <3> QED BY <2>1, <3>2, <3>3 DEF Collected
    <2>3. old' \in [Pids -> Process]
        BY <1>0, <1>8 DEF EndScan, NoProcs, Free, Process, Kind
    <2> QED BY <1>8, <2>2, <2>3 DEF EndScan, TypeOK, outputVars
<1>9. CASE Judge
    <2>1. record'.pinged \in BOOLEAN
        BY <1>9 DEF Judge, OutputStalled
    <2>2. found' \in [alive: BOOLEAN, instances: Nat, age: -1..MaxAge]
        BY <1>0, <1>9 DEF Judge, NoFound
    <2>3. \A cause \in {"capture_down", "data_unreadable"} : cause \in record'.problems =>
              record'.problems \subseteq {cause, "capture_duplicate"}
        BY <1>9, RootCauses DEF Judge
    <2> QED BY <1>9, <2>1, <2>2, <2>3 DEF Judge, TypeOK, outputVars
<1>10. CASE Sleep
    BY <1>10 DEF Sleep, TypeOK, outputVars, NoRecord
<1>11. CASE UNCHANGED vars
    BY <1>11 DEF vars, TypeOK, outputVars, cycleVars
<1> QED
    BY <1>1, <1>2, <1>3, <1>4, <1>5, <1>6, <1>7, <1>8, <1>9, <1>10, <1>11 DEF Next

\* Processes, ages, what was found and what is recorded keep their types.
THEOREM TypeCorrect == Spec => []TypeOK
BY TypeInit, TypeStep, PTL DEF Spec

-----------------------------------------------------------------------------
(* What the steps of the processes do to the sets the scan looks at. *)

\* A new instance: one more live, main and marked process.
LEMMA Launched ==
    ASSUME TypeOK, NEW p \in Pids, Launch(p)
    PROVE  /\ p \notin Live(procs) /\ p \notin Mains
           /\ Live(procs)' = Live(procs) \cup {p} /\ Mains' = Mains \cup {p}
           /\ Marked(procs)' = Marked(procs) \cup {p}
           /\ procs'[p] = [kind |-> "main", parent |-> nobody, age |-> 0]
           /\ \A q \in Pids \ {p} : procs'[q] = procs[q]
<1>1. /\ procs[p] = Free
      /\ procs'[p] = [kind |-> "main", parent |-> nobody, age |-> 0]
      /\ \A q \in Pids \ {p} : procs'[q] = procs[q]
    BY DEF Launch, TypeOK
<1>2. procs[p].kind = "none" /\ procs'[p].kind = "main" /\ procs'[p] # Free
    BY <1>1 DEF Free
<1> QED BY <1>1, <1>2 DEF Live, Mains, Marked

\* A new child: it is no main process, and its parent is one.
LEMMA Forked ==
    ASSUME TypeOK, NEW m \in Pids, NEW p \in Pids, Fork(m, p)
    PROVE  /\ m \in Mains /\ p \notin Live(procs)
           /\ Live(procs)' = Live(procs) \cup {p} /\ Mains' = Mains
           /\ Marked(procs)' \subseteq Marked(procs) \cup {p}
           /\ Marked(procs) \subseteq Marked(procs)'
           /\ procs'[p].kind \in {"worker", "helper"} /\ procs'[p].parent = m
           /\ procs'[p].age = 0
           /\ \A q \in Pids \ {p} : procs'[q] = procs[q]
<1>1. PICK kind \in Kind \ {"main"} :
          procs' = [procs EXCEPT ![p] = [kind |-> kind, parent |-> m, age |-> 0]]
    BY DEF Fork
<1>2. /\ m \in Mains /\ procs[p] = Free
      /\ procs'[p] = [kind |-> kind, parent |-> m, age |-> 0]
      /\ \A q \in Pids \ {p} : procs'[q] = procs[q]
    BY <1>1 DEF Fork, TypeOK
<1>3. /\ procs[p].kind = "none" /\ procs'[p].kind \in {"worker", "helper"}
      /\ procs'[p] # Free
    BY <1>2 DEF Free, Kind
<1> QED BY <1>2, <1>3 DEF Live, Mains, Marked

\* One process less, and its children belong to nobody.
LEMMA Exited ==
    ASSUME TypeOK, Parented, NEW p \in Pids, Exit(p)
    PROVE  /\ p \in Live(procs)
           /\ Live(procs)' = Live(procs) \ {p} /\ Mains' = Mains \ {p}
           /\ Marked(procs)' = Marked(procs) \ {p}
           /\ \A q \in Pids \ {p} :
                 /\ procs'[q].kind = procs[q].kind /\ procs'[q].age = procs[q].age
                 /\ procs'[q].parent = IF procs[q].parent = p THEN nobody
                                       ELSE procs[q].parent
<1>0. Free.kind = "none" /\ Free.parent = nobody /\ nobody # p
    BY StationRecordAssumption DEF Free
<1>1. procs[p] # Free /\ procs'[p] = Free
    BY DEF Exit
<1>2. \A q \in Pids \ {p} :
          procs'[q] = IF procs[q].parent = p
                      THEN [procs[q] EXCEPT !.parent = nobody] ELSE procs[q]
    BY DEF Exit
<1>3. \A q \in Pids \ {p} :
          /\ procs'[q].kind = procs[q].kind /\ procs'[q].age = procs[q].age
          /\ procs'[q].parent = IF procs[q].parent = p THEN nobody
                                ELSE procs[q].parent
    <2> TAKE q \in Pids \ {p}
    <2>1. procs[q] \in Process
        BY DEF TypeOK
    <2>2. CASE procs[q].parent = p
        <3>1. procs'[q] = [procs[q] EXCEPT !.parent = nobody]
            BY <1>2, <2>2
        <3> QED BY <2>1, <2>2, <3>1 DEF Process
    <2>3. CASE procs[q].parent # p
        BY <1>2, <2>3
    <2> QED BY <2>2, <2>3
<1>4. \A q \in Pids \ {p} : procs'[q] = Free <=> procs[q] = Free
    <2> TAKE q \in Pids \ {p}
    <2>1. procs[q] = Free => procs'[q] = procs[q]
        BY <1>0, <1>2
    <2>2. procs'[q] = Free => procs[q].kind = "none"
        BY <1>0, <1>3
    <2>3. procs[q] # Free => procs[q].kind # "none"
        BY DEF Parented, Live
    <2> QED BY <2>1, <2>2, <2>3
<1> QED BY <1>0, <1>1, <1>3, <1>4 DEF Live, Mains, Marked

\* Only ages change.
LEMMA Ticked ==
    ASSUME TypeOK, Parented, procs' = Older(procs)
    PROVE  /\ Live(procs)' = Live(procs) /\ Mains' = Mains
           /\ Marked(procs)' = Marked(procs)
           /\ \A q \in Pids : /\ procs'[q].kind = procs[q].kind
                              /\ procs'[q].parent = procs[q].parent
           /\ \A q \in Live(procs) : procs'[q].age = Aged(procs[q].age)
<1>0. Free.kind = "none" /\ None = -1 /\ MaxAge \in Nat
    BY StationRecordAssumption DEF Free, None
<1>1. \A q \in Pids :
          procs'[q] = IF procs[q] = Free \/ procs[q].age = MaxAge THEN procs[q]
                      ELSE [procs[q] EXCEPT !.age = procs[q].age + 1]
    BY DEF Older
<1>2. \A q \in Pids : /\ procs'[q].kind = procs[q].kind
                      /\ procs'[q].parent = procs[q].parent
                      /\ procs[q] # Free => procs'[q].age = Aged(procs[q].age)
    <2> TAKE q \in Pids
    <2>1. procs[q] \in Process /\ procs[q].age \in 0..MaxAge
        BY DEF TypeOK, Process
    <2>2. CASE procs[q] = Free \/ procs[q].age = MaxAge
        <3>1. procs'[q] = procs[q]
            BY <1>1, <2>2
        <3> QED BY <2>2, <3>1 DEF Aged
    <2>3. CASE ~(procs[q] = Free \/ procs[q].age = MaxAge)
        <3>1. procs'[q] = [procs[q] EXCEPT !.age = procs[q].age + 1]
            BY <1>1, <2>3
        <3>2. Aged(procs[q].age) = procs[q].age + 1
            BY <1>0, <2>1, <2>3 DEF Aged
        <3> QED BY <2>1, <3>1, <3>2 DEF Process
    <2> QED BY <2>2, <2>3
<1>3. \A q \in Pids : procs'[q] = Free <=> procs[q] = Free
    <2> TAKE q \in Pids
    <2>1. procs[q] = Free => procs'[q] = Free
        BY <1>1
    <2>2. procs[q] # Free => procs[q].kind # "none"
        BY DEF Parented, Live
    <2> QED BY <1>0, <1>2, <2>1, <2>2
<1>4. Live(procs)' = Live(procs) /\ Mains' = Mains
    BY <1>2, <1>3 DEF Live, Mains
<1>5. Marked(procs)' = Marked(procs)
    BY <1>2, <1>4 DEF Marked, Live
<1> QED BY <1>2, <1>4, <1>5 DEF Live

-----------------------------------------------------------------------------
(* Duplicate instances. *)

\* What the scan is about to count, has counted and has reported is backed by the
\* processes there are, unless they have changed since the cycle began.
ScanInv ==
    /\ pc = "scanning" /\ ~stirred => old = procs
    /\ pc = "scanned" => found.instances \in Nat
    /\ pc = "scanned" /\ ~stirred => found.instances <= Cardinality(Trees(procs))
    /\ DuplicateIsReal

\* A scan of processes that stay as they are sees them as they are.
LEMMA StillScan ==
    ASSUME old = procs, procs \in [Pids -> Process], NEW late PROVE Seen(late) = procs
BY DEF Seen

\* Only more than one instance is called a duplicate.
LEMMA DuplicatesAreCounted ==
    ASSUME NEW readable, NEW detected, NEW wrong \in {{}, PlainProblems},
           "capture_duplicate" \in Keys(Flagged(Metrics(readable, detected, wrong)))
    PROVE  found.instances > 1
<1> DEFINE m == Metrics(readable, detected, wrong)
<1>1. m.instances = found.instances
    BY DEF Metrics
<1> HIDE DEF m
<1>2. PICK f \in Problems(m) : f[1] = "capture_duplicate"
    BY DEF m, Keys, Flagged
<1>3. f \in When(m.instances > 1, "capture_duplicate", "error")
    <2>1. f \notin wrong
        BY <1>2 DEF PlainProblems
    <2>2. m.wrong = wrong
        BY DEF m, Metrics
    <2> QED BY <1>2, <2>1, <2>2 DEF Problems, When
<1> QED BY <1>1, <1>3 DEF When

LEMMA InitScanInv == Init => procs \in [Pids -> Process] /\ ScanInv
<1> SUFFICES ASSUME Init PROVE procs \in [Pids -> Process] /\ ScanInv
    OBVIOUS
<1>1. procs \in [Pids -> Process]
    BY StationRecordAssumption DEF Init, NoProcs, Free, Process, Kind
<1> QED BY <1>1 DEF Init, ScanInv, DuplicateIsReal

LEMMA NextScanInv ==
    ASSUME procs \in [Pids -> Process], ScanInv, [Next]_vars PROVE ScanInv'
\* A step of the world within a cycle stirs it; outside of one nothing is claimed.
<1>1. ASSUME Moves PROVE ScanInv'
    BY <1>1 DEF Moves, ScanInv, DuplicateIsReal
<1>2. CASE Tick
    BY <1>2 DEF Tick, cycleVars, ScanInv, DuplicateIsReal
<1>3. CASE BeginCycle
    BY <1>3 DEF BeginCycle, BeginScan, ScanInv, DuplicateIsReal
<1>4. CASE EndScan
    <2>1. PICK late, blind, unread : found' = Collected(Seen(late), blind, unread)
        BY <1>4 DEF EndScan
    <2>2. found'.instances \in Nat
        BY <2>1, InstancesAreTrees
    <2>3. ASSUME ~stirred PROVE found'.instances <= Cardinality(Trees(procs))
        <3>1. Seen(late) = procs
            BY <1>4, <2>3, StillScan DEF EndScan, ScanInv
        <3> QED BY <2>1, <3>1, InstancesAreTrees
    <2> QED BY <1>4, <2>2, <2>3 DEF EndScan, ScanInv, DuplicateIsReal
<1>5. CASE Judge
    <2>1. PICK readable \in BOOLEAN, detected \in BOOLEAN, wrong \in {{}, PlainProblems} :
              record'.problems = Keys(Flagged(Metrics(readable, detected, wrong)))
        BY <1>5 DEF Judge
    <2>2. "capture_duplicate" \in record'.problems => found.instances > 1
        BY <2>1, DuplicatesAreCounted
    <2>3. ~stirred /\ "capture_duplicate" \in record'.problems
            => Cardinality(Trees(procs)) >= 2
        BY <1>5, <2>2, TreesAreFinite DEF Judge, ScanInv
    <2> QED BY <1>5, <2>3 DEF Judge, ScanInv, DuplicateIsReal
<1>6. CASE Sleep
    BY <1>6 DEF Sleep, ScanInv, DuplicateIsReal
<1>7. CASE UNCHANGED vars
    BY <1>7 DEF vars, cycleVars, ScanInv, DuplicateIsReal
<1> QED
    BY <1>1, <1>2, <1>3, <1>4, <1>5, <1>6, <1>7
    DEF Next, Start, End, Spawn, Produce, Switch

\* However many processes there are, and whatever starts, forks, ends or cannot be
\* read while the scan goes on: a duplicate that is reported of processes which have
\* not changed since is two trees of them.
THEOREM DuplicatesAreReal == Spec => []DuplicateIsReal
<1>1. ScanInv => DuplicateIsReal
    BY DEF ScanInv
<1> DEFINE Inv == procs \in [Pids -> Process] /\ ScanInv
<1>2. Init => Inv
    BY InitScanInv
<1>3. Inv /\ [Next]_vars => Inv'
    BY NextProcs, NextScanInv
<1> QED BY <1>1, <1>2, <1>3, PTL DEF Spec

-----------------------------------------------------------------------------
(* The parts of StallInv, one after the other. *)

\* A main process is marked and the root of a tree.
LEMMA MainsAreMarked ==
    ASSUME TypeOK, Parented
    PROVE  /\ Mains \subseteq Marked(procs) /\ Mains \subseteq Trees(procs)
           /\ Marked(procs) \subseteq Live(procs) /\ nobody \notin Marked(procs)
<1>1. Mains \subseteq Live(procs)
    BY DEF Mains, Live, Free
<1>2. Mains \subseteq Marked(procs)
    BY <1>1 DEF Mains, Marked
<1>3. nobody \notin Marked(procs) /\ Marked(procs) \subseteq Live(procs)
    BY StationRecordAssumption DEF Marked, Live
<1> QED BY <1>1, <1>2, <1>3 DEF Parented, Trees

\* Main processes have no parent, the others a main process or nobody.
LEMMA ParentedStep ==
    ASSUME TypeOK, Parented, [Next]_vars PROVE Parented'
<1>1. ASSUME NEW p \in Pids, Start(p) PROVE Parented'
    BY <1>1, Launched DEF Start, Parented, Live
<1>2. ASSUME NEW p \in Pids, End(p) PROVE Parented'
    BY <1>2, Exited DEF End, Parented, Live
<1>3. ASSUME NEW m \in Pids, NEW p \in Pids, Spawn(m, p) PROVE Parented'
    <2>1. p \notin Mains /\ nobody \notin Mains
        BY <1>3, Forked, StationRecordAssumption DEF Spawn, Mains, Live, Free
    <2> QED BY <1>3, <2>1, Forked DEF Spawn, Parented, Live
<1>4. CASE Tick
    BY <1>4, Ticked DEF Tick, Parented, Live
<1>5. CASE UNCHANGED procs
    BY <1>5 DEF Parented, Live, Mains
<1> QED
    BY <1>1, <1>2, <1>3, <1>4, <1>5
    DEF Next, Produce, Switch, BeginCycle, EndScan, Judge, Sleep, vars

\* What is not more than one element is one.
LEMMA AtMostOne ==
    ASSUME NEW S, IsFiniteSet(S), ~(Cardinality(S) > 1), NEW x \in S, NEW y \in S
    PROVE  x = y
<1> SUFFICES ASSUME x # y PROVE FALSE
    OBVIOUS
<1>1. Cardinality({x}) = 1 /\ IsFiniteSet({x})
    BY FS_Singleton
<1>2. Cardinality({x} \cup {y}) = 2 /\ IsFiniteSet({x} \cup {y})
    <2>1. /\ IsFiniteSet({x} \cup {y})
          /\ Cardinality({x} \cup {y}) = IF y \in {x} THEN Cardinality({x})
                                        ELSE Cardinality({x}) + 1
        BY <1>1, FS_AddElement, Zenon
    <2> QED BY <1>1, <2>1
<1>3. Cardinality({x} \cup {y}) <= Cardinality(S) /\ Cardinality(S) \in Nat
    BY FS_Subset, FS_CardinalityType
<1> QED BY <1>2, <1>3

\* With one process marked, or one tree, there is one main process, and all is its.
LEMMA OneTree ==
    ASSUME TypeOK, Parented, NEW m \in Mains, NEW p \in Marked(procs),
           ~(Cardinality(Marked(procs)) > 1 /\ Cardinality(Trees(procs)) > 1)
    PROVE  p = m \/ procs[p].parent = m
<1>1. IsFiniteSet(Marked(procs)) /\ IsFiniteSet(Trees(procs))
    <2>1. Marked(procs) \subseteq Pids /\ Trees(procs) \subseteq Pids
        BY DEF Marked, Trees, Live
    <2> QED BY <2>1, StationRecordAssumption, FS_Subset
<1>2. m \in Marked(procs) /\ m \in Trees(procs)
    BY MainsAreMarked
<1>3. CASE ~(Cardinality(Marked(procs)) > 1)
    BY <1>1, <1>2, <1>3, AtMostOne
<1>4. CASE ~(Cardinality(Trees(procs)) > 1)
    <2>1. \A t \in Trees(procs) : t = m
        BY <1>1, <1>2, <1>4, AtMostOne
    <2>2. p \in Trees(procs) \/ procs[p].parent \in Mains
        <3>1. procs[p].parent \in Mains \cup {nobody}
            BY MainsAreMarked DEF Parented
        <3> QED BY <3>1, MainsAreMarked DEF Trees
    <2> QED BY <2>1, <2>2, MainsAreMarked
<1> QED BY <1>3, <1>4

\* A capture that is alone stays the only one, or `cloned` says it is not.
LEMMA OneCaptureStep ==
    ASSUME TypeOK, Parented, OneCapture, [Next]_vars PROVE OneCapture'
<1>1. ASSUME NEW p \in Pids, Start(p) PROVE OneCapture'
    <2> SUFFICES ASSUME ~cloned' PROVE OneCapture'
        BY DEF OneCapture
    <2>1. Marked(procs) = {} /\ Mains = {}
        BY <1>1, MainsAreMarked DEF Start
    <2>2. Mains' = {p} /\ Marked(procs)' = {p}
        BY <1>1, <2>1, Launched DEF Start
    <2>3. sun' = "night" => owner' = p
        BY <1>1 DEF Start
    <2> QED BY <2>2, <2>3 DEF OneCapture
<1>2. ASSUME NEW p \in Pids, End(p) PROVE OneCapture'
    <2>1. /\ cloned' = cloned /\ sun' = sun /\ owner' = owner
          /\ Exit(p)
        BY <1>2 DEF End, outputVars
    <2>2. Mains' = Mains \ {p} /\ Marked(procs)' = Marked(procs) \ {p}
        BY <2>1, Exited
    <2>3. \A q \in Marked(procs) \ {p} :
             procs[q].parent # p => procs'[q].parent = procs[q].parent
        BY <2>1, Exited DEF Marked, Live
    <2> QED BY <2>1, <2>2, <2>3 DEF OneCapture
<1>3. ASSUME NEW m \in Pids, NEW p \in Pids, Spawn(m, p) PROVE OneCapture'
    <2>1. /\ cloned' = cloned /\ sun' = sun /\ owner' = owner
          /\ Fork(m, p)
        BY <1>3 DEF Spawn, outputVars
    <2>2. /\ Mains' = Mains /\ m \in Mains
          /\ Marked(procs)' \subseteq Marked(procs) \cup {p}
          /\ \A q \in Pids \ {p} : procs'[q] = procs[q]
          /\ procs'[p].parent = m /\ p \notin Live(procs)
        BY <2>1, Forked
    <2>3. ~cloned => \A n \in Mains : n = m
        BY <2>2, MainsAreMarked, StationRecordAssumption DEF OneCapture, Parented, Mains
    <2>4. \A q \in Marked(procs) : procs'[q] = procs[q]
        BY <2>2 DEF Marked, Live
    <2> QED BY <2>1, <2>2, <2>3, <2>4 DEF OneCapture
<1>4. CASE Switch
    <2>1. Mains' = Mains /\ Marked(procs)' = Marked(procs) /\ procs' = procs
        BY <1>4 DEF Switch, Mains, Marked, Live
    <2>2. CASE sun = "day" /\ Mains # {}
        <3> SUFFICES ASSUME ~cloned' PROVE OneCapture'
            BY DEF OneCapture
        <3>1. ~(Cardinality(Marked(procs)) > 1 /\ Cardinality(Trees(procs)) > 1)
            BY <1>4, <2>2 DEF Switch
        <3>2. \A m \in Mains : \A p \in Marked(procs) : p = m \/ procs[p].parent = m
            BY <3>1, OneTree
        <3>3. owner' \in Mains
            BY <1>4, <2>2 DEF Switch
        <3>4. \A m \in Mains : owner' = m
            BY <3>2, <3>3, MainsAreMarked, StationRecordAssumption DEF Parented, Mains
        <3> QED BY <2>1, <3>2, <3>4 DEF OneCapture
    <2>3. CASE ~(sun = "day" /\ Mains # {})
        <3>1. cloned' = cloned
            BY <1>4, <2>3 DEF Switch
        <3>2. Mains = {} \/ sun' = "day"
            BY <1>4, <2>3 DEF Switch, TypeOK
        <3> QED BY <2>1, <3>1, <3>2 DEF OneCapture
    <2> QED BY <2>2, <2>3
<1>5. ASSUME NEW m \in Pids, Produce(m) PROVE OneCapture'
    BY <1>5 DEF Produce, OneCapture, Mains, Marked, Live
<1>6. CASE Tick
    <2>1. cloned' = cloned /\ sun' = sun /\ owner' = owner /\ procs' = Older(procs)
        BY <1>6 DEF Tick
    <2>2. Marked(procs) \subseteq Pids
        BY DEF Marked, Live
    <2> QED BY <2>1, <2>2, Ticked DEF OneCapture
<1>7. CASE UNCHANGED <<procs, outputVars, cloned>>
    BY <1>7 DEF OneCapture, Mains, Marked, Live, outputVars
<1> QED
    BY <1>1, <1>2, <1>3, <1>4, <1>5, <1>6, <1>7
    DEF Next, BeginCycle, EndScan, Judge, Sleep, vars

\* Aging keeps the order of two ages, whether the first is known or not.
LEMMA AgedKeepsOrder ==
    ASSUME NEW a \in -1..MaxAge, NEW b \in 0..MaxAge
    PROVE  /\ a <= b => Aged(a) <= Aged(b)
           /\ b <= a => Aged(b) <= Aged(a)
           /\ Aged(a) = None <=> a = None
BY StationRecordAssumption DEF Aged, None

\* Output of a capture that is alone is seen.
LEMMA ProduceIsYoung ==
    ASSUME TypeOK, OneCapture, ~cloned, NEW m \in Pids, Produce(m)
    PROVE  SomethingIsYoung' /\ quiet' = 0
<1>1. quiet' = 0 /\ sun' = sun /\ m \in Mains
    BY DEF Produce
<1>2. CASE sun = "night"
    <2>1. session'.touched = 0
        BY <1>1, <1>2 DEF Produce, OneCapture
    <2> QED BY <1>1, <1>2, <2>1 DEF SomethingIsYoung
<1>3. CASE sun = "day"
    <2>1. frame'.age = 0
        BY <1>3 DEF Produce, Due
    <2> QED BY <1>1, <1>3, <2>1 DEF SomethingIsYoung
<1> QED BY <1>1, <1>2, <1>3 DEF TypeOK

\* The same of sunrise and sunset.
LEMMA SwitchIsYoung == ASSUME Switch PROVE SomethingIsYoung'
BY DEF Switch, SomethingIsYoung

\* Every step that starts `quiet` anew leaves something as young, and all age alike.
LEMMA YoungStep ==
    ASSUME TypeOK, Parented, OneCapture, Young, [Next]_vars PROVE Young'
<1>1. ASSUME NEW p \in Pids, Start(p) PROVE Young'
    <2> SUFFICES ASSUME ~cloned' PROVE YoungCapture'
        BY DEF Young
    <2>1. Marked(procs) = {} /\ Mains = {}
        BY <1>1, MainsAreMarked DEF Start
    <2>2. Marked(procs)' = {p} /\ procs'[p].age = 0 /\ quiet' = 0
        BY <1>1, <2>1, Launched DEF Start
    <2> QED BY <2>2 DEF YoungCapture
<1>2. ASSUME NEW p \in Pids, End(p) PROVE Young'
    <2>1. Marked(procs)' = Marked(procs) \ {p}
        BY <1>2, Exited DEF End
    <2>2. \A q \in Marked(procs) \ {p} : procs'[q].age = procs[q].age
        BY <1>2, Exited DEF End, Marked, Live
    <2>3. YoungCapture => YoungCapture'
        BY <1>2, <2>1, <2>2 DEF End, YoungCapture
    <2> QED BY <1>2, <2>3 DEF End, Young, SomethingIsYoung, outputVars
<1>3. ASSUME NEW m \in Pids, NEW p \in Pids, Spawn(m, p) PROVE Young'
    <2>1. Marked(procs)' \subseteq Marked(procs) \cup {p} /\ procs'[p].age = 0
        BY <1>3, Forked DEF Spawn
    <2>2. \A q \in Marked(procs) : procs'[q].age = procs[q].age
        BY <1>3, Forked DEF Spawn, Marked, Live
    <2>3. quiet' = quiet /\ quiet \in 0..MaxAge
        BY <1>3 DEF Spawn, TypeOK
    <2>4. YoungCapture => YoungCapture'
        BY <2>1, <2>2, <2>3 DEF YoungCapture
    <2> QED BY <1>3, <2>4 DEF Spawn, Young, SomethingIsYoung, outputVars
<1>4. ASSUME NEW m \in Pids, Produce(m) PROVE Young'
    BY <1>4, ProduceIsYoung DEF Young, Produce
<1>5. CASE Switch
    BY <1>5, SwitchIsYoung DEF Young
<1>6. CASE Tick
    <2>1. SomethingIsYoung => SomethingIsYoung'
        <3>1. /\ switched \in -1..MaxAge /\ session.touched \in -1..MaxAge
              /\ frame.age \in -1..MaxAge /\ quiet \in 0..MaxAge
            BY StationRecordAssumption DEF TypeOK
        <3>2. /\ switched' = Aged(switched) /\ session'.touched = Aged(session.touched)
              /\ frame'.age = Aged(frame.age) /\ quiet' = Aged(quiet) /\ sun' = sun
            BY <1>6 DEF Tick, TypeOK
        <3> QED BY <3>1, <3>2, AgedKeepsOrder DEF SomethingIsYoung
    <2>2. YoungCapture => YoungCapture'
        <3>1. Marked(procs)' = Marked(procs) /\ quiet' = Aged(quiet)
            BY <1>6, Ticked DEF Tick
        <3>2. \A q \in Marked(procs) :
                 procs'[q].age = Aged(procs[q].age) /\ procs[q].age \in -1..MaxAge
            BY <1>6, Ticked, StationRecordAssumption DEF Tick, Marked, Live, TypeOK, Process
        <3> QED BY <3>1, <3>2, AgedKeepsOrder DEF YoungCapture, TypeOK
    <2> QED BY <1>6, <2>1, <2>2 DEF Tick, Young
<1>7. CASE UNCHANGED <<procs, outputVars, quiet, cloned>>
    BY <1>7 DEF Young, SomethingIsYoung, YoungCapture, Marked, Live, outputVars
<1> QED
    BY <1>1, <1>2, <1>3, <1>4, <1>5, <1>6, <1>7
    DEF Next, BeginCycle, EndScan, Judge, Sleep, vars

\* No step leaves output younger than the silence.
LEMMA NothingIsYoungerStep ==
    ASSUME TypeOK, Parented, NothingIsYounger, [Next]_vars PROVE NothingIsYounger'
<1>0. /\ session \in [touched: -1..MaxAge, hasFF: BOOLEAN] /\ frame.age \in -1..MaxAge
      /\ quiet \in 0..MaxAge /\ None = -1 /\ MaxAge \in Nat
    BY StationRecordAssumption DEF TypeOK, None
<1>1. ASSUME NEW p \in Pids, Start(p) PROVE NothingIsYounger'
    <2>1. frame' = frame /\ quiet' \in {0, quiet}
        BY <1>1 DEF Start
    <2>2. session' \in {session, [touched |-> 0, hasFF |-> FALSE]}
        BY <1>1 DEF Start
    <2>3. ~cloned' => quiet' = 0
        BY <1>1, MainsAreMarked DEF Start
    <2> QED BY <1>0, <2>1, <2>2, <2>3 DEF NothingIsYounger
<1>2. ASSUME NEW m \in Pids, Produce(m) PROVE NothingIsYounger'
    BY <1>0, <1>2 DEF Produce, NothingIsYounger
<1>3. CASE Switch
    <2>1. session' \in {session, [touched |-> 0, hasFF |-> FALSE]}
        BY <1>3 DEF Switch
    <2> QED BY <1>0, <1>3, <2>1 DEF Switch, NothingIsYounger
<1>4. CASE Tick
    <2>1. /\ session'.touched = Aged(session.touched) /\ session'.hasFF = session.hasFF
          /\ frame'.age = Aged(frame.age) /\ quiet' = Aged(quiet) /\ cloned' = cloned
        BY <1>0, <1>4 DEF Tick, TypeOK
    <2>2. session.touched \in -1..MaxAge
        BY <1>0
    <2> QED BY <1>0, <2>1, <2>2, AgedKeepsOrder DEF NothingIsYounger
<1>5. CASE UNCHANGED <<outputVars, quiet, cloned>>
    BY <1>5 DEF NothingIsYounger, outputVars
<1> QED
    BY <1>1, <1>2, <1>3, <1>4, <1>5
    DEF Next, Spawn, End, BeginCycle, EndScan, Judge, Sleep, vars

\* The one step the world takes while the scan runs changes the list only so far.
LEMMA ListIsTrueStep ==
    ASSUME TypeOK, Parented, OneCapture, ListIsTrue, [Next]_vars PROVE ListIsTrue'
<1>1. ASSUME NEW p \in Pids, End(p) PROVE ListIsTrue'
    <2> SUFFICES ASSUME pc' = "scanning" PROVE ListIsTrue'
        BY DEF ListIsTrue
    <2>1. /\ pc = "scanning" /\ ~stirred /\ stirred' /\ old' = old /\ old = procs
          /\ cloned' = cloned /\ Exit(p)
        BY <1>1 DEF End, Moves, ListIsTrue
    <2>2. \A q \in Live(procs) \cap Live(procs)' : procs'[q].kind = procs[q].kind
        BY <2>1, Exited DEF Live
    <2>3. Marked(procs) \ Live(procs)' \subseteq {p}
        BY <2>1, Exited, MainsAreMarked
    <2>4. ASSUME ~cloned, p \in Marked(procs), NEW m \in Mains'
          PROVE  procs[p].parent \in Marked(procs) \cap Live(procs)'
        <3>1. m \in Mains /\ m # p
            BY <2>1, Exited
        <3>2. procs[p].parent = m
            BY <2>4, <3>1 DEF OneCapture
        <3> QED BY <2>1, <3>1, <3>2, Exited, MainsAreMarked
    <2> QED BY <2>1, <2>2, <2>3, <2>4 DEF ListIsTrue
<1>2. ASSUME Moves, Live(procs) \subseteq Live(procs)',
             \A q \in Live(procs) : procs'[q].kind = procs[q].kind
      PROVE  ListIsTrue'
    <2> SUFFICES ASSUME pc' = "scanning" PROVE ListIsTrue'
        BY DEF ListIsTrue
    <2>1. pc = "scanning" /\ stirred' /\ old' = old /\ old = procs
        BY <1>2 DEF Moves, ListIsTrue
    <2>2. Marked(old) \ Live(procs)' = {}
        BY <1>2, <2>1, MainsAreMarked
    <2> QED BY <1>2, <2>1, <2>2 DEF ListIsTrue
<1>3. ASSUME NEW p \in Pids, Start(p) PROVE ListIsTrue'
    BY <1>2, <1>3, Launched DEF Start, Live
<1>4. ASSUME NEW m \in Pids, NEW p \in Pids, Spawn(m, p) PROVE ListIsTrue'
    BY <1>2, <1>4, Forked DEF Spawn, Live
<1>5. ASSUME NEW m \in Pids, Produce(m) PROVE ListIsTrue'
    BY <1>2, <1>5 DEF Produce, Live
<1>6. CASE Switch
    BY <1>2, <1>6 DEF Switch, Live
<1>7. CASE BeginCycle
    <2>1. old' = procs /\ procs' = procs
        BY <1>7 DEF BeginCycle, BeginScan
    <2>2. Marked(old') \ Live(procs') = {}
        BY <2>1 DEF Marked
    <2> QED BY <2>1, <2>2 DEF ListIsTrue
<1>8. CASE pc' # "scanning"
    BY <1>8 DEF ListIsTrue
<1>9. CASE UNCHANGED vars
    BY <1>9 DEF vars, cycleVars, ListIsTrue, Live, Marked, Mains
<1> QED
    BY <1>1, <1>3, <1>4, <1>5, <1>6, <1>7, <1>8, <1>9
    DEF Next, Tick, cycleVars, EndScan, Judge, Sleep

\* What the scan finds is the capture there is, whatever was read late or not at all.
LEMMA FoundIsTrueStep ==
    ASSUME TypeOK, Parented, OneCapture, Young, ListIsTrue, FoundIsTrue, [Next]_vars
    PROVE  FoundIsTrue'
<1>0. None = -1 /\ MaxAge \in Nat
    BY StationRecordAssumption DEF None
<1>1. CASE EndScan
    <2> SUFFICES ASSUME found'.alive PROVE FoundIsTrue'
        BY DEF FoundIsTrue
    <2>1. PICK late, blind, unread :
              /\ unread \in BOOLEAN
              /\ unread => EndsUnread(Roots(Seen(late), blind))
              /\ found' = Collected(Seen(late), blind, unread)
        BY <1>1 DEF EndScan
    <2> DEFINE seen  == Seen(late)
               roots == Roots(Seen(late), blind)
    <2>2. /\ pc = "scanning" /\ procs' = procs /\ stirred' = stirred /\ cloned' = cloned
          /\ quiet' = quiet /\ UNCHANGED outputVars
        BY <1>1 DEF EndScan
    <2>3. /\ roots # {}
          /\ \/ found'.age = MainAge(roots)
             \/ found'.age = None /\ roots \ Live(procs) # {}
        BY <2>1 DEF Collected, EndsUnread, None
    <2>4. ~stirred => seen = procs
        BY <2>2 DEF ListIsTrue, Seen, TypeOK
    <2>5. \A p \in Pids : seen[p] = procs[p] \/ seen[p] = old[p]
        BY DEF Seen
    <2>6. \A r \in roots : /\ r \in Pids /\ seen[r] # Free /\ seen[r].kind # "helper"
                           /\ seen[r].parent \notin Marked(seen)
        BY DEF Roots, Marked, Live
    <2>7. \A r \in roots \cap Live(procs) : r \in Marked(procs)
        BY <2>2, <2>5, <2>6 DEF ListIsTrue, Marked, Live
    <2>8. \A r \in roots \ Live(procs) : stirred /\ (cloned \/ Mains = {})
        <3> SUFFICES ASSUME NEW r \in roots \ Live(procs)
                     PROVE  stirred /\ (cloned \/ Mains = {})
            OBVIOUS
        <3>1. stirred
            BY <2>4, <2>6 DEF Live
        <3>2. r \in Marked(old) /\ seen[r] = old[r]
            BY <2>5, <2>6 DEF Marked, Live
        <3>3. ASSUME old[r].parent \in Marked(old) \cap Live(procs) PROVE FALSE
            <4> DEFINE q == old[r].parent
            <4>1. q \in Pids /\ old[q] # Free /\ procs[q] # Free
                  /\ procs[q].kind = old[q].kind /\ old[q].kind # "helper"
                BY <2>2, <3>3 DEF ListIsTrue, Marked, Live
            <4>2. q \in Marked(seen)
                BY <2>5, <4>1 DEF Marked, Live
            <4> QED BY <2>6, <3>2, <4>2
        <3> QED BY <2>2, <3>1, <3>2, <3>3 DEF ListIsTrue
    <2>9. /\ MainAge(roots) = None <=> roots \cap Live(procs) = {}
          /\ MainAge(roots) # None =>
               \E p \in roots \cap Live(procs) : MainAge(roots) = procs[p].age
          /\ \A p \in roots \cap Live(procs) : procs[p].age <= MainAge(roots)
        BY MainAgeIsMax DEF TypeOK
    <2> HIDE DEF seen, roots
    <2>10. ~stirred => Marked(procs) # {}
        BY <2>3, <2>7, <2>8
    <2>11. found'.age = None => stirred /\ (cloned \/ Mains = {})
        BY <2>3, <2>8, <2>9
    <2>12. ~cloned /\ found'.age # None => SomethingIsYoung \/ found'.age <= quiet
        BY <2>3, <2>7, <2>9 DEF Young, YoungCapture
    <2>13. ASSUME ~cloned, ~stirred, NEW m \in Mains PROVE found'.age >= procs[m].age
        <3>1. PICK r \in roots : r \in Live(procs) /\ r \in Marked(procs)
            BY <2>3, <2>7, <2>8, <2>13
        <3>2. procs[r].parent \notin Marked(procs)
            BY <2>4, <2>6, <2>13
        <3>3. r = m
            BY <2>13, <3>1, <3>2, MainsAreMarked DEF OneCapture
        <3>4. procs[m].age <= MainAge(roots) /\ procs[m].age \in 0..MaxAge
            BY <2>9, <3>1, <3>3 DEF TypeOK, Process, Live
        <3>5. MainAge(roots) \in -1..MaxAge
            BY MainAgeIsMax DEF TypeOK
        <3>6. found'.age = MainAge(roots)
            BY <2>3, <2>8, <2>13
        <3> QED BY <1>0, <3>4, <3>5, <3>6
    <2>14. /\ Marked(procs)' = Marked(procs) /\ Mains' = Mains
           /\ SomethingIsYoung' = SomethingIsYoung
        BY <2>2 DEF Marked, Live, Mains, SomethingIsYoung, outputVars
    <2> QED BY <2>2, <2>10, <2>11, <2>12, <2>13, <2>14 DEF FoundIsTrue
\* The one step the world may take after the scan.
<1>2. ASSUME Moves, ~cloned' => ~cloned \/ SomethingIsYoung',
             ~cloned' /\ ~cloned => (SomethingIsYoung => SomethingIsYoung'),
             ~cloned' /\ ~cloned => SomethingIsYoung' \/ quiet' = quiet
      PROVE  FoundIsTrue'
    <2> SUFFICES ASSUME pc' = "scanned", found'.alive PROVE FoundIsTrue'
        BY DEF FoundIsTrue
    <2>1. pc = "scanned" /\ ~stirred /\ stirred' /\ found' = found
        BY <1>2 DEF Moves
    <2>2. found.age # None
        BY <2>1 DEF FoundIsTrue
    <2> QED BY <1>2, <2>1, <2>2 DEF FoundIsTrue
<1>3. ASSUME NEW p \in Pids, Start(p) PROVE FoundIsTrue'
    <2> SUFFICES ASSUME pc' = "scanned", found'.alive PROVE FoundIsTrue'
        BY DEF FoundIsTrue
    <2>1. pc = "scanned" /\ ~stirred /\ stirred' /\ found' = found
        BY <1>3 DEF Start, Moves
    <2>2. found.age # None /\ cloned'
        BY <1>3, <2>1 DEF Start, FoundIsTrue
    <2> QED BY <2>1, <2>2 DEF FoundIsTrue
<1>4. ASSUME NEW p \in Pids, End(p) \/ \E m \in Pids : Spawn(m, p) PROVE FoundIsTrue'
    <2>1. Moves /\ cloned' = cloned /\ quiet' = quiet /\ UNCHANGED outputVars
        BY <1>4 DEF End, Spawn
    <2>2. SomethingIsYoung' = SomethingIsYoung
        BY <2>1 DEF SomethingIsYoung, outputVars
    <2> QED BY <1>2, <2>1, <2>2
<1>5. ASSUME NEW m \in Pids, Produce(m) PROVE FoundIsTrue'
    BY <1>2, <1>5, ProduceIsYoung DEF Produce
<1>6. CASE Switch
    BY <1>2, <1>6, SwitchIsYoung DEF Switch
<1>7. CASE pc' # "scanned"
    BY <1>7 DEF FoundIsTrue
<1>8. CASE UNCHANGED vars
    BY <1>8 DEF vars, cycleVars, outputVars, FoundIsTrue, SomethingIsYoung, Mains, Marked,
                Live
<1> QED
    BY <1>1, <1>3, <1>4, <1>5, <1>6, <1>7, <1>8
    DEF Next, Tick, cycleVars, BeginCycle, Judge, Sleep

\* The invariant is inductive.
LEMMA StallInvIsInductive ==
    /\ Init => StallInv
    /\ StallInv /\ [Next]_vars => StallInv'
<1>1. Init => StallInv
    <2> SUFFICES ASSUME Init PROVE StallInv
        OBVIOUS
    <2>1. TypeOK /\ Live(procs) = {} /\ Mains = {} /\ Marked(procs) = {}
        BY TypeInit DEF Init, NoProcs, Live, Mains, Marked, Free
    <2> QED
        BY <2>1, StationRecordAssumption
        DEF Init, StallInv, Parented, OneCapture, Young, YoungCapture, NothingIsYounger,
            ListIsTrue, FoundIsTrue, NoSession, NoFrame, None
<1>2. StallInv /\ [Next]_vars => StallInv'
    <2> SUFFICES ASSUME StallInv, [Next]_vars PROVE StallInv'
        OBVIOUS
    <2>1. TypeOK /\ Parented /\ OneCapture /\ Young /\ NothingIsYounger
          /\ ListIsTrue /\ FoundIsTrue
        BY DEF StallInv
    <2>2. TypeOK' /\ Parented' /\ OneCapture'
        BY <2>1, TypeStep, ParentedStep, OneCaptureStep
    <2>3. Young' /\ NothingIsYounger' /\ ListIsTrue' /\ FoundIsTrue'
        BY <2>1, YoungStep, NothingIsYoungerStep, ListIsTrueStep, FoundIsTrueStep
    <2> QED BY <2>2, <2>3 DEF StallInv
<1> QED BY <1>1, <1>2

-----------------------------------------------------------------------------
(* What the metrics say, and what evaluate makes of it. *)

\* With the sun known, the output expected is the output due, out of the transition.
LEMMA ExpectedIsDue ==
    ASSUME TypeOK, Timely, NEW readable, NEW detected, NEW wrong
    PROVE  LET m == Metrics(readable, detected, wrong)
           IN  /\ ResolveExpected(m) = Expected
               /\ Expected \in {"ff", "frames"} => switched >= SwitchGrace /\ Expected = Due
<1>1. Metrics(readable, detected, wrong).expected_output = Expected
    BY DEF Metrics
<1>2. Expected # "unknown"
    BY DEF Expected, Due, Timely
<1>3. Expected \in {"ff", "frames"} => switched >= SwitchGrace /\ Expected = Due
    BY StationRecordAssumption DEF Expected, Due, Timely, TypeOK
<1> QED BY <1>1, <1>2, <1>3 DEF ResolveExpected

\* A stall is only flagged of a capture that is alive and whose output is stale.
LEMMA OnlyWhatIsStale ==
    ASSUME NEW readable, NEW detected, NEW wrong \in {{}, PlainProblems},
           "capture_stalled" \in Keys(Flagged(Metrics(readable, detected, wrong)))
    PROVE  found.alive /\ CaptureStalled(Metrics(readable, detected, wrong))
<1> DEFINE m == Metrics(readable, detected, wrong)
<1>1. m.capture_alive = found.alive /\ m.wrong = wrong
    BY DEF Metrics
<1> HIDE DEF m
<1>2. PICK f \in Problems(m) : f[1] = "capture_stalled"
    BY DEF m, Keys, Flagged
<1>3. f \notin wrong
    BY <1>2 DEF PlainProblems
<1>4. m.capture_alive /\ CaptureStalled(m)
    BY <1>1, <1>2, <1>3 DEF Problems, When
<1> QED BY <1>1, <1>4 DEF m

\* Judging finds no stall where there is none.
LEMMA JudgedIsReal ==
    ASSUME Timely, StallInv, Judge PROVE StalledIsReal'
<1> SUFFICES ASSUME "capture_stalled" \in record'.problems, ~cloned
             PROVE  quiet >= Fresh \/ (stirred /\ Mains = {})
    BY DEF Judge, StalledIsReal, Mains
<1>1. PICK readable \in BOOLEAN, detected \in BOOLEAN, wrong \in {{}, PlainProblems} :
          record'.problems = Keys(Flagged(Metrics(readable, detected, wrong)))
    BY DEF Judge
<1> DEFINE m == Metrics(readable, detected, wrong)
<1>2. found.alive /\ CaptureStalled(m)
    BY <1>1, OnlyWhatIsStale
<1>3. ResolveExpected(m) = Expected
      /\ (Expected \in {"ff", "frames"} => switched >= SwitchGrace /\ Expected = Due)
    BY ExpectedIsDue DEF StallInv
<1>4. /\ m.capture_age = found.age
      /\ m.fits_age = IF readable /\ session.hasFF THEN session.touched ELSE None
      /\ m.frame_age = IF readable THEN frame.age ELSE None
    BY DEF Metrics
<1> HIDE DEF m
<1>5. Expected \in {"ff", "frames"} /\ OutputAge(m) # None /\ OutputAge(m) >= Fresh
    BY <1>2, <1>3 DEF CaptureStalled, OutputAge
<1>6. found.age # None => found.age >= RestartGrace
    BY <1>2, <1>4, StationRecordAssumption
    DEF CaptureStalled, Settling, StallInv, TypeOK
<1>7. found.age # None => SomethingIsYoung \/ found.age <= quiet
    BY <1>2 DEF StallInv, FoundIsTrue, Judge
<1>8. found.age = None => stirred /\ Mains = {}
    BY <1>2 DEF StallInv, FoundIsTrue, Judge
<1>t. /\ quiet \in Nat /\ switched \in Nat /\ found.age \in Int /\ session.touched \in Int
      /\ frame.age \in Int /\ Fresh \in Nat /\ SwitchGrace \in Nat /\ RestartGrace \in Nat
      /\ Fresh <= SwitchGrace /\ Fresh <= RestartGrace
    BY StationRecordAssumption DEF StallInv, TypeOK, Timely
<1>9. CASE found.age # None /\ found.age <= quiet
    BY <1>6, <1>9, <1>t
<1>10. CASE SomethingIsYoung
    <2>1. CASE switched <= quiet
        BY <1>3, <1>5, <2>1, <1>t
    <2>2. CASE sun = "night" /\ session.touched <= quiet
        <3>1. OutputAge(m) = m.fits_age
            BY <1>3, <1>5, <2>2 DEF OutputAge, Due
        <3> QED BY <1>4, <1>5, <2>2, <3>1, <1>t
    <2>3. CASE sun = "day" /\ frame.age <= quiet
        <3>1. OutputAge(m) = m.frame_age
            BY <1>3, <1>5, <2>3 DEF OutputAge, Due
        <3> QED BY <1>4, <1>5, <2>3, <3>1, <1>t
    <2> QED BY <1>10, <2>1, <2>2, <2>3 DEF SomethingIsYoung
<1> QED BY <1>7, <1>8, <1>9, <1>10

\* A record that does not say capture is down is about one that is alive.
LEMMA DownIsSaid ==
    ASSUME "capture_down" \notin Disabled, NEW readable, NEW detected, NEW wrong,
           "capture_down" \notin Keys(Flagged(Metrics(readable, detected, wrong)))
    PROVE  found.alive
<1> DEFINE m == Metrics(readable, detected, wrong)
<1> SUFFICES ASSUME ~found.alive PROVE FALSE
    OBVIOUS
<1>1. m.capture_alive = found.alive /\ m.camera_standby = FALSE
    BY DEF Metrics
<1> HIDE DEF m
<1>2. <<"capture_down", "error">> \in Problems(m)
    BY <1>1 DEF Problems
<1>3. <<"capture_down", "error">> \in Flagged(m)
    BY <1>2 DEF Flagged
<1>4. "capture_down" \in Keys(Flagged(m))
    BY <1>3 DEF Keys
<1> QED BY <1>4 DEF m

\* Judging misses no output that has stopped.
LEMMA JudgedIsPinged ==
    ASSUME Timely, "capture_down" \notin Disabled, StallInv, Judge
    PROVE  DeadOutputIsPinged'
<1>0. /\ Expected' = Expected /\ DeadOutput' = DeadOutput /\ quiet' = quiet
      /\ stirred' = stirred /\ cloned' = cloned
    BY DEF Judge, DeadOutput, Expected, Due, Mains, outputVars
<1> SUFFICES ASSUME "capture_down" \notin record'.problems, ~stirred, ~cloned, DeadOutput
             PROVE  record'.pinged
    BY <1>0 DEF DeadOutputIsPinged, Judged
<1>1. PICK readable \in BOOLEAN, detected \in BOOLEAN, wrong \in {{}, PlainProblems} :
          record' = [problems |-> Keys(Flagged(Metrics(readable, detected, wrong))),
                     pinged |-> OutputStalled(Metrics(readable, detected, wrong))]
    BY DEF Judge
<1> DEFINE m == Metrics(readable, detected, wrong)
<1>2. found.alive
    BY <1>1, DownIsSaid
<1>3. ResolveExpected(m) = Expected
      /\ (Expected \in {"ff", "frames"} => switched >= SwitchGrace /\ Expected = Due)
    BY ExpectedIsDue DEF StallInv
<1>4. /\ m.capture_age = found.age
      /\ m.session_age = IF readable THEN session.touched ELSE None
      /\ m.fits_age = IF readable /\ session.hasFF THEN session.touched ELSE None
      /\ m.frame_age = IF readable THEN frame.age ELSE None
    BY DEF Metrics
<1> HIDE DEF m
<1>t. /\ quiet \in Nat /\ found.age \in Int /\ session.touched \in Int
      /\ frame.age \in Int /\ Fresh \in Nat /\ RestartGrace \in Nat /\ None = -1
      /\ Fresh <= RestartGrace /\ session.hasFF \in BOOLEAN
    BY StationRecordAssumption DEF StallInv, TypeOK, Timely, None
<1>5. found.age >= RestartGrace
    <2>1. PICK p \in Mains : procs[p].age >= RestartGrace
        BY DEF DeadOutput
    <2>2. found.age >= procs[p].age /\ procs[p].age \in Int
        BY <1>2, StationRecordAssumption
        DEF StallInv, FoundIsTrue, Judge, Mains, TypeOK, Process
    <2> QED BY <2>1, <2>2, <1>t
<1>6. ~Settling(m)
    BY <1>4, <1>5, <1>t DEF Settling
<1>7. Expected \in {"ff", "frames"} /\ quiet >= Fresh
    BY DEF DeadOutput
<1>8. OutputAge(m) # None => OutputAge(m) >= Fresh
    BY <1>3, <1>4, <1>7, <1>t DEF OutputAge, StallInv, NothingIsYounger
<1>9. Elapsed(m) # None /\ Elapsed(m) >= Fresh
    BY <1>4, <1>5, <1>7, <1>t DEF Elapsed, StallInv, NothingIsYounger
<1>10. OutputStalled(m)
    BY <1>3, <1>6, <1>7, <1>8, <1>9 DEF OutputStalled
<1> QED BY <1>1, <1>10 DEF m

\* What was judged stays as it is until the cycle ends.
LEMMA OnlyJudged ==
    ASSUME [Next]_vars, ~Judge
    PROVE  pc' # "judged" \/ UNCHANGED vars
BY DEF Next, Start, Spawn, End, Produce, Switch, Moves, Tick, cycleVars, BeginCycle,
       EndScan, Sleep

\* When the sun is known and both graces last at least output_fresh_error_s, a stall is
\* only reported of output that stopped for that long, or of a capture that has ended
\* during this cycle, however the processes came and went before.
THEOREM StallsAreReal == ASSUME Timely PROVE Spec => []StalledIsReal
<1> DEFINE Inv == StallInv /\ StalledIsReal
<1>1. Init => Inv
    BY StallInvIsInductive DEF Init, StalledIsReal
<1>2. Inv /\ [Next]_vars => Inv'
    <2> SUFFICES ASSUME Inv, [Next]_vars PROVE StalledIsReal'
        BY StallInvIsInductive
    <2>1. CASE Judge
        BY <2>1, JudgedIsReal
    <2>2. CASE ~Judge
        <3>1. CASE pc' # "judged"
            BY <3>1 DEF StalledIsReal
        <3>2. CASE UNCHANGED vars
            BY <3>2 DEF vars, cycleVars, StalledIsReal, Mains
        <3> QED BY <2>2, <3>1, <3>2, OnlyJudged
    <2> QED BY <2>1, <2>2
<1>3. Inv => StalledIsReal
    OBVIOUS
<1> QED BY <1>1, <1>2, <1>3, PTL DEF Spec

\* Under the same assumptions, and unless capture_down is a disabled check, no output
\* that stopped under a settled capture goes without a ping.
THEOREM DeadOutputsArePinged ==
    ASSUME Timely, "capture_down" \notin Disabled PROVE Spec => []DeadOutputIsPinged
<1> DEFINE Inv == StallInv /\ DeadOutputIsPinged
<1>1. Init => Inv
    BY StallInvIsInductive DEF Init, DeadOutputIsPinged, Judged
<1>2. Inv /\ [Next]_vars => Inv'
    <2> SUFFICES ASSUME Inv, [Next]_vars PROVE DeadOutputIsPinged'
        BY StallInvIsInductive
    <2>1. CASE Judge
        BY <2>1, JudgedIsPinged
    <2>2. CASE ~Judge
        <3>1. CASE pc' # "judged"
            BY <3>1 DEF DeadOutputIsPinged, Judged
        <3>2. CASE UNCHANGED vars
            BY <3>2 DEF vars, cycleVars, outputVars, DeadOutputIsPinged, Judged, DeadOutput,
                        Expected, Due, Mains
        <3> QED BY <2>2, <3>1, <3>2, OnlyJudged
    <2> QED BY <2>1, <2>2
<1>3. Inv => DeadOutputIsPinged
    OBVIOUS
<1> QED BY <1>1, <1>2, <1>3, PTL DEF Spec

=============================================================================
