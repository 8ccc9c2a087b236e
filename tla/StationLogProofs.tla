---------------------------- MODULE StationLogProofs ----------------------------
(***************************************************************************)
(* What is concluded from a log is so.  Errors are recent: a line without  *)
(* a time stamp inherits the time of the traceback it belongs to, or of    *)
(* nothing.  Back-pressure is earned: the spike of a fresh connection has  *)
(* the line of that connection before it, in the window and the tail.  And *)
(* a processing run is reported exactly while there is one.                *)
(***************************************************************************)
EXTENDS StationLog, FiniteSetTheorems, SequenceTheorems, TLAPS

\* What can be in a log.
Entry == [kind: Kinds, age: 0..Old, fill: {Low, High}, drops: Nat,
          hot: BOOLEAN, lagging: BOOLEAN]

\* The body of a traceback follows the line that opens it.
Traced ==
    \A i \in 1..Len(log) : log[i].kind = "body" => i > 1 /\ log[i - 1].kind = "traceback"

LogInv ==
    /\ log \in Seq(Entry) /\ Len(log) <= MaxLines
    /\ session \in 0..MaxLines /\ behind \in BOOLEAN
    /\ Traced

\* Max of a set of positions with a largest one.
LEMMA LargestPosition ==
    ASSUME NEW P \in SUBSET Int, NEW m \in P, \A k \in P : k <= m PROVE Max(P) = m
<1>1. \A x \in P : (\A y \in P : x >= y) => x = m
    OBVIOUS
<1>2. m \in P /\ \A y \in P : m >= y
    OBVIOUS
<1> QED BY <1>1, <1>2 DEF Max

\* The tail of a log is a log, and its lines are the log's.
LEMMA TailOfLog ==
    ASSUME log \in Seq(Entry)
    PROVE  /\ Scanned \in Seq(Entry)
           /\ \E k \in Nat : /\ Len(Scanned) + k = Len(log)
                             /\ Len(log) <= TailLines => k = 0
                             /\ \A i \in 1..Len(Scanned) : Scanned[i] = log[i + k]
<1> DEFINE n == Len(log)
           m == IF n > TailLines THEN n - TailLines + 1 ELSE 1
<1>1. n \in Nat /\ TailLines \in Nat \ {0}
    BY StationLogAssumption
<1>2. m \in Int /\ m >= 1 /\ m <= n + 1 /\ (n <= TailLines => m = 1)
    BY <1>1
<1>3. \A i \in m..n : log[i] \in Entry
    BY <1>1, <1>2, ElementOfSeq
<1>4. Scanned = SubSeq(log, m, n)
    BY DEF Scanned
<1> HIDE DEF m, n
<1>5. /\ Scanned \in Seq(Entry)
      /\ Len(Scanned) = IF m <= n THEN n - m + 1 ELSE 0
      /\ \A i \in 1..(n - m + 1) : Scanned[i] = log[m + i - 1]
    BY <1>1, <1>2, <1>3, <1>4, SubSeqProperties
<1>6. Len(Scanned) = n - m + 1
    BY <1>1, <1>2, <1>5
<1>7. m - 1 \in Nat /\ Len(Scanned) + (m - 1) = n /\ (n <= TailLines => m - 1 = 0)
    BY <1>1, <1>2, <1>6
<1>8. \A i \in 1..Len(Scanned) : Scanned[i] = log[i + (m - 1)]
    <2> SUFFICES ASSUME NEW i \in 1..Len(Scanned) PROVE Scanned[i] = log[i + (m - 1)]
        OBVIOUS
    <2>1. m + i - 1 = i + (m - 1)
        BY <1>2
    <2> QED BY <1>5, <1>6, <2>1
<1> QED BY <1>5, <1>7, <1>8 DEF n

\* An error that counts is dated within the window by a line of its own traceback, or
\* its traceback is what the tail begins in.
LEMMA ErrorsAreDated ==
    ASSUME LogInv, LogWindow # 0, Count(Scanned, FatalKinds) > 0
    PROVE  \/ \E i \in DOMAIN log : log[i].kind \in FatalKinds /\ log[i].age <= LogWindow
           \/ Scanned[1].kind = "body"
<1>1. PICK i \in DOMAIN Scanned : Scanned[i].kind \in FatalKinds /\ InWindow(Scanned, i)
    <2> SUFFICES ASSUME {i \in DOMAIN Scanned :
                           Scanned[i].kind \in FatalKinds /\ InWindow(Scanned, i)} = {}
                 PROVE  FALSE
        OBVIOUS
    <2>1. Count(Scanned, FatalKinds) = Cardinality({})
        BY DEF Count
    <2> QED BY <2>1, FS_EmptySet
<1>2. PICK k \in Nat : /\ Len(Scanned) + k = Len(log)
                       /\ \A j \in 1..Len(Scanned) : Scanned[j] = log[j + k]
    BY TailOfLog DEF LogInv
<1>3. /\ DOMAIN Scanned = 1..Len(Scanned) /\ DOMAIN log = 1..Len(log)
      /\ Len(Scanned) \in Nat /\ Len(log) \in Nat
    BY TailOfLog, LenProperties DEF LogInv
<1>4. i \in 1..Len(Scanned)
    BY <1>1, <1>3
<1> DEFINE dated == {j \in 1..i : Scanned[j].kind # "body"}
<1>5. SUFFICES ASSUME Scanned[1].kind # "body"
               PROVE  \E j \in DOMAIN log : /\ log[j].kind \in FatalKinds
                                            /\ log[j].age <= LogWindow
    OBVIOUS
<1>6. dated # {} /\ dated \in SUBSET Int
    BY <1>4, <1>5
<1>7. Carried(Scanned, i) = Scanned[Max(dated)].age
    BY <1>6 DEF Carried
\* The line the error takes its time from: its own, or the one before.
<1>8. PICK m \in dated : Scanned[m].kind = "traceback" /\ \A j \in dated : j <= m
    <2>1. CASE Scanned[i].kind = "traceback"
        <3>1. i \in dated /\ \A j \in dated : j <= i
            BY <1>4, <2>1
        <3> QED BY <2>1, <3>1
    <2>2. CASE Scanned[i].kind = "body"
        <3>1. i > 1 /\ i - 1 \in 1..Len(Scanned)
            BY <1>4, <1>5, <2>2
        <3>2. log[i + k].kind = "body" /\ i + k \in 1..Len(log)
            BY <1>2, <1>3, <1>4, <2>2
        <3>3. log[(i + k) - 1].kind = "traceback"
            BY <3>2 DEF LogInv, Traced
        <3>4. Scanned[i - 1] = log[(i - 1) + k]
            BY <1>2, <3>1
        <3>5. (i - 1) + k = (i + k) - 1
            BY <1>3, <1>4
        <3>7. Scanned[i - 1].kind = "traceback"
            BY <3>3, <3>4, <3>5
        <3>6. i - 1 \in dated /\ \A j \in dated : j <= i - 1
            BY <1>4, <2>2, <3>1, <3>7
        <3> QED BY <3>6, <3>7
    <2> QED BY <1>1, <2>1, <2>2 DEF FatalKinds
<1>9. Max(dated) = m
    BY <1>6, <1>8, LargestPosition
<1>10. m \in 1..Len(Scanned) /\ m + k \in DOMAIN log /\ Scanned[m] = log[m + k]
    BY <1>2, <1>3, <1>4, <1>8
<1>11. Scanned[m].age \in 0..Old
    <2>1. Scanned \in Seq(Entry)
        BY TailOfLog DEF LogInv
    <2>2. Scanned[m] \in Entry
        BY <1>10, <2>1, ElementOfSeq
    <2> QED BY <2>2 DEF Entry
<1>12. Scanned[m].age <= LogWindow
    BY <1>1, <1>7, <1>9, <1>11 DEF InWindow, None
<1> QED BY <1>8, <1>10, <1>12 DEF FatalKinds

-----------------------------------------------------------------------------

-----------------------------------------------------------------------------
(* The log as RMS writes it. *)

LEMMA LinesAreEntries ==
    ASSUME NEW kind \in Kinds
    PROVE  Line(kind) \in Entry /\ Line(kind).kind = kind /\ Line(kind).age = 0
<1>1. 0 \in 0..Old
    BY StationLogAssumption
<1> QED BY <1>1 DEF Line, Entry, Low, High

LEMMA Appended ==
    ASSUME LogInv, NEW line \in Entry, Append1(line)
    PROVE  /\ Len(log) \in Nat
           /\ log' \in Seq(Entry) /\ Len(log') = Len(log) + 1 /\ Len(log') <= MaxLines
           /\ \A i \in 1..Len(log) : log'[i] = log[i]
           /\ log'[Len(log) + 1] = line
<1>1. log \in Seq(Entry) /\ log' = Append(log, line) /\ Len(log) < MaxLines /\ Len(log) \in Nat
    BY LenProperties DEF LogInv, Append1
<1>2. MaxLines \in Nat
    BY StationLogAssumption
<1> QED BY <1>1, <1>2

\* What a single new line is, and what it goes with.
Written(line) ==
    /\ Append1(line) /\ line.age = 0 /\ line.kind # "body"
    /\ line.kind = "buffer" /\ line.fill = High => line.lagging \/ spiking
    /\ spiking' => spiking \/ line.kind = "pipeline"
    /\ line.kind = "begin" => phase' = "processing"
    /\ line.kind = "end" => phase' = "capture"
    /\ line.kind \notin {"begin", "end"} => phase' = phase
    /\ opened /\ UNCHANGED <<alive, opened, behind>>

OneLine == Connect \/ Transition \/ Report \/ Conceal \/ StartProcessing \/ EndProcessing

LEMMA OneLineIsWritten ==
    ASSUME LogInv, OneLine
    PROVE  session' \in 0..MaxLines /\ \E line \in Entry : Written(line)
<1>0. MaxLines \in Nat /\ session \in 0..MaxLines /\ behind \in BOOLEAN
    BY StationLogAssumption DEF LogInv
<1>1. CASE Connect \/ Transition
    <2>1. /\ session' \in 0..MaxLines
          /\ Append1(Line("pipeline")) /\ phase' = phase /\ opened
          /\ UNCHANGED <<alive, opened, behind>>
        BY <1>0, <1>1 DEF Connect, Transition
    <2>2. Line("pipeline") \in Entry /\ Line("pipeline").kind = "pipeline" /\ Line("pipeline").age = 0
        BY LinesAreEntries DEF Kinds
    <2> QED BY <2>1, <2>2 DEF Written
<1>2. CASE Conceal
    <2>1. /\ session' = session /\ spiking' = spiking
          /\ Append1(Line("decoder")) /\ phase' = phase /\ opened
          /\ UNCHANGED <<alive, opened, behind>>
        BY <1>2 DEF Conceal
    <2>2. Line("decoder") \in Entry /\ Line("decoder").kind = "decoder" /\ Line("decoder").age = 0
        BY LinesAreEntries DEF Kinds
    <2> QED BY <1>0, <2>1, <2>2 DEF Written
<1>3. CASE StartProcessing
    <2>1. /\ session' = session /\ spiking' = spiking
          /\ Append1(Line("begin")) /\ phase' = "processing" /\ opened
          /\ UNCHANGED <<alive, opened, behind>>
        BY <1>3 DEF StartProcessing
    <2>2. Line("begin") \in Entry /\ Line("begin").kind = "begin" /\ Line("begin").age = 0
        BY LinesAreEntries DEF Kinds
    <2> QED BY <1>0, <2>1, <2>2 DEF Written
<1>4. CASE EndProcessing
    <2>1. /\ session' = session /\ spiking' = spiking
          /\ Append1(Line("end")) /\ phase' = "capture" /\ opened
          /\ UNCHANGED <<alive, opened, behind>>
        BY <1>4 DEF EndProcessing
    <2>2. Line("end") \in Entry /\ Line("end").kind = "end" /\ Line("end").age = 0
        BY LinesAreEntries DEF Kinds
    <2> QED BY <1>0, <2>1, <2>2 DEF Written
<1>5. CASE Report
    <2> DEFINE Reported(drop) ==
            [kind |-> "buffer", age |-> 0, drops |-> session', lagging |-> behind,
             fill |-> IF spiking \/ behind THEN High ELSE Low,
             hot |-> drop \/ \E i \in DOMAIN log : log[i].hot /\ log[i].age = 0]
    <2>1. PICK drop \in BOOLEAN :
            /\ session' = IF drop /\ session < MaxLines THEN session + 1 ELSE session
            /\ Append1(Reported(drop))
        BY <1>5 DEF Report
    <2>2. session' \in 0..MaxLines
        BY <1>0, <2>1
    <2>3. Reported(drop) \in Entry
        <3>1. (drop \/ \E i \in DOMAIN log : log[i].hot /\ log[i].age = 0) \in BOOLEAN
            BY Zenon
        <3>2. 0 \in 0..Old /\ session' \in Nat
            BY <1>0, <2>2, StationLogAssumption
        <3> QED BY <1>0, <3>1, <3>2 DEF Entry, Kinds
    <2>4. /\ Reported(drop).kind = "buffer" /\ Reported(drop).age = 0
          /\ Reported(drop).lagging = behind
          /\ Reported(drop).fill = IF spiking \/ behind THEN High ELSE Low
        OBVIOUS
    <2>5. spiking' = spiking /\ phase' = phase /\ opened /\ UNCHANGED <<alive, opened, behind>>
        BY <1>5 DEF Report
    <2> HIDE DEF Reported
    <2>6. Written(Reported(drop))
        BY <2>1, <2>4, <2>5 DEF Written, Low, High
    <2> QED BY <2>2, <2>3, <2>6
<1> QED BY <1>1, <1>2, <1>3, <1>4, <1>5 DEF OneLine

LEMMA Raised ==
    ASSUME LogInv, Raise
    PROVE  /\ Len(log) \in Nat
           /\ log' \in Seq(Entry) /\ Len(log') = Len(log) + 2 /\ Len(log') <= MaxLines
           /\ \A i \in 1..Len(log) : log'[i] = log[i]
           /\ log'[Len(log) + 1] = Line("traceback") /\ log'[Len(log) + 2] = Line("body")
<1> DEFINE pair == <<Line("traceback"), Line("body")>>
<1>1. /\ pair \in Seq(Entry) /\ Len(pair) = 2
      /\ pair[1] = Line("traceback") /\ pair[2] = Line("body")
    BY LinesAreEntries DEF Kinds
<1>2. log' = log \o pair /\ Len(log) + 1 < MaxLines
    BY DEF Raise
<1> HIDE DEF pair
<1>3. log \in Seq(Entry) /\ Len(log) \in Nat /\ MaxLines \in Nat
    BY LenProperties, StationLogAssumption DEF LogInv
<1>4. /\ log \o pair \in Seq(Entry) /\ Len(log \o pair) = Len(log) + Len(pair)
      /\ \A i \in 1..(Len(log) + Len(pair)) :
           (log \o pair)[i] = IF i <= Len(log) THEN log[i] ELSE pair[i - Len(log)]
    BY <1>1, <1>3, ConcatProperties
<1>5. \A i \in 1..(Len(log) + 2) : log'[i] = IF i <= Len(log) THEN log[i] ELSE pair[i - Len(log)]
    BY <1>1, <1>2, <1>4
<1>6. log'[Len(log) + 1] = pair[1] /\ log'[Len(log) + 2] = pair[2]
    <2>1. (Len(log) + 1) - Len(log) = 1 /\ (Len(log) + 2) - Len(log) = 2
        BY <1>3
    <2> QED BY <1>3, <1>5, <2>1
<1>7. \A i \in 1..Len(log) : log'[i] = log[i]
    BY <1>3, <1>5
<1> QED BY <1>1, <1>2, <1>3, <1>4, <1>6, <1>7

\* Age after a tick.
Aged(age) == IF age < Old THEN age + 1 ELSE Old

LEMMA Ticked ==
    ASSUME LogInv, Tick
    PROVE  /\ Len(log) \in Nat
           /\ log' \in Seq(Entry) /\ Len(log') = Len(log)
           /\ \A i \in 1..Len(log) :
                /\ log'[i].age = Aged(log[i].age) /\ log'[i].kind = log[i].kind
                /\ log'[i].fill = log[i].fill /\ log'[i].lagging = log[i].lagging
<1> DEFINE older(i) == [log[i] EXCEPT !.age = Aged(@)]
<1>1. Len(log) \in Nat /\ DOMAIN log = 1..Len(log)
    BY LenProperties DEF LogInv
<1>2. \A i \in 1..Len(log) :
        /\ older(i) \in Entry
        /\ older(i).age = Aged(log[i].age) /\ older(i).kind = log[i].kind
        /\ older(i).fill = log[i].fill /\ older(i).lagging = log[i].lagging
    <2> SUFFICES ASSUME NEW i \in 1..Len(log)
                 PROVE  /\ older(i) \in Entry
                        /\ older(i).age = Aged(log[i].age) /\ older(i).kind = log[i].kind
                        /\ older(i).fill = log[i].fill /\ older(i).lagging = log[i].lagging
        OBVIOUS
    <2>1. log[i] \in Entry
        BY ElementOfSeq DEF LogInv
    <2>2. Old \in Nat
        BY StationLogAssumption
    <2> QED BY <2>1, <2>2 DEF Entry, Aged
<1>3. log' = [i \in 1..Len(log) |-> older(i)]
    BY <1>1 DEF Tick, Aged
<1> HIDE DEF older
<1> QED BY <1>1, <1>2, <1>3

\* Every step writes one line, or a traceback, opens a log, ages it or leaves it alone.
LEMMA StepOfTheLog ==
    ASSUME [Next]_vars
    PROVE  \/ OneLine \/ Raise \/ OpenLog \/ Tick
           \/ UNCHANGED <<log, session, spiking>> /\ behind' \in {behind, ~behind}
BY DEF Next, OneLine, Launch, Crash, Lag, Scan, Read, Sleep, vars, rmsVars

LEMMA NextLogInv ==
    ASSUME LogInv, [Next]_vars PROVE LogInv'
<1>1. CASE OneLine
    <2>1. session' \in 0..MaxLines
        BY <1>1, OneLineIsWritten
    <2>2. PICK line \in Entry : Written(line)
        BY <1>1, OneLineIsWritten
    <2>3. /\ Append1(line) /\ line.kind # "body" /\ behind' = behind
        BY <2>2 DEF Written
    <2>4. /\ Len(log) \in Nat
          /\ log' \in Seq(Entry) /\ Len(log') = Len(log) + 1 /\ Len(log') <= MaxLines
          /\ \A i \in 1..Len(log) : log'[i] = log[i]
          /\ log'[Len(log) + 1] = line
        BY <2>3, Appended
    <2>5. Traced'
        BY <2>3, <2>4 DEF LogInv, Traced
    <2> QED BY <2>1, <2>3, <2>4, <2>5 DEF LogInv
<1>2. CASE Raise
    <2>1. /\ Len(log) \in Nat
          /\ log' \in Seq(Entry) /\ Len(log') = Len(log) + 2 /\ Len(log') <= MaxLines
          /\ \A i \in 1..Len(log) : log'[i] = log[i]
          /\ log'[Len(log) + 1].kind = "traceback" /\ log'[Len(log) + 2].kind = "body"
        BY <1>2, Raised, LinesAreEntries DEF Kinds
    <2>2. Traced'
        <3> SUFFICES ASSUME NEW i \in 1..Len(log'), log'[i].kind = "body"
                     PROVE  i > 1 /\ log'[i - 1].kind = "traceback"
            BY DEF Traced
        <3>1. CASE i <= Len(log)
            BY <2>1, <3>1 DEF LogInv, Traced
        <3>2. CASE i = Len(log) + 1
            BY <2>1, <3>2
        <3>3. CASE i = Len(log) + 2
            BY <2>1, <3>3
        <3> QED BY <2>1, <3>1, <3>2, <3>3
    <2> QED BY <1>2, <2>1, <2>2 DEF LogInv, Raise
<1>3. CASE OpenLog
    <2>1. log' = <<>> /\ session' = 0 /\ behind' = behind /\ MaxLines \in Nat
        BY <1>3, StationLogAssumption DEF OpenLog
    <2> QED BY <2>1, EmptySeq DEF LogInv, Traced
<1>4. CASE Tick
    <2>1. /\ Len(log) \in Nat /\ log' \in Seq(Entry) /\ Len(log') = Len(log)
          /\ \A i \in 1..Len(log) : log'[i].kind = log[i].kind
        BY <1>4, Ticked
    <2>2. \A i \in 1..Len(log) : i > 1 => i - 1 \in 1..Len(log)
        BY <2>1
    <2>3. Traced'
        BY <2>1, <2>2 DEF LogInv, Traced
    <2>4. session' = session /\ behind' = behind
        BY <1>4 DEF Tick
    <2> QED BY <2>1, <2>3, <2>4 DEF LogInv
<1>5. CASE UNCHANGED <<log, session>> /\ behind' \in {behind, ~behind}
    BY <1>5 DEF LogInv, Traced
<1> QED BY <1>1, <1>2, <1>3, <1>4, <1>5, StepOfTheLog

LEMMA InitLogInv == Init => LogInv
<1> SUFFICES ASSUME Init PROVE LogInv
    OBVIOUS
<1>1. log \in Seq(Entry) /\ Len(log) = 0 /\ session = 0 /\ behind = FALSE
    BY EmptySeq DEF Init
<1>2. MaxLines \in Nat
    BY StationLogAssumption
<1>3. Traced
    BY <1>1 DEF Traced
<1>4. Len(log) <= MaxLines /\ session \in 0..MaxLines
    BY <1>1, <1>2
<1>5. behind \in BOOLEAN
    BY <1>1
<1> QED BY <1>1, <1>3, <1>4, <1>5 DEF LogInv

\* For every window, every tail and every log: what is reported of the log happened
\* within the window, unless the tail begins within a traceback.
THEOREM ErrorsAreRecent == Spec => []FatalIsRecent
<1> DEFINE Inv == LogInv /\ FatalIsRecent
<1>1. Init => Inv
    BY InitLogInv DEF Init, FatalIsRecent
<1>2. Inv /\ [Next]_vars => Inv'
    <2> SUFFICES ASSUME Inv, [Next]_vars PROVE FatalIsRecent'
        BY NextLogInv
    <2>1. CASE Read
        <3> SUFFICES ASSUME record'.fatal = "log", LogWindow # 0
                     PROVE  \/ \E i \in DOMAIN log : /\ log[i].kind \in FatalKinds
                                                     /\ log[i].age <= LogWindow
                            \/ Scanned[1].kind = "body"
            BY <2>1 DEF FatalIsRecent, Read, rmsVars, Scanned
        <3>1. PICK journal \in BOOLEAN :
                  record'.fatal = IF seenAlive THEN Fatal(Scanned, journal) ELSE "none"
            <4>1. PICK evidence \in {"none", "network: kernel UDP buffer"}, journal \in BOOLEAN :
                      record' = [fatal |-> IF seenAlive THEN Fatal(Scanned, journal) ELSE "none",
                                 cause |-> DropCause(Scanned, evidence),
                                 processing |-> Processing(seenAlive)]
                BY <2>1 DEF Read
            <4> QED BY <4>1
        <3>2. Fatal(Scanned, journal) = "log"
            BY <3>1
        <3>3. Count(Scanned, FatalKinds) > 0
            BY <3>2, Zenon DEF Fatal
        <3> QED BY <3>3, ErrorsAreDated
    <2>2. CASE UNCHANGED vars
        BY <2>2 DEF vars, rmsVars, cycleVars, FatalIsRecent, Scanned
    <2>3. ASSUME pc' # "judged" PROVE FatalIsRecent'
        BY <2>3 DEF FatalIsRecent
    <2> QED
        BY <2>1, <2>2, <2>3
        DEF Next, Launch, OpenLog, Crash, Lag, Connect, Transition, Report, Conceal, Raise,
            StartProcessing, EndProcessing, Tick, Acts, Scan, Sleep, cycleVars
<1> QED BY <1>1, <1>2, PTL DEF Spec

-----------------------------------------------------------------------------
(* Back-pressure. *)

Aging == \A i, j \in 1..Len(log) : i < j => log[j].age <= log[i].age

\* A buffer is full because the consumer lags, or by the pipeline built just before.
Explained ==
    \A i \in 1..Len(log) :
      log[i].kind = "buffer" /\ log[i].fill = High
        => \/ log[i].lagging
           \/ \E k \in 1..(i - 1) : log[k].kind = "pipeline" /\ log[k].age = log[i].age

Fresh == spiking => \E k \in 1..Len(log) : log[k].kind = "pipeline" /\ log[k].age = 0

SpikeInv == Aging /\ Explained /\ Fresh

LEMMA NextSpikeInv ==
    ASSUME LogInv, SpikeInv, [Next]_vars PROVE SpikeInv'
<1>0. Len(log) \in Nat /\ \A i \in 1..Len(log) : log[i] \in Entry /\ log[i].age \in 0..Old
    <2>1. Len(log) \in Nat /\ \A i \in 1..Len(log) : log[i] \in Entry
        BY LenProperties, ElementOfSeq DEF LogInv
    <2> QED BY <2>1 DEF Entry
<1>o. Old \in Nat
    BY StationLogAssumption
<1>1. CASE OneLine
    <2>1. PICK line \in Entry : Written(line)
        BY <1>1, OneLineIsWritten
    <2>2. /\ Len(log) \in Nat
          /\ log' \in Seq(Entry) /\ Len(log') = Len(log) + 1
          /\ \A i \in 1..Len(log) : log'[i] = log[i]
          /\ log'[Len(log) + 1] = line
        BY <2>1, Appended DEF Written
    <2>3. line.age = 0 /\ (spiking' => spiking \/ line.kind = "pipeline")
        BY <2>1 DEF Written
    <2>4. Aging'
        <3> SUFFICES ASSUME NEW i \in 1..Len(log'), NEW j \in 1..Len(log'), i < j
                     PROVE  log'[j].age <= log'[i].age
            BY DEF Aging
        <3>1. i \in 1..Len(log) /\ log'[i] = log[i]
            BY <2>2
        <3>2. CASE j \in 1..Len(log)
            BY <2>2, <3>1, <3>2 DEF SpikeInv, Aging
        <3>3. CASE j = Len(log) + 1
            BY <1>0, <2>2, <2>3, <3>1, <3>3
        <3> QED BY <2>2, <3>2, <3>3
    <2>5. Explained'
        <3> SUFFICES ASSUME NEW i \in 1..Len(log'),
                            log'[i].kind = "buffer", log'[i].fill = High, ~log'[i].lagging
                     PROVE  \E k \in 1..(i - 1) :
                              log'[k].kind = "pipeline" /\ log'[k].age = log'[i].age
            BY DEF Explained
        <3>1. CASE i \in 1..Len(log)
            <4>1. PICK k \in 1..(i - 1) : log[k].kind = "pipeline" /\ log[k].age = log[i].age
                BY <2>2, <3>1 DEF SpikeInv, Explained
            <4>2. k \in 1..Len(log)
                BY <1>0, <3>1
            <4> QED BY <2>2, <3>1, <4>1, <4>2
        <3>2. CASE i = Len(log) + 1
            <4>1. spiking
                BY <2>1, <2>2, <3>2 DEF Written
            <4>2. PICK k \in 1..Len(log) : log[k].kind = "pipeline" /\ log[k].age = 0
                BY <4>1 DEF SpikeInv, Fresh
            <4>3. k \in 1..(i - 1)
                BY <1>0, <3>2
            <4> QED BY <2>2, <2>3, <3>2, <4>2, <4>3
        <3> QED BY <2>2, <3>1, <3>2
    <2>6. Fresh'
        <3>1. CASE spiking
            <4>1. PICK k \in 1..Len(log) : log[k].kind = "pipeline" /\ log[k].age = 0
                BY <3>1 DEF SpikeInv, Fresh
            <4> QED BY <2>2, <4>1 DEF Fresh
        <3>2. CASE line.kind = "pipeline"
            BY <2>2, <2>3, <3>2 DEF Fresh
        <3> QED BY <2>3, <3>1, <3>2 DEF Fresh
    <2> QED BY <2>4, <2>5, <2>6 DEF SpikeInv
<1>2. CASE Raise
    <2> DEFINE n == Len(log)
    <2>1. /\ n \in Nat /\ Len(log') = n + 2
          /\ \A i \in 1..n : log'[i] = log[i]
          /\ log'[n + 1].age = 0 /\ log'[n + 2].age = 0
          /\ log'[n + 1].kind # "buffer" /\ log'[n + 2].kind # "buffer"
        BY <1>2, Raised, LinesAreEntries DEF Kinds
    <2>2. spiking' = spiking
        BY <1>2 DEF Raise
    <2>3. \A i \in 1..n : log'[i].age \in 0..Old
        BY <1>0, <2>1
    <2>4. Aging'
        <3> SUFFICES ASSUME NEW i \in 1..(n + 2), NEW j \in 1..(n + 2), i < j
                     PROVE  log'[j].age <= log'[i].age
            BY <2>1 DEF Aging
        <3>1. CASE j \in 1..n
            BY <2>1, <3>1 DEF SpikeInv, Aging
        <3>2. CASE j \notin 1..n
            <4>1. log'[j].age = 0
                BY <2>1, <3>2
            <4>2. log'[i].age \in 0..Old
                BY <1>o, <2>1, <2>3
            <4> QED BY <4>1, <4>2
        <3> QED BY <3>1, <3>2
    <2>5. Explained'
        <3> SUFFICES ASSUME NEW i \in 1..(n + 2),
                            log'[i].kind = "buffer", log'[i].fill = High, ~log'[i].lagging
                     PROVE  \E k \in 1..(i - 1) :
                              log'[k].kind = "pipeline" /\ log'[k].age = log'[i].age
            BY <2>1 DEF Explained
        <3>1. i \in 1..n
            BY <2>1
        <3>2. PICK k \in 1..(i - 1) : log[k].kind = "pipeline" /\ log[k].age = log[i].age
            BY <2>1, <3>1 DEF SpikeInv, Explained
        <3> QED BY <2>1, <3>1, <3>2
    <2>6. Fresh'
        BY <2>1, <2>2 DEF SpikeInv, Fresh
    <2> QED BY <2>4, <2>5, <2>6 DEF SpikeInv
<1>3. CASE OpenLog
    <2>1. Len(log') = 0 /\ ~spiking'
        BY <1>3 DEF OpenLog
    <2> QED BY <2>1 DEF SpikeInv, Aging, Explained, Fresh
<1>4. CASE Tick
    <2>1. /\ Len(log') = Len(log)
          /\ \A i \in 1..Len(log) :
               /\ log'[i].age = Aged(log[i].age) /\ log'[i].kind = log[i].kind
               /\ log'[i].fill = log[i].fill /\ log'[i].lagging = log[i].lagging
        BY <1>4, Ticked
    <2>2. Aging'
        BY <1>0, <1>o, <2>1 DEF SpikeInv, Aging, Aged
    <2>3. Explained'
        <3> SUFFICES ASSUME NEW i \in 1..Len(log),
                            log'[i].kind = "buffer", log'[i].fill = High, ~log'[i].lagging
                     PROVE  \E k \in 1..(i - 1) :
                              log'[k].kind = "pipeline" /\ log'[k].age = log'[i].age
            BY <2>1 DEF Explained
        <3>1. PICK k \in 1..(i - 1) : log[k].kind = "pipeline" /\ log[k].age = log[i].age
            BY <2>1 DEF SpikeInv, Explained
        <3>2. k \in 1..Len(log)
            BY <1>0
        <3> QED BY <2>1, <3>1, <3>2
    <2>4. ~spiking'
        BY <1>4 DEF Tick
    <2> QED BY <2>2, <2>3, <2>4 DEF SpikeInv, Fresh
<1>5. CASE UNCHANGED <<log, session, spiking>>
    BY <1>5 DEF SpikeInv, Aging, Explained, Fresh
<1> QED BY <1>1, <1>2, <1>3, <1>4, <1>5, StepOfTheLog

\* A dated line of the tail whose age is within the window counts, if it is of a kind
\* that is counted.
LEMMA DatedLineCounts ==
    ASSUME NEW lines \in Seq(Entry), NEW kinds, NEW p \in 1..Len(lines),
           lines[p].kind \in kinds, lines[p].kind # "body",
           LogWindow = 0 \/ lines[p].age <= LogWindow
    PROVE  Count(lines, kinds) # 0
<1> DEFINE dated == {j \in 1..p : lines[j].kind # "body"}
           counted == {i \in DOMAIN lines : lines[i].kind \in kinds /\ InWindow(lines, i)}
<1>1. Len(lines) \in Nat /\ DOMAIN lines = 1..Len(lines)
    BY LenProperties
<1>2. Max(dated) = p
    <2>1. dated \in SUBSET Int /\ p \in dated /\ \A k \in dated : k <= p
        BY <1>1
    <2> HIDE DEF dated
    <2> QED BY <2>1, LargestPosition
<1>3. Carried(lines, p) = lines[p].age
    <2>1. dated # {}
        BY <1>1
    <2> QED BY <1>2, <2>1 DEF Carried
<1>4. p \in counted
    BY <1>1, <1>3 DEF InWindow
<1>5. IsFiniteSet(counted)
    <2>1. counted \in SUBSET (1..Len(lines)) /\ IsFiniteSet(1..Len(lines))
        BY <1>1, FS_Interval
    <2> HIDE DEF counted
    <2> QED BY <2>1, FS_Subset
<1>6. Count(lines, kinds) = Cardinality(counted)
    BY DEF Count
<1> HIDE DEF counted
<1> QED BY <1>4, <1>5, <1>6, FS_EmptySet

\* A high lead-up comes from a buffer line before the last drop.
LEMMA LeadUpLine ==
    ASSUME NEW lines \in Seq(Entry), LeadUp(lines) = High,
           NEW d \in DropLines(lines), \A k \in DropLines(lines) : k <= d
    PROVE  \E i \in BufferLines(lines) :
             /\ i < d /\ lines[i].fill = High
             /\ lines[i].age - lines[d].age <= SpikeWindow
<1> DEFINE drops == DropLines(lines)
           lead  == {i \in BufferLines(lines) :
                       /\ drops # {} /\ i < Max(drops)
                       /\ lines[i].age - lines[Max(drops)].age <= SpikeWindow}
           fills == {lines[i].fill : i \in lead}
<1>1. LeadUp(lines) = IF lead = {} THEN None ELSE Max(fills)
    BY DEF LeadUp
<1>2. Max(drops) = d
    <2>1. drops \in SUBSET Int
        BY LenProperties DEF DropLines, BufferLines
    <2> HIDE DEF drops
    <2> QED BY <2>1, LargestPosition DEF drops
<1>3. fills \in SUBSET {Low, High}
    <2> SUFFICES ASSUME NEW i \in DOMAIN lines PROVE lines[i].fill \in {Low, High}
        BY DEF BufferLines
    <2>1. lines[i] \in Entry
        BY ElementOfSeq, LenProperties
    <2> QED BY <2>1 DEF Entry
<1>4. lead # {} /\ Max(fills) = High
    BY <1>1 DEF None, High
<1>5. High \in fills
    <2> SUFFICES ASSUME High \notin fills PROVE FALSE
        OBVIOUS
    <2>1. fills # {}
        BY <1>4
    <2> HIDE DEF fills
    <2>2. fills = {Low}
        BY <1>3, <2>1
    <2>3. Low \in fills /\ (\A k \in fills : k <= Low) /\ fills \in SUBSET Int
        BY <2>2 DEF Low
    <2>4. Max(fills) = Low
        BY <2>3, LargestPosition
    <2> QED BY <1>4, <2>4 DEF Low, High
<1> QED BY <1>2, <1>5

\* Were the last drop put down to back-pressure and the consumer had kept up, the line of
\* the connection whose spike it was would be in the window and in the tail.
LEMMA SpikesAreDistrusted ==
    ASSUME LogInv, SpikeInv, SpikeIsCause(Scanned),
           NEW d \in DOMAIN Scanned, DropInReach(d)
    PROVE  \E i \in BufferLines(Scanned) :
             /\ i < d /\ Scanned[i].lagging
             /\ Scanned[i].age <= Scanned[d].age + SpikeWindow
<1>1. PICK k \in Nat : /\ Len(Scanned) + k = Len(log)
                       /\ Len(log) <= TailLines => k = 0
                       /\ \A j \in 1..Len(Scanned) : Scanned[j] = log[j + k]
    BY TailOfLog DEF LogInv
<1>2. /\ Scanned \in Seq(Entry)
      /\ DOMAIN Scanned = 1..Len(Scanned)
      /\ Len(Scanned) \in Nat /\ Len(log) \in Nat
    BY TailOfLog, LenProperties DEF LogInv
<1>3. \A j \in 1..Len(Scanned) : Scanned[j] \in Entry /\ Scanned[j].age \in 0..Old
    <2>1. \A j \in 1..Len(Scanned) : Scanned[j] \in Entry
        BY <1>2, ElementOfSeq
    <2> QED BY <2>1 DEF Entry
<1>4. Old \in Nat /\ LogWindow \in Nat /\ SpikeWindow \in Nat
    BY StationLogAssumption
<1>5. PICK i \in BufferLines(Scanned) :
        /\ i < d /\ Scanned[i].fill = High
        /\ Scanned[i].age - Scanned[d].age <= SpikeWindow
    BY <1>2, LeadUpLine DEF SpikeIsCause, DropInReach
<1>6. i \in 1..Len(Scanned) /\ Scanned[i].kind = "buffer"
    BY <1>2, <1>5 DEF BufferLines
<1>7. Scanned[i].age <= Scanned[d].age + SpikeWindow
    BY <1>2, <1>3, <1>4, <1>5, <1>6
<1> SUFFICES ASSUME ~Scanned[i].lagging PROVE FALSE
    BY <1>5, <1>7
<1>8. PICK q \in 1..(i + k - 1) : log[q].kind = "pipeline" /\ log[q].age = log[i + k].age
    <2>1. i + k \in 1..Len(log) /\ Scanned[i] = log[i + k]
        BY <1>1, <1>2, <1>6
    <2>2. log[i + k].kind = "buffer" /\ log[i + k].fill = High /\ ~log[i + k].lagging
        BY <1>5, <1>6, <2>1
    <2> DEFINE m == i + k
    <2>3. Explained /\ m \in 1..Len(log)
        BY <2>1 DEF SpikeInv
    <2>4. m - 1 = i + k - 1
        BY <1>2, <1>6
    <2> HIDE DEF m
    <2>5. log[m].kind = "buffer" /\ log[m].fill = High /\ ~log[m].lagging
        BY <2>2 DEF m
    <2>6. \E q \in 1..(m - 1) : log[q].kind = "pipeline" /\ log[q].age = log[m].age
        BY <2>3, <2>5 DEF Explained
    <2> QED BY <2>4, <2>6 DEF m
<1>9. log[q].age = Scanned[i].age /\ q \in 1..Len(log)
    BY <1>1, <1>2, <1>6, <1>8
<1>10. q > k
    <2>1. CASE k = 0
        BY <1>1, <1>6, <1>8, <2>1
    <2>2. CASE Scanned[1].age > Scanned[d].age + SpikeWindow
        <3> SUFFICES ASSUME q <= k PROVE FALSE
            BY <1>1, <1>9
        <3>1. 1 + k \in 1..Len(log) /\ q < 1 + k /\ Scanned[1] = log[1 + k] /\ 1 \in 1..Len(Scanned)
            BY <1>1, <1>2, <1>6, <1>9
        <3>2. log[1 + k].age <= log[q].age
            BY <1>9, <3>1 DEF SpikeInv, Aging
        <3>3. Scanned[1].age <= Scanned[i].age
            BY <1>9, <3>1, <3>2
        <3> QED BY <1>2, <1>3, <1>4, <1>6, <1>7, <2>2, <3>1, <3>3
    <2> QED BY <1>1, <2>1, <2>2 DEF DropInReach
<1>11. q - k \in 1..Len(Scanned) /\ Scanned[q - k] = log[q]
    <2>1. q - k \in 1..Len(Scanned) /\ (q - k) + k = q
        BY <1>1, <1>2, <1>9, <1>10
    <2> QED BY <1>1, <2>1
<1>12. LogWindow = 0 \/ Scanned[q - k].age <= LogWindow
    <2>1. LogWindow = 0 \/ Scanned[d].age + SpikeWindow <= LogWindow
        BY DEF DropInReach
    <2>2. d \in 1..Len(Scanned) /\ Scanned[q - k].age = Scanned[i].age
        BY <1>2, <1>9, <1>11
    <2>3. Scanned[d].age \in 0..Old /\ Scanned[i].age \in 0..Old
        BY <1>3, <1>6, <2>2
    <2>4. CASE Scanned[d].age + SpikeWindow <= LogWindow
        <3>1. Scanned[i].age <= LogWindow
            BY <1>4, <1>7, <2>3, <2>4
        <3> QED BY <2>2, <3>1
    <2> QED BY <2>1, <2>4
<1>13. Count(Scanned, {"pipeline"}) # 0
    BY <1>2, <1>8, <1>11, <1>12, DatedLineCounts
<1> QED BY <1>13 DEF SpikeIsCause

\* For all windows and every tail: where the last drop and its lead-up are in reach,
\* back-pressure is claimed only if the consumer was behind before it.
THEOREM BackpressureIsNoSpike == Spec => []BackpressureIsEarned
<1> DEFINE Inv == LogInv /\ SpikeInv /\ BackpressureIsEarned
<1>1. Init => Inv
    <2> SUFFICES ASSUME Init PROVE SpikeInv /\ BackpressureIsEarned
        BY InitLogInv
    <2>1. Len(log) = 0 /\ ~spiking /\ pc # "judged"
        BY DEF Init
    <2>2. Aging /\ Explained /\ Fresh
        BY <2>1 DEF Aging, Explained, Fresh
    <2> QED BY <2>1, <2>2 DEF SpikeInv, BackpressureIsEarned
<1>2. Inv /\ [Next]_vars => Inv'
    <2> SUFFICES ASSUME Inv, [Next]_vars PROVE BackpressureIsEarned'
        BY NextLogInv, NextSpikeInv
    <2>1. CASE Read
        <3>1. log' = log
            BY <2>1 DEF Read, rmsVars
        <3>2. PICK evidence \in {"none", "network: kernel UDP buffer"} :
                  record'.cause = DropCause(Scanned, evidence)
            <4>1. PICK evidence \in {"none", "network: kernel UDP buffer"}, journal \in BOOLEAN :
                      record' = [fatal |-> IF seenAlive THEN Fatal(Scanned, journal) ELSE "none",
                                 cause |-> DropCause(Scanned, evidence),
                                 processing |-> Processing(seenAlive)]
                BY <2>1 DEF Read
            <4> QED BY <4>1
        <3> SUFFICES ASSUME DropCause(Scanned, evidence) = "cpu/io back-pressure",
                            NEW d \in DOMAIN Scanned, DropInReach(d)
                     PROVE  \E i \in BufferLines(Scanned) :
                              /\ i < d /\ Scanned[i].lagging
                              /\ Scanned[i].age <= Scanned[d].age + SpikeWindow
            BY <3>1, <3>2 DEF BackpressureIsEarned, DropInReach, Scanned
        <3>3. SpikeIsCause(Scanned)
            BY Zenon DEF DropCause
        <3> QED BY <3>3, SpikesAreDistrusted
    <2>2. CASE UNCHANGED vars
        BY <2>2 DEF vars, rmsVars, cycleVars, BackpressureIsEarned, DropInReach, Scanned
    <2>3. ASSUME pc' # "judged" PROVE BackpressureIsEarned'
        BY <2>3 DEF BackpressureIsEarned
    <2> QED
        BY <2>1, <2>2, <2>3
        DEF Next, Launch, OpenLog, Crash, Lag, Connect, Transition, Report, Conceal, Raise,
            StartProcessing, EndProcessing, Tick, Acts, Scan, Sleep, cycleVars
<1> QED BY <1>1, <1>2, PTL DEF Spec

-----------------------------------------------------------------------------
(* Processing runs, and types. *)

Underway(lines) ==
    \E i \in DOMAIN lines :
      lines[i].kind = "begin" /\ \A j \in DOMAIN lines : lines[j].kind = "end" => j < i

\* The log of a process that has opened one is in a run exactly when RMS is.
RunInv ==
    /\ alive \in BOOLEAN /\ opened \in BOOLEAN /\ stirred \in BOOLEAN
    /\ phase \in {"capture", "processing"}
    /\ opened => alive /\ (Underway(log) <=> phase = "processing")
    /\ ~opened => phase = "capture"
    /\ pc = "scanned" /\ ~stirred => seenAlive = alive

\* Lines that begin or end no run.
LEMMA OtherLines ==
    ASSUME Len(log) \in Nat, log \in Seq(Entry), log' \in Seq(Entry), Len(log') \in Nat,
           Len(log) <= Len(log'),
           \A i \in 1..Len(log) : log'[i].kind = log[i].kind,
           \A i \in 1..Len(log') : i \notin 1..Len(log) => log'[i].kind \notin {"begin", "end"}
    PROVE  Underway(log)' <=> Underway(log)
<1>1. DOMAIN log = 1..Len(log) /\ DOMAIN log' = 1..Len(log')
    BY LenProperties
<1>2. \A i \in 1..Len(log') : log'[i].kind \in {"begin", "end"} => i \in 1..Len(log)
    OBVIOUS
<1>3. \A i \in 1..Len(log) : i \in 1..Len(log')
    OBVIOUS
<1>4. ASSUME Underway(log) PROVE Underway(log)'
    <2>1. PICK i \in 1..Len(log) :
            log[i].kind = "begin" /\ \A j \in 1..Len(log) : log[j].kind = "end" => j < i
        BY <1>1, <1>4 DEF Underway
    <2>2. i \in 1..Len(log') /\ log'[i].kind = "begin"
        BY <1>3, <2>1
    <2>3. \A j \in 1..Len(log') : log'[j].kind = "end" => j < i
        BY <1>2, <2>1
    <2> QED BY <1>1, <2>2, <2>3 DEF Underway
<1>5. ASSUME Underway(log)' PROVE Underway(log)
    <2>1. PICK i \in 1..Len(log') :
            log'[i].kind = "begin" /\ \A j \in 1..Len(log') : log'[j].kind = "end" => j < i
        BY <1>1, <1>5 DEF Underway
    <2>2. i \in 1..Len(log) /\ log[i].kind = "begin"
        BY <1>2, <2>1
    <2>3. \A j \in 1..Len(log) : log[j].kind = "end" => j < i
        BY <1>3, <2>1
    <2> QED BY <1>1, <2>2, <2>3 DEF Underway
<1> QED BY <1>4, <1>5

LEMMA NextRunInv ==
    ASSUME LogInv, RunInv, [Next]_vars PROVE RunInv'
<1>0. Len(log) \in Nat /\ log \in Seq(Entry) /\ LogInv'
    BY LenProperties, NextLogInv DEF LogInv
<1>1. CASE OneLine
    <2>1. PICK line \in Entry : Written(line)
        BY <1>1, OneLineIsWritten
    <2>2. /\ log' \in Seq(Entry) /\ Len(log') = Len(log) + 1
          /\ \A i \in 1..Len(log) : log'[i] = log[i]
          /\ log'[Len(log) + 1] = line
        BY <2>1, Appended DEF Written
    <2>3. DOMAIN log' = 1..(Len(log) + 1)
        BY <2>2, LenProperties
    <2>4. /\ stirred' = (pc # "sleep") /\ pc' = pc /\ alive' = alive /\ opened' = opened /\ opened
          /\ pc # "judged" /\ seenAlive' = seenAlive /\ ~stirred
        BY <1>1
        DEF OneLine, Connect, Transition, Report, Conceal, StartProcessing, EndProcessing, Acts
    <2>5. Underway(log)' <=> phase' = "processing"
        <3>1. CASE line.kind = "begin"
            <4>1. \A j \in 1..(Len(log) + 1) : log'[j].kind = "end" => j < Len(log) + 1
                BY <1>0, <2>2, <3>1
            <4>2. Underway(log)'
                BY <1>0, <2>2, <2>3, <3>1, <4>1 DEF Underway
            <4> QED BY <2>1, <3>1, <4>2 DEF Written
        <3>2. CASE line.kind = "end"
            <4>1. ASSUME Underway(log)' PROVE FALSE
                <5>1. PICK i \in 1..(Len(log) + 1) :
                        \A j \in 1..(Len(log) + 1) : log'[j].kind = "end" => j < i
                    BY <2>3, <4>1 DEF Underway
                <5> QED BY <1>0, <2>2, <3>2, <5>1
            <4>2. phase' = "capture"
                BY <2>1, <3>2 DEF Written
            <4> QED BY <4>1, <4>2
        <3>3. CASE line.kind \notin {"begin", "end"}
            <4>1. Underway(log)' <=> Underway(log)
                <5>1. \A i \in 1..Len(log') :
                        i \notin 1..Len(log) => log'[i].kind \notin {"begin", "end"}
                    BY <1>0, <2>2, <3>3
                <5> QED BY <1>0, <2>2, <5>1, OtherLines
            <4>2. phase' = phase
                BY <2>1, <3>3 DEF Written
            <4> QED BY <2>4, <4>1, <4>2 DEF RunInv
        <3> QED BY <3>1, <3>2, <3>3
    <2>6. phase' \in {"capture", "processing"}
        BY <2>1 DEF Written, RunInv
    <2>7. stirred' \in BOOLEAN
        BY <2>4
    <2>8. pc' = "scanned" => stirred'
        BY <2>4
    <2> QED BY <2>4, <2>5, <2>6, <2>7, <2>8 DEF RunInv
<1>2. CASE Raise \/ Tick
    <2>1. Underway(log)' <=> Underway(log)
        <3>1. CASE Raise
            <4>1. /\ log' \in Seq(Entry) /\ Len(log') = Len(log) + 2
                  /\ \A i \in 1..Len(log) : log'[i] = log[i]
                  /\ log'[Len(log) + 1].kind = "traceback" /\ log'[Len(log) + 2].kind = "body"
                BY <3>1, Raised, LinesAreEntries DEF Kinds
            <4>2. \A i \in 1..Len(log') :
                    i \notin 1..Len(log) => log'[i].kind \notin {"begin", "end"}
                BY <1>0, <4>1
            <4> QED BY <1>0, <4>1, <4>2, OtherLines
        <3>2. CASE Tick
            <4>1. /\ log' \in Seq(Entry) /\ Len(log') = Len(log)
                  /\ \A i \in 1..Len(log) : log'[i].kind = log[i].kind
                BY <3>2, Ticked
            <4> QED BY <1>0, <4>1, OtherLines
        <3> QED BY <1>2, <3>1, <3>2
    <2>2. /\ UNCHANGED <<alive, opened, phase>> /\ stirred' \in BOOLEAN
          /\ pc' = pc /\ (pc' = "scanned" => stirred')
        BY <1>2 DEF Raise, Tick, Acts, cycleVars, RunInv
    <2> QED BY <2>1, <2>2 DEF RunInv
<1>3. CASE OpenLog
    <2>1. log' = <<>> /\ alive' = alive /\ alive /\ opened' = TRUE /\ phase' = phase
          /\ stirred' = (pc # "sleep") /\ pc' = pc /\ ~opened
        BY <1>3 DEF OpenLog, Acts
    <2>2. ~Underway(log)'
        BY <2>1, EmptySeq DEF Underway
    <2> QED BY <2>1, <2>2 DEF RunInv
<1>4. CASE Launch \/ Crash \/ Lag
    <2>1. UNCHANGED log /\ stirred' = (pc # "sleep") /\ pc' = pc
        BY <1>4 DEF Launch, Crash, Lag, Acts
    <2>2. CASE Launch \/ Crash
        <3>1. alive' \in BOOLEAN /\ opened' = FALSE /\ phase' = "capture"
            BY <2>2 DEF Launch, Crash
        <3> QED BY <2>1, <3>1 DEF RunInv
    <2>3. CASE Lag
        <3>1. UNCHANGED <<alive, opened, phase>>
            BY <2>3 DEF Lag
        <3> QED BY <2>1, <3>1 DEF RunInv
    <2> QED BY <1>4, <2>2, <2>3
<1>5. CASE Scan \/ Read \/ Sleep
    <2>1. UNCHANGED <<alive, opened, phase, log>>
        BY <1>5 DEF Scan, Read, Sleep, rmsVars
    <2>2. stirred' \in BOOLEAN
        BY <1>5 DEF Scan, Read, Sleep, RunInv
    <2>3. pc' = "scanned" => seenAlive' = alive'
        BY <1>5, <2>1 DEF Scan, Read, Sleep
    <2> QED BY <2>1, <2>2, <2>3 DEF RunInv
<1>6. CASE UNCHANGED vars
    BY <1>6 DEF vars, rmsVars, cycleVars, RunInv
<1> QED BY <1>1, <1>2, <1>3, <1>4, <1>5, <1>6 DEF Next, OneLine

LEMMA InitRunInv == Init => RunInv
BY DEF Init, RunInv

\* For every log and every crash: a processing run is reported exactly while there is one.
THEOREM ProcessingIsReported == Spec => []ProcessingIsExact
<1> DEFINE Inv == LogInv /\ RunInv /\ ProcessingIsExact
<1>1. Init => Inv
    BY InitLogInv, InitRunInv DEF Init, ProcessingIsExact
<1>2. Inv /\ [Next]_vars => Inv'
    <2> SUFFICES ASSUME Inv, [Next]_vars PROVE ProcessingIsExact'
        BY NextLogInv, NextRunInv
    <2>1. CASE Read
        <3>1. record'.processing = Processing(seenAlive)
            <4>1. PICK evidence \in {"none", "network: kernel UDP buffer"}, journal \in BOOLEAN :
                      record' = [fatal |-> IF seenAlive THEN Fatal(Scanned, journal) ELSE "none",
                                 cause |-> DropCause(Scanned, evidence),
                                 processing |-> Processing(seenAlive)]
                BY <2>1 DEF Read
            <4> QED BY <4>1
        <3>2. pc = "scanned" /\ UNCHANGED <<alive, opened, phase, stirred>>
            BY <2>1 DEF Read, rmsVars
        <3> SUFFICES ASSUME ~stirred, alive => opened
                     PROVE  record'.processing = "begin" <=> phase = "processing"
            BY <3>2 DEF ProcessingIsExact
        <3>3. seenAlive = alive
            BY <3>2 DEF RunInv
        <3>4. InProcessing(log) = IF Underway(log) THEN "begin" ELSE "none"
            BY DEF InProcessing, Underway
        <3>5. CASE alive
            BY <3>1, <3>3, <3>4, <3>5 DEF Processing, RunInv
        <3>6. CASE ~alive
            BY <3>1, <3>3, <3>6 DEF Processing, RunInv
        <3> QED BY <3>5, <3>6
    <2>2. CASE UNCHANGED vars
        BY <2>2 DEF vars, rmsVars, cycleVars, ProcessingIsExact
    <2>3. ASSUME pc' # "judged" PROVE ProcessingIsExact'
        BY <2>3 DEF ProcessingIsExact
    <2> QED
        BY <2>1, <2>2, <2>3
        DEF Next, Launch, OpenLog, Crash, Lag, Connect, Transition, Report, Conceal, Raise,
            StartProcessing, EndProcessing, Tick, Acts, Scan, Sleep, cycleVars
<1> QED BY <1>1, <1>2, PTL DEF Spec

\* The monitor's part of the state.
CycleTypes ==
    /\ spiking \in BOOLEAN /\ pc \in {"sleep", "scanned", "judged"} /\ seenAlive \in BOOLEAN
    /\ record.fatal \in {"none", "log", "journal"} /\ record.processing \in {"none", "begin"}

\* Every variable has its type, for every length of the log and of the windows.
THEOREM TypeCorrect == Spec => []TypeOK
<1> DEFINE Inv == LogInv /\ RunInv /\ CycleTypes
<1>1. Init => Inv
    <2> SUFFICES ASSUME Init PROVE CycleTypes
        BY InitLogInv, InitRunInv
    <2>1. record.fatal = "none" /\ record.processing = "none" /\ pc = "sleep"
        BY DEF Init, NoRecord
    <2>2. spiking \in BOOLEAN /\ seenAlive \in BOOLEAN
        BY DEF Init
    <2> QED BY <2>1, <2>2 DEF CycleTypes
<1>2. Inv /\ [Next]_vars => Inv'
    <2> SUFFICES ASSUME Inv, [Next]_vars PROVE CycleTypes'
        BY NextLogInv, NextRunInv
    <2>1. CASE Read
        <3>1. PICK evidence \in {"none", "network: kernel UDP buffer"}, journal \in BOOLEAN :
                  record' = [fatal |-> IF seenAlive THEN Fatal(Scanned, journal) ELSE "none",
                             cause |-> DropCause(Scanned, evidence),
                             processing |-> Processing(seenAlive)]
            BY <2>1 DEF Read
        <3>2. Fatal(Scanned, journal) \in {"none", "log", "journal"}
            <4> DEFINE n == Count(Scanned, FatalKinds)
            <4>1. Fatal(Scanned, journal) =
                    CASE n > 0 -> "log" [] n = 0 /\ journal -> "journal" [] OTHER -> "none"
                BY DEF Fatal
            <4> HIDE DEF n
            <4> QED BY <4>1
        <3>3. Processing(seenAlive) \in {"none", "begin"}
            BY DEF Processing, InProcessing
        <3>4. /\ record'.fatal = IF seenAlive THEN Fatal(Scanned, journal) ELSE "none"
              /\ record'.processing = Processing(seenAlive)
            BY <3>1
        <3>5. pc' = "judged" /\ seenAlive' = FALSE /\ spiking' = spiking
            BY <2>1 DEF Read, rmsVars
        <3> QED BY <3>2, <3>3, <3>4, <3>5 DEF CycleTypes
    <2>2. CASE Scan \/ Sleep
        BY <2>2 DEF Scan, Sleep, NoRecord, rmsVars, RunInv, CycleTypes
    <2>3. CASE UNCHANGED cycleVars \/ UNCHANGED <<pc, seenAlive, record>>
        <3>1. spiking' \in BOOLEAN
            BY <2>3 DEF CycleTypes, Next, Launch, OpenLog, Crash, Lag, Connect, Transition,
               Report, Conceal, Raise, StartProcessing, EndProcessing, Tick, Scan, Read, Sleep,
               vars, rmsVars
        <3> QED BY <2>3, <3>1 DEF CycleTypes, cycleVars
    <2> QED
        BY <2>1, <2>2, <2>3
        DEF Next, Launch, OpenLog, Crash, Lag, Connect, Transition, Report, Conceal, Raise,
            StartProcessing, EndProcessing, Tick, Acts, cycleVars, vars
<1>3. Inv => TypeOK
    <2> SUFFICES ASSUME Inv PROVE \A i \in DOMAIN log : log[i].kind \in Kinds /\ log[i].age \in 0..Old
        BY DEF TypeOK, LogInv, RunInv, CycleTypes
    <2>1. \A i \in DOMAIN log : log[i] \in Entry
        BY ElementOfSeq, LenProperties DEF LogInv
    <2> QED BY <2>1 DEF Entry
<1> QED BY <1>1, <1>2, <1>3, PTL DEF Spec

=============================================================================
