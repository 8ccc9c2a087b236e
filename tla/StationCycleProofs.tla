-------------------------- MODULE StationCycleProofs --------------------------
(***************************************************************************)
(* Theorems of StationCycle: its types, that standby is earned, that heavy *)
(* probes back off, and that the records are as promised, for any number   *)
(* of stations, any grace period and probe intervals, and any number of    *)
(* changes of the world, failed cycles and restarts.                       *)
(***************************************************************************)
EXTENDS StationCycle, FiniteSetTheorems, WellFoundedInduction, TLAPS

USE StationCycleAssumption

\* Cap bounds, and preserves the order of what it bounds.
LEMMA CapBounds ==
    ASSUME NEW max \in Nat, NEW n \in Nat
    PROVE  Cap(n, max) \in 0..max /\ Cap(n, max) <= n
    BY DEF Cap

LEMMA CapMonotone ==
    ASSUME NEW max \in Nat, NEW m \in Nat, NEW n \in Nat, m <= n
    PROVE  Cap(m, max) <= Cap(n, max)
    BY DEF Cap

\* A clock that runs has an age.
LEMMA RunningClock ==
    ASSUME NEW age \in NotTracked..Grace, age # NotTracked, NEW d \in 0..Grace
    PROVE  age \in 0..Grace /\ age + d \in Nat
    BY DEF NotTracked

-----------------------------------------------------------------------------
(* Types. *)

LEMMA InitTypeOK == Init => TypeOK
<1> SUFFICES ASSUME Init PROVE TypeOK
    OBVIOUS
<1> USE DEF Init
<1>1. unreachable \in [Stations -> NotTracked..Grace] /\ standby \subseteq Stations
    BY DEF NotTracked
<1>2. escalate \in [Stations -> [wait : 0..ProbeMax, interval : 0..ProbeMax]]
    BY DEF NoBackoff
<1>3. calm \in [Stations -> 0..Grace] /\ elapsed \in 0..Grace
    OBVIOUS
<1>4. probes \in [Stations -> 0..ManyProbes] /\ gap \in [Stations -> 0..ProbeMax]
    BY DEF ManyProbes
<1>5. changes \in 0..MaxChanges /\ faults \in 0..MaxFaults
    OBVIOUS
<1> QED BY <1>1, <1>2, <1>3, <1>4, <1>5 DEF TypeOK

\* Every action keeps the types.
LEMMA NextTypeOK == TypeOK /\ [Next]_vars => TypeOK'
<1> SUFFICES ASSUME TypeOK, [Next]_vars PROVE TypeOK'
    OBVIOUS
<1> USE DEF TypeOK
<1>1. CASE Begin
    <2>1. unreachable' \in [Stations -> NotTracked..Grace]
        <3>1. ASSUME NEW s \in Stations, unreachable[s] # NotTracked
              PROVE  Cap(unreachable[s] + elapsed, Grace) \in NotTracked..Grace
            <4>1. unreachable[s] \in NotTracked..Grace /\ elapsed \in 0..Grace
                OBVIOUS
            <4>2. unreachable[s] + elapsed \in Nat
                BY <3>1, <4>1, RunningClock
            <4> QED BY <4>2, CapBounds DEF NotTracked
        <3> QED BY <1>1, <3>1 DEF Begin, NotTracked
    <2>2. calm' \in [Stations -> 0..Grace]
        BY <1>1, CapBounds DEF Begin
    <2> QED BY <1>1, <2>1, <2>2 DEF Begin, worldVars, probeVars
<1>2. ASSUME NEW s \in Stations, Visit(s) PROVE TypeOK'
    BY <1>2 DEF Visit, worldVars, clockVars, probeVars
<1>3. ASSUME NEW isStalled, NEW reachable, Track(cur, isStalled, reachable)
      PROVE  unreachable' \in [Stations -> NotTracked..Grace]
    BY <1>3 DEF Track, NotTracked
<1>4. CASE Recheck
    <2>1. unreachable' \in [Stations -> NotTracked..Grace]
        BY <1>3, <1>4 DEF Recheck
    <2>2. standby' \subseteq Stations /\ calm' \in [Stations -> 0..Grace]
        <3>1. 0 \in 0..Grace
            OBVIOUS
        <3>2. [calm EXCEPT ![cur] = 0] \in [Stations -> 0..Grace]
            BY <3>1
        <3> QED BY <1>4, <3>2 DEF Recheck
    <2>3. pc' \in {"next", "collect"}
        BY <1>4 DEF Recheck
    <2> QED BY <1>4, <2>1, <2>2, <2>3 DEF Recheck, worldVars, probeVars
<1>5. CASE Collect
    <2>1. NoBackoff \in [wait : 0..ProbeMax, interval : 0..ProbeMax]
        BY DEF NoBackoff
    <2>2. escalate' \in [Stations -> [wait : 0..ProbeMax, interval : 0..ProbeMax]]
        BY <1>5, <2>1 DEF Collect, ShouldEscalate
    <2>3. 0 \in 0..ManyProbes
        BY DEF ManyProbes
    <2>4. probes' \in [Stations -> 0..ManyProbes] /\ pc' \in {"probe", "judge"}
        BY <1>5, <2>3 DEF Collect, ShouldEscalate
    <2> QED BY <1>5, <2>2, <2>4 DEF Collect, worldVars, clockVars
<1>6. CASE Probe
    <2> DEFINE last == escalate[cur].interval
               next == IF last = 0 THEN ProbeMin ELSE Cap(last * 2, ProbeMax)
    <2>1. next \in 0..ProbeMax
        <3>1. last \in Nat /\ last * 2 \in Nat
            OBVIOUS
        <3>2. Cap(last * 2, ProbeMax) \in 0..ProbeMax
            BY <3>1, CapBounds
        <3> QED BY <3>2
    <2>2. escalate' \in [Stations -> [wait : 0..ProbeMax, interval : 0..ProbeMax]]
        BY <1>6, <2>1 DEF Probe
    <2>3. probes' \in [Stations -> 0..ManyProbes]
        <3>1. probes[cur] + 1 \in Nat /\ ManyProbes \in Nat
            BY DEF ManyProbes
        <3> QED BY <1>6, <3>1, CapBounds DEF Probe
    <2> QED BY <1>6, <2>2, <2>3 DEF Probe, worldVars, clockVars
<1>7. CASE Judge
    <2>1. unreachable' \in [Stations -> NotTracked..Grace]
        BY <1>3, <1>7 DEF Judge
    <2> QED BY <1>7, <2>1 DEF Judge, worldVars, probeVars
<1>8. CASE Done
    BY <1>8 DEF Done, worldVars, clockVars, probeVars
<1>9. CASE CycleError
    BY <1>9 DEF CycleError, worldVars, clockVars, probeVars
<1>10. CASE Restart
    BY <1>10 DEF Restart, worldVars, NotTracked, NoBackoff, ManyProbes
<1>11. CASE Tick
    <2>1. elapsed' \in 0..Grace
        BY <1>11, CapBounds DEF Tick
    <2>2. gap' \in [Stations -> 0..ProbeMax]
        <3>1. \A s \in Stations : Cap(gap[s] + 1, ProbeMax) \in 0..ProbeMax
            <4>1. \A s \in Stations : gap[s] + 1 \in Nat
                OBVIOUS
            <4> QED BY <4>1, CapBounds
        <3> QED BY <1>11, <3>1 DEF Tick
    <2>3. escalate' \in [Stations -> [wait : 0..ProbeMax, interval : 0..ProbeMax]]
        <3>1. ASSUME NEW s \in Stations
              PROVE  LET left == escalate[s].wait
                     IN  /\ (IF left = 0 THEN 0 ELSE left - 1) \in 0..ProbeMax
                         /\ escalate[s].interval \in 0..ProbeMax
            <4>1. escalate[s] \in [wait : 0..ProbeMax, interval : 0..ProbeMax]
                OBVIOUS
            <4>2. escalate[s].wait \in 0..ProbeMax /\ escalate[s].interval \in 0..ProbeMax
                BY <4>1
            <4>3. ASSUME NEW left \in 0..ProbeMax
                  PROVE  (IF left = 0 THEN 0 ELSE left - 1) \in 0..ProbeMax
                OBVIOUS
            <4> QED BY <4>2, <4>3
        <3> QED BY <1>11, <3>1 DEF Tick
    <2> QED BY <1>11, <2>1, <2>2, <2>3 DEF Tick, worldVars, visitVars
<1>12. ASSUME NEW s \in Stations, Change(s) PROVE TypeOK'
    <2>1. changes' \in 0..MaxChanges
        BY <1>12 DEF Change
    <2>2. camera' \in [Stations -> Ping] /\ output' \in [Stations -> {"flows", "stalled"}]
        BY <1>12 DEF Change
    <2>3. drops' \in [Stations -> DropCause] /\ listed' \subseteq Stations
        BY <1>12 DEF Change
    <2> QED BY <1>12, <2>1, <2>2, <2>3 DEF Change, visitVars, clockVars, probeVars
<1>13. CASE UNCHANGED vars
    BY <1>13 DEF vars, worldVars, visitVars, clockVars, probeVars
<1> QED BY <1>1, <1>2, <1>4, <1>5, <1>6, <1>7, <1>8, <1>9, <1>10, <1>11, <1>12, <1>13
        DEF Next, Loop

\* The clocks, back-offs and sets of gather keep their types, and no clock runs
\* beyond the grace period.
THEOREM TypeCorrect == Spec => []TypeOK
    BY InitTypeOK, NextTypeOK, PTL DEF Spec

-----------------------------------------------------------------------------
(* Standby is earned. *)

\* A clock never claims more than the history bears out, and a station visited in
\* full is not in standby: Judge could otherwise see it well and leave it there.
ClockInv ==
    /\ TypeOK
    /\ StandbyIsEarned
    /\ \A s \in Stations : calm[s] >= unreachable[s]
    /\ pc \in {"collect", "probe", "judge"} => cur \notin standby

LEMMA InitClockInv == Init => ClockInv
    BY InitTypeOK DEF Init, ClockInv, StandbyIsEarned, NotTracked

LEMMA NextClockInv == ClockInv /\ [Next]_vars => ClockInv'
<1> SUFFICES ASSUME ClockInv, [Next]_vars PROVE ClockInv'
    OBVIOUS
<1>0. TypeOK /\ TypeOK'
    BY NextTypeOK DEF ClockInv
<1>1. CASE Begin
    <2>1. ASSUME NEW s \in Stations PROVE calm'[s] >= unreachable'[s]
        <3>1. calm'[s] = Cap(calm[s] + elapsed, Grace) /\ calm'[s] \in Nat
            BY <1>0, <1>1 DEF Begin, TypeOK
        <3>2. CASE unreachable[s] = NotTracked
            BY <1>1, <3>1, <3>2 DEF Begin, NotTracked
        <3>3. CASE unreachable[s] # NotTracked
            <4>1. /\ unreachable[s] + elapsed \in Nat /\ calm[s] + elapsed \in Nat
                  /\ unreachable[s] + elapsed <= calm[s] + elapsed
                <5>1. /\ unreachable[s] \in NotTracked..Grace /\ calm[s] \in 0..Grace
                      /\ elapsed \in 0..Grace /\ calm[s] >= unreachable[s]
                    BY <1>0 DEF ClockInv, TypeOK
                <5>2. unreachable[s] \in 0..Grace /\ unreachable[s] + elapsed \in Nat
                    BY <3>3, <5>1, RunningClock
                <5> QED BY <5>1, <5>2
            <4>2. unreachable'[s] = Cap(unreachable[s] + elapsed, Grace)
                BY <1>1, <3>3 DEF Begin
            <4>3. Cap(unreachable[s] + elapsed, Grace) <= Cap(calm[s] + elapsed, Grace)
                BY <4>1, CapMonotone
            <4>4. Cap(unreachable[s] + elapsed, Grace) \in 0..Grace
                BY <4>1, CapBounds
            <4> QED BY <3>1, <4>2, <4>3, <4>4
        <3> QED BY <3>2, <3>3
    <2>2. ASSUME NEW s \in standby' PROVE calm'[s] >= Grace
        BY <1>0, <1>1, <2>2 DEF Begin, ClockInv, StandbyIsEarned, TypeOK, Cap
    <2> QED BY <1>0, <1>1, <2>1, <2>2 DEF Begin, ClockInv, StandbyIsEarned
<1>2. ASSUME NEW s \in Stations, Visit(s) PROVE ClockInv'
    BY <1>0, <1>2 DEF Visit, clockVars, ClockInv, StandbyIsEarned
<1>3. CASE Recheck
    <2>2. CASE camera[cur] = "silent"
        <3>1. /\ calm' = calm /\ standby' = standby /\ pc' = "next"
              /\ unreachable' = [unreachable EXCEPT ![cur] =
                                    IF @ = NotTracked THEN 0 ELSE @]
            BY <1>3, <2>2 DEF Recheck, Track
        <3>2. \A s \in Stations : calm'[s] >= unreachable'[s]
            BY <1>0, <3>1 DEF ClockInv, TypeOK, NotTracked
        <3> QED BY <1>0, <3>1, <3>2 DEF ClockInv, StandbyIsEarned
    <2>3. CASE camera[cur] # "silent"
        <3>1. /\ calm' = [calm EXCEPT ![cur] = 0] /\ standby' = standby \ {cur}
              /\ unreachable' = [unreachable EXCEPT ![cur] = NotTracked]
              /\ cur' = cur
            BY <1>3, <2>3 DEF Recheck, Track
        <3>2. \A s \in Stations : calm'[s] >= unreachable'[s]
            BY <1>0, <3>1 DEF ClockInv, TypeOK, NotTracked
        <3>3. StandbyIsEarned'
            BY <1>0, <3>1 DEF ClockInv, StandbyIsEarned, TypeOK
        <3> QED BY <1>0, <3>1, <3>2, <3>3 DEF ClockInv
    <2> QED BY <2>2, <2>3
<1>4. CASE Collect
    BY <1>0, <1>4
    DEF Collect, ShouldEscalate, clockVars, ClockInv, StandbyIsEarned
<1>5. CASE Probe
    BY <1>0, <1>5 DEF Probe, clockVars, ClockInv, StandbyIsEarned
<1>6. CASE Judge
    <2>1. pc = "judge" /\ cur \notin standby /\ cur \in Stations
        BY <1>0, <1>6 DEF Judge, ClockInv, TypeOK
    <2>2. CASE stalled /\ camera[cur] = "silent"
        <3>1. /\ calm' = calm
              /\ unreachable' = [unreachable EXCEPT ![cur] =
                                    IF @ = NotTracked THEN 0 ELSE @]
            BY <1>6, <2>2 DEF Judge, Track
        <3>2. \A s \in Stations : calm'[s] >= unreachable'[s]
            BY <1>0, <3>1 DEF ClockInv, TypeOK, NotTracked
        <3>3. \A s \in standby' : s \in standby \/ (s = cur /\ unreachable'[cur] >= Grace)
            BY <1>6, <2>2 DEF Judge
        <3>4. StandbyIsEarned'
            BY <1>0, <2>1, <3>1, <3>2, <3>3 DEF ClockInv, StandbyIsEarned, TypeOK, NotTracked
        <3> QED BY <1>0, <1>6, <3>2, <3>4 DEF ClockInv, Judge
    <2>3. CASE ~(stalled /\ camera[cur] = "silent")
        <3>1. /\ calm' = [calm EXCEPT ![cur] = 0]
              /\ unreachable' = [unreachable EXCEPT ![cur] = NotTracked]
            BY <1>6, <2>3 DEF Judge, Track
        <3>2. \A s \in Stations : calm'[s] >= unreachable'[s]
            BY <1>0, <3>1 DEF ClockInv, TypeOK, NotTracked
        <3>3. standby' = standby
            BY <1>0, <1>6, <2>1, <3>1 DEF Judge, TypeOK, NotTracked
        <3>4. StandbyIsEarned'
            BY <1>0, <2>1, <3>1, <3>3 DEF ClockInv, StandbyIsEarned, TypeOK
        <3> QED BY <1>0, <1>6, <3>2, <3>4 DEF ClockInv, Judge
    <2> QED BY <2>2, <2>3
<1>7. CASE Done
    BY <1>0, <1>7 DEF Done, clockVars, ClockInv, StandbyIsEarned
<1>8. CASE CycleError
    BY <1>0, <1>8 DEF CycleError, clockVars, ClockInv, StandbyIsEarned
<1>9. CASE Restart
    BY <1>0, <1>9 DEF Restart, ClockInv, StandbyIsEarned, NotTracked
<1>10. CASE Tick
    BY <1>0, <1>10 DEF Tick, visitVars, ClockInv, StandbyIsEarned
<1>11. ASSUME NEW s \in Stations, Change(s) PROVE ClockInv'
    BY <1>0, <1>11 DEF Change, visitVars, clockVars, ClockInv, StandbyIsEarned
<1>12. CASE UNCHANGED vars
    BY <1>0, <1>12 DEF vars, visitVars, clockVars, ClockInv, StandbyIsEarned
<1> QED BY <1>1, <1>2, <1>3, <1>4, <1>5, <1>6, <1>7, <1>8, <1>9, <1>10, <1>11, <1>12
        DEF Next, Loop

\* A short outage never collapses a station's record: whoever is in standby was seen
\* stalled and silent, and nothing else, for the whole grace period.
THEOREM StandbyEarned == Spec => []StandbyIsEarned
<1>1. ClockInv => StandbyIsEarned
    BY DEF ClockInv
<1> QED BY <1>1, InitClockInv, NextClockInv, PTL DEF Spec

-----------------------------------------------------------------------------
(* Heavy probes back off. *)

\* A power of two is the number of subsets, and one element more doubles it.
LEMMA PowersDouble ==
    ASSUME NEW k \in Nat PROVE 2^k \in Nat \ {0} /\ 2^(k + 1) = 2 * 2^k
<1> DEFINE A == SUBSET (1..k)
           B == {u \cup {k + 1} : u \in A}
           f == [u \in A |-> u \cup {k + 1}]
           p == 2^k
           q == 2^(k + 1)
<1>1. IsFiniteSet(1..k) /\ Cardinality(1..k) = k
    BY FS_Interval
<1>2. IsFiniteSet(A) /\ Cardinality(A) = p
    BY <1>1, FS_SUBSET
<1>3. IsFiniteSet(1..(k + 1)) /\ Cardinality(1..(k + 1)) = k + 1
    BY FS_Interval
<1>4. Cardinality(SUBSET (1..(k + 1))) = q
    BY <1>3, FS_SUBSET
<1>5. SUBSET (1..(k + 1)) = A \cup B
    <2>1. ASSUME NEW u \in SUBSET (1..(k + 1)) PROVE u \in A \cup B
        <3>1. CASE k + 1 \in u
            <4>1. u \ {k + 1} \in A /\ u = (u \ {k + 1}) \cup {k + 1}
                BY <3>1
            <4> HIDE DEF A
            <4> QED BY <4>1
        <3>2. CASE k + 1 \notin u
            BY <3>2
        <3> QED BY <3>1, <3>2
    <2>2. ASSUME NEW u \in A \cup B PROVE u \in SUBSET (1..(k + 1))
        OBVIOUS
    <2> HIDE DEF A, B
    <2> QED BY <2>1, <2>2
<1>6. A \cap B = {}
    OBVIOUS
<1>7. f \in Bijection(A, B)
    <2>1. ASSUME NEW u \in A, NEW v \in A, f[u] = f[v] PROVE u = v
        <3>1. k + 1 \notin u /\ k + 1 \notin v
            OBVIOUS
        <3>2. f[u] = u \cup {k + 1} /\ f[v] = v \cup {k + 1}
            OBVIOUS
        <3>3. u = f[u] \ {k + 1} /\ v = f[v] \ {k + 1}
            <4> HIDE DEF f, A
            <4> QED BY <3>1, <3>2
        <3> HIDE DEF f
        <3> QED BY <2>1, <3>3
    <2>2. \A w \in B : \E u \in A : f[u] = w
        <3> HIDE DEF A
        <3> QED OBVIOUS
    <2>3. f \in [A -> B]
        <3> HIDE DEF A
        <3> QED OBVIOUS
    <2> HIDE DEF f, A, B
    <2> QED BY <2>1, <2>2, <2>3 DEF Bijection, Injection, Surjection, IsInjective
<1>11. A # {}
    OBVIOUS
<1> HIDE DEF A, B, f, p, q
<1>8. IsFiniteSet(B) /\ Cardinality(B) = p
    BY <1>2, <1>7, FS_Bijection DEF ExistsBijection
<1>10. p \in Nat
    BY <1>2, FS_CardinalityType
<1>9. Cardinality(A \cup B) = p + p
    <2>1. Cardinality(A \cup B) = p + p - 0
        BY <1>2, <1>6, <1>8, FS_Union, FS_EmptySet
    <2> QED BY <2>1, <1>10
<1>12. q = p + p
    BY <1>4, <1>5, <1>9, Zenon
<1>13. p # 0
    BY <1>2, <1>11, FS_EmptySet
<1> QED BY <1>10, <1>12, <1>13 DEF p, q

\* A power of two exceeds its exponent.
LEMMA PowersGrow == \A k \in Nat : 2^k > k
<1> DEFINE Bad == {k \in Nat : ~(2^k > k)}
<1>1. SUFFICES ASSUME Bad # {} PROVE FALSE
    OBVIOUS
<1>2. PICK k \in Bad : \A m \in Bad : k <= m
    <2> DEFINE R == {ss \in Nat \X Nat : ss[1] < ss[2]}
    <2>1. IsWellFoundedOn(R, Nat)
        BY NatLessThanWellFounded, Zenon DEF OpToRel
    <2>2. PICK k \in Bad : \A m \in Bad : <<m, k>> \notin R
        <3> HIDE DEF R
        <3> QED BY <1>1, <2>1, WFMin
    <2>3. Bad \subseteq Nat
        OBVIOUS
    <2>4. ASSUME NEW m \in Bad PROVE k <= m
        <3>1. m \in Nat /\ k \in Nat
            OBVIOUS
        <3>2. <<m, k>> \notin R
            <4> HIDE DEF Bad, R
            <4> QED BY <2>2
        <3>3. ~(m < k)
            BY <3>1, <3>2
        <3> HIDE DEF Bad, R
        <3> QED BY <3>1, <3>3
    <2> QED BY <2>4
<1>3. CASE k = 0
    BY <1>2, <1>3
<1>4. CASE k # 0
    <2>1. PICK m \in Nat : k = m + 1
        <3>1. k - 1 \in Nat /\ k = (k - 1) + 1
            BY <1>2, <1>4
        <3> QED BY <3>1
    <2>2. 2^m > m
        BY <1>2, <2>1
    <2>3. 2^m \in Nat /\ 2^(m + 1) = 2 * 2^m
        BY PowersDouble
    <2> DEFINE p == 2^m
               q == 2^(m + 1)
    <2>4. q = 2 * p /\ p > m /\ p \in Nat
        BY <2>2, <2>3
    <2>5. ~(q > m + 1)
        BY <1>2, <2>1
    <2> HIDE DEF p, q
    <2> QED BY <2>4, <2>5
<1> QED BY <1>3, <1>4

\* The documented spacing begins with the shortest interval.
LEMMA SpacingStarts == Spacing(1) = ProbeMin
<1>1. 2^0 = 1
    OBVIOUS
<1> QED BY <1>1 DEF Spacing, Cap

\* It doubles with every probe, up to the longest interval.
LEMMA SpacingDoubles ==
    ASSUME NEW n \in Nat \ {0}
    PROVE  Spacing(n) \in 1..ProbeMax /\ Spacing(n + 1) = Cap(Spacing(n) * 2, ProbeMax)
<1> DEFINE p == 2^(n - 1)
           q == 2^n
           a == ProbeMin * p
<1>1. p \in Nat \ {0} /\ q = 2 * p
    <2>1. n - 1 \in Nat /\ (n - 1) + 1 = n
        OBVIOUS
    <2> QED BY <2>1, PowersDouble
<1>2. Spacing(n) = Cap(a, ProbeMax)
    BY DEF Spacing
<1>3. Spacing(n + 1) = Cap(ProbeMin * q, ProbeMax)
    <2>1. (n + 1) - 1 = n
        OBVIOUS
    <2> QED BY <2>1 DEF Spacing
<1> HIDE DEF p, q
<1>4. a \in Nat \ {0} /\ ProbeMin * q = 2 * a
    BY <1>1
<1> HIDE DEF a
<1> QED BY <1>2, <1>3, <1>4 DEF Cap

\* And it has reached it when the count of probes stops.
LEMMA SpacingEnds == Spacing(ManyProbes) = ProbeMax
<1> DEFINE p == 2^ProbeMax
<1>1. p \in Nat \ {0} /\ p > ProbeMax
    BY PowersDouble, PowersGrow
<1>2. Spacing(ManyProbes) = Cap(ProbeMin * p, ProbeMax)
    <2>1. ManyProbes - 1 = ProbeMax
        BY DEF ManyProbes
    <2> QED BY <2>1 DEF Spacing
<1> HIDE DEF p
<1>3. ProbeMin * p >= p /\ ProbeMin * p \in Nat
    BY <1>1
<1> QED BY <1>1, <1>2, <1>3 DEF Cap

\* What a station's back-off says of the probes it has had: the interval is the one
\* documented for their number, and what is left of it until the next probe, with
\* the time since the last one, makes up at least that interval.
Backed(s) ==
    IF probes[s] = 0 THEN escalate[s].interval = 0
    ELSE /\ escalate[s].interval = Spacing(probes[s])
         /\ gap[s] + escalate[s].wait >= Spacing(probes[s])

BackOffInv ==
    /\ TypeOK
    /\ \A s \in Stations : Backed(s)

LEMMA InitBackOff == Init => BackOffInv
    BY InitTypeOK DEF Init, BackOffInv, Backed, NoBackoff

\* A probe sets the interval that the number of probes calls for.
LEMMA ProbeSpaces ==
    ASSUME NEW n \in 0..ManyProbes, NEW last,
           last = IF n = 0 THEN 0 ELSE Spacing(n)
    PROVE  LET next == IF last = 0 THEN ProbeMin ELSE Cap(last * 2, ProbeMax)
           IN  Cap(n + 1, ManyProbes) # 0 /\ next = Spacing(Cap(n + 1, ManyProbes))
<1>1. ManyProbes \in Nat \ {0}
    BY DEF ManyProbes
<1>2. CASE n = 0
    <2>1. Cap(n + 1, ManyProbes) = 1
        BY <1>1, <1>2 DEF Cap
    <2> QED BY <1>2, <2>1, SpacingStarts
<1>3. CASE n # 0 /\ n # ManyProbes
    <2>1. n \in Nat \ {0} /\ Cap(n + 1, ManyProbes) = n + 1
        BY <1>1, <1>3 DEF Cap
    <2>2. last # 0 /\ Spacing(n + 1) = Cap(last * 2, ProbeMax)
        BY <1>3, <2>1, SpacingDoubles
    <2> QED BY <2>1, <2>2
<1>4. CASE n = ManyProbes
    <2>1. Cap(n + 1, ManyProbes) = n
        BY <1>1, <1>4 DEF Cap
    <2>2. last = ProbeMax
        BY <1>1, <1>4, SpacingEnds
    <2>3. Cap(last * 2, ProbeMax) = ProbeMax /\ last # 0
        BY <2>2 DEF Cap
    <2> QED BY <1>1, <1>4, <2>1, <2>2, <2>3
<1> QED BY <1>2, <1>3, <1>4

LEMMA NextBackOff == BackOffInv /\ [Next]_vars => BackOffInv'
<1> SUFFICES ASSUME BackOffInv, [Next]_vars PROVE BackOffInv'
    OBVIOUS
<1>0. TypeOK /\ TypeOK' /\ \A s \in Stations : Backed(s)
    BY NextTypeOK DEF BackOffInv
<1>a. ASSUME UNCHANGED probeVars PROVE BackOffInv'
    BY <1>0, <1>a DEF probeVars, BackOffInv, Backed
<1>1. CASE Begin
    BY <1>1, <1>a DEF Begin
<1>2. ASSUME NEW s \in Stations, Visit(s) PROVE BackOffInv'
    BY <1>2, <1>a DEF Visit
<1>3. CASE Recheck
    BY <1>3, <1>a DEF Recheck
<1>4. CASE Collect
    <2>1. ASSUME NEW s \in Stations PROVE Backed(s)'
        BY <1>0, <1>4, <2>1
        DEF Collect, ShouldEscalate, Backed, NoBackoff, TypeOK
    <2> QED BY <1>0, <2>1 DEF BackOffInv
<1>5. CASE Probe
    <2> DEFINE last == escalate[cur].interval
               next == IF last = 0 THEN ProbeMin ELSE Cap(last * 2, ProbeMax)
               n == Cap(probes[cur] + 1, ManyProbes)
    <2>1. /\ escalate' = [escalate EXCEPT ![cur] = [wait |-> next, interval |-> next]]
          /\ probes' = [probes EXCEPT ![cur] = n] /\ gap' = [gap EXCEPT ![cur] = 0]
        BY <1>5 DEF Probe
    <2>2. n # 0 /\ next = Spacing(n)
        <3>1. cur \in Stations /\ probes[cur] \in 0..ManyProbes
            BY <1>0 DEF TypeOK
        <3>2. last = IF probes[cur] = 0 THEN 0 ELSE Spacing(probes[cur])
            BY <1>0, <3>1 DEF Backed
        <3> QED BY <3>1, <3>2, ProbeSpaces
    <2>3. next \in Nat
        BY <1>0, <2>1 DEF TypeOK
    <2>4. ASSUME NEW s \in Stations PROVE Backed(s)'
        <3> HIDE DEF next, n, last
        <3>1. CASE s = cur
            <4>1. /\ probes'[s] = n /\ gap'[s] = 0 /\ escalate'[s].interval = next
                  /\ escalate'[s].wait = next
                BY <1>0, <2>1, <3>1 DEF TypeOK
            <4> QED BY <2>2, <2>3, <4>1 DEF Backed
        <3>2. CASE s # cur
            <4>1. probes'[s] = probes[s] /\ gap'[s] = gap[s] /\ escalate'[s] = escalate[s]
                BY <1>0, <2>1, <3>2 DEF TypeOK
            <4> QED BY <1>0, <4>1 DEF Backed
        <3> QED BY <3>1, <3>2
    <2> HIDE DEF next, n, last
    <2> QED BY <1>0, <2>4 DEF BackOffInv
<1>6. CASE Judge
    BY <1>6, <1>a DEF Judge
<1>7. CASE Done
    BY <1>7, <1>a DEF Done
<1>8. CASE CycleError
    BY <1>8, <1>a DEF CycleError
<1>9. CASE Restart
    BY <1>0, <1>9 DEF Restart, BackOffInv, Backed, NoBackoff
<1>10. CASE Tick
    <2>1. ASSUME NEW s \in Stations PROVE Backed(s)'
        <3> DEFINE wait == escalate[s].wait
        <3>1. /\ escalate'[s].interval = escalate[s].interval
              /\ escalate'[s].wait = IF wait = 0 THEN 0 ELSE wait - 1
              /\ probes'[s] = probes[s] /\ gap'[s] = Cap(gap[s] + 1, ProbeMax)
            BY <1>0, <1>10 DEF Tick, TypeOK
        <3>2. wait \in 0..ProbeMax /\ gap[s] \in 0..ProbeMax
            BY <1>0 DEF TypeOK
        <3>3. CASE probes[s] = 0
            BY <1>0, <3>1, <3>3 DEF Backed
        <3>4. CASE probes[s] # 0
            <4>1. Spacing(probes[s]) \in 1..ProbeMax
                <5>1. probes[s] \in Nat \ {0}
                    BY <1>0, <3>4 DEF TypeOK, ManyProbes
                <5> QED BY <5>1, SpacingDoubles
            <4>2. /\ escalate[s].interval = Spacing(probes[s])
                  /\ gap[s] + wait >= Spacing(probes[s])
                BY <1>0, <3>4 DEF Backed
            <4> HIDE DEF wait
            <4>3. gap'[s] + escalate'[s].wait >= Spacing(probes[s])
                BY <3>1, <3>2, <4>1, <4>2 DEF Cap
            <4> QED BY <3>1, <3>4, <4>2, <4>3 DEF Backed
        <3> QED BY <3>3, <3>4
    <2> QED BY <1>0, <2>1 DEF BackOffInv
<1>11. ASSUME NEW s \in Stations, Change(s) PROVE BackOffInv'
    BY <1>11, <1>a DEF Change
<1>12. CASE UNCHANGED vars
    BY <1>12, <1>a DEF vars
<1> QED BY <1>1, <1>2, <1>3, <1>4, <1>5, <1>6, <1>7, <1>8, <1>9, <1>10, <1>11, <1>12
        DEF Next, Loop

\* A station is probed only by way of Collect, and only when nothing is left to wait.
LEMMA ProbeIsDue ==
    ASSUME BackOffInv, [Next]_vars, pc # "probe", pc' = "probe",
           NEW s \in Stations, cur = s, probes[s] > 0
    PROVE  gap[s] >= Spacing(probes[s])
<1>1. Collect
    BY DEF Next, Loop, Begin, Visit, Recheck, Probe, Judge, Done, CycleError, Restart,
           Tick, Change, visitVars, vars
<1>2. escalate[s].wait = 0
    BY <1>1 DEF Collect, ShouldEscalate
<1>3. gap[s] \in Nat
    BY DEF BackOffInv, TypeOK
<1>4. gap[s] + escalate[s].wait >= Spacing(probes[s])
    BY DEF BackOffInv, Backed
<1> QED BY <1>2, <1>3, <1>4

\* For any intervals and any number of stations: heavy probes are as far apart as
\* documented, through standby, host-explained drops and failed cycles.
THEOREM ProbesAreSpaced == Spec => ProbesBackOff
<1>1. BackOffInv /\ [Next]_vars =>
          [\A s \in Stations :
              pc # "probe" /\ pc' = "probe" /\ cur = s /\ probes[s] > 0
                  => gap[s] >= Spacing(probes[s])]_vars
    BY ProbeIsDue
<1> QED BY <1>1, InitBackOff, NextBackOff, PTL DEF Spec, ProbesBackOff

-----------------------------------------------------------------------------
(* The records are as promised. *)

LEMMA InitOutage == Init => Outage!Init
    BY DEF Init, Outage!Init

\* A cycle that begins lets the time pass that has elapsed.
LEMMA BeginPasses ==
    ASSUME TypeOK, Begin, NEW d \in 0..Grace, d = elapsed
    PROVE  Outage!Pass(d)
    BY DEF Begin, Cap, TypeOK, Outage!Pass

\* A station that is seen well is out of standby, and its silence is over.
LEMMA WellIsSeen ==
    ASSUME NEW s \in Stations, standby' = standby \ {s},
           calm' = [calm EXCEPT ![s] = 0]
    PROVE  Outage!SeenWell(s)
<1>1. [t \in Stations |-> IF t \in standby' THEN "collapsed" ELSE "full"]
        = [[t \in Stations |-> IF t \in standby THEN "collapsed" ELSE "full"]
             EXCEPT ![s] = "full"]
    OBVIOUS
<1> QED BY <1>1 DEF Outage!SeenWell

\* A station that Judge puts in standby has been silent for the grace period.
LEMMA StandbyCollapses ==
    ASSUME ClockInv', NEW s \in Stations, s \notin standby,
           standby' = standby \cup {s}, calm' = calm
    PROVE  Outage!Collapse(s)
<1>1. [t \in Stations |-> IF t \in standby' THEN "collapsed" ELSE "full"]
        = [[t \in Stations |-> IF t \in standby THEN "collapsed" ELSE "full"]
             EXCEPT ![s] = "collapsed"]
    OBVIOUS
<1>2. calm[s] >= Grace
    BY DEF ClockInv, StandbyIsEarned
<1> QED BY <1>1, <1>2 DEF Outage!Collapse

\* Every step of the detailed specification is a step of the promise, or changes
\* nothing that it speaks of.
LEMMA NextOutage ==
    ClockInv /\ ClockInv' /\ [Next]_vars => [Outage!Next]_Outage!vars
<1> SUFFICES ASSUME ClockInv, ClockInv', [Next]_vars
             PROVE  [Outage!Next]_Outage!vars
    OBVIOUS
<1>0. TypeOK /\ cur \in Stations
    BY DEF ClockInv, TypeOK
<1>a. ASSUME UNCHANGED <<standby, calm>> PROVE UNCHANGED Outage!vars
    BY <1>a DEF Outage!vars
<1>b. ASSUME standby' = standby \ {cur}, calm' = [calm EXCEPT ![cur] = 0]
      PROVE  Outage!Next
    <2>1. PICK s \in Stations : s = cur
        BY <1>0
    <2>2. Outage!SeenWell(s)
        BY <1>b, <2>1, WellIsSeen
    <2> QED BY <2>2 DEF Outage!Next
<1>1. CASE Begin
    <2>1. PICK d \in 0..Grace : d = elapsed
        BY <1>0 DEF TypeOK
    <2>2. Outage!Pass(d)
        BY <1>0, <1>1, <2>1, BeginPasses
    <2> QED BY <2>2 DEF Outage!Next
<1>2. ASSUME NEW s \in Stations, Visit(s) PROVE UNCHANGED Outage!vars
    BY <1>2, <1>a DEF Visit, clockVars
<1>3. CASE Recheck
    <2>1. CASE camera[cur] = "silent"
        BY <1>3, <1>a, <2>1 DEF Recheck
    <2>2. CASE camera[cur] # "silent"
        BY <1>3, <1>b, <2>2 DEF Recheck
    <2> QED BY <2>1, <2>2
<1>4. CASE Collect
    BY <1>4, <1>a DEF Collect, clockVars
<1>5. CASE Probe
    BY <1>5, <1>a DEF Probe, clockVars
<1>6. CASE Judge
    <2>1. cur \notin standby /\ cur' = cur
        BY <1>6 DEF Judge, ClockInv
    <2>2. CASE stalled /\ camera[cur] = "silent"
        <3>1. calm' = calm /\ (standby' = standby \/ standby' = standby \cup {cur})
            BY <1>6, <2>2 DEF Judge
        <3>2. CASE standby' = standby
            BY <1>a, <3>1, <3>2
        <3>3. CASE standby' = standby \cup {cur}
            <4>1. PICK s \in Stations : s = cur
                BY <1>0
            <4>2. Outage!Collapse(s)
                BY <2>1, <3>1, <3>3, <4>1, StandbyCollapses
            <4> QED BY <4>2 DEF Outage!Next
        <3> QED BY <3>1, <3>2, <3>3
    <2>3. CASE ~(stalled /\ camera[cur] = "silent")
        <3>1. calm' = [calm EXCEPT ![cur] = 0] /\ unreachable'[cur] = NotTracked
            BY <1>0, <1>6, <2>3 DEF Judge, Track, TypeOK
        <3>2. standby' = standby \ {cur}
            BY <1>6, <2>1, <3>1 DEF Judge, NotTracked
        <3> QED BY <1>b, <3>1, <3>2
    <2> QED BY <2>2, <2>3
<1>7. CASE Done
    BY <1>7, <1>a DEF Done, clockVars
<1>8. CASE CycleError
    BY <1>8, <1>a DEF CycleError, clockVars
<1>9. CASE Restart
    BY <1>9 DEF Restart, Outage!Next, Outage!Forget
<1>10. CASE Tick
    BY <1>10, <1>a DEF Tick
<1>11. ASSUME NEW s \in Stations, Change(s) PROVE UNCHANGED Outage!vars
    BY <1>11, <1>a DEF Change, clockVars
<1>12. CASE UNCHANGED vars
    BY <1>12, <1>a DEF vars, clockVars
<1> QED BY <1>1, <1>2, <1>3, <1>4, <1>5, <1>6, <1>7, <1>8, <1>9, <1>10, <1>11, <1>12
        DEF Next, Loop

\* For any number of stations, any grace period and any bounds: the cycles implement
\* what docs/bridge_contract.md promises of collapsed records.
THEOREM OutagePromiseKept == Spec => OutageIsAsPromised
<1>1. Init /\ [][Next]_vars /\ []ClockInv => Outage!Init /\ [][Outage!Next]_Outage!vars
    BY InitOutage, NextOutage, PTL
<1>2. Spec => []ClockInv
    BY InitClockInv, NextClockInv, PTL DEF Spec
<1> QED BY <1>1, <1>2 DEF Spec, OutageIsAsPromised, Outage!Spec

=============================================================================
