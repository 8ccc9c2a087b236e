--------------------------- MODULE HostRecordProofs ---------------------------
(***************************************************************************)
(* Theorems of HostRecord: an OOM kill stays reported, a failing disk is   *)
(* reported, and NIC errors are reported in the cycle after them and in no *)
(* other unless their rate is rounded to zero, for any number of stations and interfaces, any time and any      *)
(* threshold.                                                              *)
(***************************************************************************)
EXTENDS HostRecord, FiniteSetTheorems, WellFoundedInduction, TLAPS

USE HostRecordAssumption

-----------------------------------------------------------------------------

\* The times and disks the two alarms speak of.
WorldOK ==
    /\ now \in Nat /\ bootedAt \in 0..now
    /\ startedAt \in [Stations -> Nat \cup {None}] /\ killedAt \in {None} \cup 0..now
    /\ record.written \in BOOLEAN

\* A capture that was damaged was damaged in this boot, and every failing disk has
\* left a line in the log, under the name it has now or under none.
AlarmInv ==
    /\ WorldOK
    /\ damaged # {} /\ killedAt # None => killedAt >= bootedAt
    /\ \A d \in failing : {NameOf(d), "unnamed"} \cap errors # {}
    /\ OomIsKept
    /\ DiskErrorIsFlagged

\* A kill after which nothing was started or booted is flagged, whatever its age.
LEMMA KillIsFlagged ==
    ASSUME WorldOK, killedAt # None, killedAt >= bootedAt,
           \A s \in Stations : startedAt[s] <= killedAt
    PROVE  OomLevel # "none"
<1>1. CASE KillAge = None
    BY <1>1 DEF OomLevel, Restarted, Rebooted
<1>2. CASE KillAge # None
    <2>1. KillAge = now - killedAt /\ killedAt \in 0..now
        BY <1>2 DEF KillAge, WorldOK
    <2>2. ASSUME NEW s \in Stations, startedAt[s] # None
          PROVE  ~(now - startedAt[s] < KillAge)
        BY <2>1, <2>2 DEF WorldOK
    <2>3. ~Restarted(KillAge) /\ ~Rebooted(KillAge)
        BY <2>1, <2>2 DEF Restarted, Rebooted, WorldOK
    <2> QED BY <2>3 DEF OomLevel
<1> QED BY <1>1, <1>2

LEMMA InitAlarmInv == Init => AlarmInv
    BY DEF Init, AlarmInv, WorldOK, OomIsKept, DiskErrorIsFlagged, NoRecord, None

LEMMA NextAlarmInv == AlarmInv /\ [Next]_vars => AlarmInv'
<1> SUFFICES ASSUME AlarmInv, [Next]_vars PROVE AlarmInv'
    OBVIOUS
<1>0. WorldOK
    BY DEF AlarmInv
<1> USE DEF Moves, oomVars, diskVars, nicVars
\* As long as nothing is written, the record promises nothing.
<1>w. ASSUME WorldOK', ~record'.written,
             damaged' # {} /\ killedAt' # None => killedAt' >= bootedAt',
             \A d \in failing' : {NameOf(d)', "unnamed"} \cap errors' # {}
      PROVE  AlarmInv'
    BY <1>w DEF AlarmInv, OomIsKept, DiskErrorIsFlagged
<1>d. ASSUME UNCHANGED <<errors, swapped, failing>>
      PROVE  \A d \in failing' : {NameOf(d)', "unnamed"} \cap errors' # {}
    BY <1>d DEF AlarmInv, NameOf
<1>1. ASSUME NEW s \in Stations, StartCapture(s) PROVE AlarmInv'
    BY <1>0, <1>1, <1>w, <1>d DEF StartCapture, AlarmInv, WorldOK
<1>2. ASSUME NEW s \in Stations, EndCapture(s) PROVE AlarmInv'
    BY <1>0, <1>2, <1>w, <1>d DEF EndCapture, AlarmInv, WorldOK
<1>3. ASSUME NEW s \in Stations, OomKill(s) PROVE AlarmInv'
    BY <1>0, <1>3, <1>w, <1>d DEF OomKill, WorldOK
<1>4. ASSUME NEW disk \in Disks, DiskError(disk) PROVE AlarmInv'
    <2>1. PICK line \in {NameOf(disk), "unnamed"} : errors' = errors \cup {line}
        BY <1>4 DEF DiskError
    <2>2. \A d \in failing' : {NameOf(d)', "unnamed"} \cap errors' # {}
        BY <1>4, <2>1 DEF DiskError, NameOf, AlarmInv
    <2> QED BY <1>0, <1>4, <1>w, <2>2 DEF DiskError, AlarmInv, WorldOK
<1>5. CASE Remount
    BY <1>0, <1>5, <1>w, <1>d DEF Remount, AlarmInv, WorldOK
<1>6. CASE Scroll
    BY <1>0, <1>6, <1>w DEF Scroll, AlarmInv, WorldOK
<1>7. ASSUME NEW n \in Nics, RxError(n) \/ NicReset(n) PROVE AlarmInv'
    BY <1>0, <1>7, <1>w, <1>d DEF RxError, NicReset, AlarmInv, WorldOK
<1>8. CASE Reroute
    BY <1>0, <1>8, <1>w, <1>d DEF Reroute, AlarmInv, WorldOK
<1>9. CASE Tick
    BY <1>0, <1>9, <1>w, <1>d DEF Tick, AlarmInv, WorldOK
<1>10. CASE Reboot
    BY <1>0, <1>10, <1>w DEF Reboot, WorldOK, NoRecord, None
<1>11. CASE Restart
    BY <1>0, <1>11, <1>w, <1>d DEF Restart, AlarmInv, WorldOK, NoRecord
<1>12. CASE Cycle
    <2>0. PICK readable \in BOOLEAN :
             record' = [problems |-> Problems(IF readable THEN NicRate(NicTotal) ELSE None),
                        sampled |-> readable, written |-> TRUE]
        BY <1>12 DEF Cycle
    <2> DEFINE rate == IF readable THEN NicRate(NicTotal) ELSE None
    <2>1. record' = [problems |-> Problems(rate), sampled |-> readable, written |-> TRUE]
        BY <2>0
    <2> HIDE DEF rate
    <2>2. /\ UNCHANGED <<now, bootedAt, startedAt, killedAt, damaged>>
          /\ UNCHANGED <<errors, swapped, mounted, failing>>
        BY <1>12 DEF Cycle
    <2>3. WorldOK' /\ record'.problems = Problems(rate)
        BY <1>0, <2>1, <2>2 DEF WorldOK
    <2>4. OomIsKept'
        <3> SUFFICES ASSUME killedAt # None, damaged # {},
                            \A s \in Stations : startedAt[s] <= killedAt
                     PROVE  \E p \in Problems(rate) : p[1] = "oom"
            BY <2>2, <2>3 DEF OomIsKept, Flagged
        <3>1. OomLevel # "none"
            BY <1>0, KillIsFlagged DEF AlarmInv
        <3>2. <<"oom", OomLevel>> \in Problems(rate)
            BY <3>1 DEF Problems
        <3> QED BY <3>2
    <2>5. DiskErrorIsFlagged'
        <3> SUFFICES ASSUME failing \cap InUse # {}
                     PROVE  \E p \in Problems(rate) : p[1] = "disk_errors"
            BY <2>2, <2>3 DEF DiskErrorIsFlagged, Flagged, InUse
        <3>1. PICK d \in failing \cap InUse : TRUE
            OBVIOUS
        <3>2. NameOf(d) \in RelevantDisks
            BY <3>1 DEF RelevantDisks
        <3>3. OurErrors(RelevantDisks) # {}
            BY <3>1, <3>2 DEF AlarmInv, OurErrors
        <3>4. <<"disk_errors", "degraded">> \in Problems(rate)
            BY <3>3 DEF Problems
        <3> QED BY <3>4
    <2> QED BY <1>d, <2>2, <2>3, <2>4, <2>5 DEF AlarmInv
<1>13. CASE Sleep
    BY <1>0, <1>13, <1>w, <1>d DEF Sleep, AlarmInv, WorldOK, NoRecord
<1>14. CASE UNCHANGED vars
    BY <1>14, <1>d DEF vars, AlarmInv, WorldOK, OomIsKept, DiskErrorIsFlagged, Flagged, InUse
<1> QED
    BY <1>1, <1>2, <1>3, <1>4, <1>5, <1>6, <1>7, <1>8, <1>9, <1>10, <1>11, <1>12,
       <1>13, <1>14
    DEF Next

\* For any number of stations: a kill is reported as long as the log holds it, the
\* capture it damaged goes on and no other has been started since.
THEOREM OomStaysReported == Spec => []OomIsKept
<1>1. AlarmInv => OomIsKept
    BY DEF AlarmInv
<1> QED BY <1>1, InitAlarmInv, NextAlarmInv, PTL DEF Spec

\* A disk in use that has failed in this boot is reported, by whatever name.
THEOREM DiskFailureIsReported == Spec => []DiskErrorIsFlagged
<1>1. AlarmInv => DiskErrorIsFlagged
    BY DEF AlarmInv
<1> QED BY <1>1, InitAlarmInv, NextAlarmInv, PTL DEF Spec

-----------------------------------------------------------------------------
(* NIC errors. *)

\* The errors some interfaces have counted, as a set: of each the first, the second, ...
Counted(f, s) == {p \in Nics \X (1..MaxErrors) : p[1] \in s /\ p[2] <= f[p[1]]}

LEMMA CountedIsFinite ==
    ASSUME NEW f, NEW s
    PROVE  /\ IsFiniteSet(Counted(f, s)) /\ Cardinality(Counted(f, s)) \in Nat
           /\ Cardinality(Counted(f, s)) <= MaxErrors * Cardinality(Nics)
<1> DEFINE All == Nics \X (1..MaxErrors)
<1>1. IsFiniteSet(1..MaxErrors) /\ Cardinality(1..MaxErrors) = MaxErrors
    BY FS_Interval
<1>2. /\ IsFiniteSet(All)
      /\ Cardinality(All) = Cardinality(Nics) * MaxErrors
    BY <1>1, FS_Product
<1>3. Counted(f, s) \in SUBSET All
    BY DEF Counted
<1> HIDE DEF All
<1>4. IsFiniteSet(Counted(f, s)) /\ Cardinality(Counted(f, s)) <= Cardinality(All)
    BY <1>2, <1>3, FS_Subset
<1>5. Cardinality(Counted(f, s)) \in Nat /\ Cardinality(Nics) \in Nat
    BY <1>4, FS_CardinalityType
<1> QED BY <1>2, <1>4, <1>5

LEMMA CountedOfOne ==
    ASSUME NEW f \in [Nics -> 0..MaxErrors], NEW n \in Nics
    PROVE  Cardinality(Counted(f, {n})) = f[n]
<1>1. f[n] \in 0..MaxErrors
    OBVIOUS
<1>2. Counted(f, {n}) = {n} \X (1..f[n])
    BY <1>1 DEF Counted
<1>3. IsFiniteSet({n}) /\ Cardinality({n}) = 1
    BY FS_Singleton
<1>4. IsFiniteSet(1..f[n]) /\ Cardinality(1..f[n]) = f[n]
    BY <1>1, FS_Interval
<1>5. Cardinality({n} \X (1..f[n])) = 1 * f[n]
    BY <1>3, <1>4, FS_Product
<1>6. 1 * f[n] = f[n]
    BY <1>1
<1> QED BY <1>2, <1>5, <1>6, Zenon

LEMMA CountedSplits ==
    ASSUME NEW f \in [Nics -> 0..MaxErrors], NEW s \in SUBSET Nics, NEW n \in s
    PROVE  Cardinality(Counted(f, s)) = f[n] + Cardinality(Counted(f, s \ {n}))
<1> DEFINE one == Counted(f, {n})
           rest == Counted(f, s \ {n})
<1>1. Counted(f, s) = one \cup rest
    BY DEF Counted
<1>2. one \cap rest = {}
    BY DEF Counted
<1>3. /\ IsFiniteSet(one) /\ IsFiniteSet(rest)
      /\ Cardinality(one) \in Nat /\ Cardinality(rest) \in Nat
    BY CountedIsFinite
<1>4. Cardinality(one) = f[n]
    BY CountedOfOne
<1> HIDE DEF one, rest
<1>5. Cardinality(one \cup rest) = Cardinality(one) + Cardinality(rest) - Cardinality(one \cap rest)
    BY <1>3, FS_Union
<1>6. Cardinality(one \cap rest) = 0
    BY <1>2, FS_EmptySet
<1>7. Cardinality(Counted(f, s)) = f[n] + Cardinality(rest)
    BY <1>1, <1>3, <1>4, <1>5, <1>6
<1> QED BY <1>7 DEF rest

\* The fold of read_nic_stats adds them all up.
LEMMA TotalCounts ==
    ASSUME NEW f \in [Nics -> 0..MaxErrors], NEW T \in SUBSET Nics
    PROVE  FoldFunctionOnSet(+, 0, f, T) = Cardinality(Counted(f, T))
<1> DEFINE pick(s) == CHOOSE x \in s : TRUE
           Iter(h) == [s \in SUBSET T |-> IF s = {} THEN 0
                                          ELSE f[pick(s)] + h[s \ {pick(s)}]]
           iter == CHOOSE h : h = Iter(h)
           g == [s \in SUBSET T |-> Cardinality(Counted(f, s))]
<1>1. FoldFunctionOnSet(+, 0, f, T) = iter[T]
    BY DEF FoldFunctionOnSet, MapThenFoldSet
<1>2. \A s \in SUBSET T : s # {} => pick(s) \in s
    OBVIOUS
<1>3. \A s \in SUBSET T : g[s] = IF s = {} THEN 0 ELSE f[pick(s)] + g[s \ {pick(s)}]
    <2> SUFFICES ASSUME NEW s \in SUBSET T
                 PROVE  g[s] = IF s = {} THEN 0 ELSE f[pick(s)] + g[s \ {pick(s)}]
        OBVIOUS
    <2>1. CASE s = {}
        <3>1. Counted(f, s) = {}
            BY <2>1 DEF Counted
        <3> QED BY <2>1, <3>1, FS_EmptySet
    <2>2. CASE s # {}
        <3>1. PICK n \in s : n = pick(s)
            BY <1>2, <2>2
        <3>2. Cardinality(Counted(f, s)) = f[n] + Cardinality(Counted(f, s \ {n}))
            BY CountedSplits
        <3> QED BY <2>2, <3>1, <3>2
    <2> QED BY <2>1, <2>2
<1>4. g = Iter(g)
    <2> HIDE DEF pick
    <2> QED BY <1>3
<1>5. iter = Iter(iter)
    <2> HIDE DEF g, Iter
    <2> QED BY <1>4
<1>6. \A s \in SUBSET T : iter[s] = IF s = {} THEN 0 ELSE f[pick(s)] + iter[s \ {pick(s)}]
    <2> HIDE DEF iter, pick
    <2> QED BY <1>5
<1> DEFINE bad == {s \in SUBSET T : iter[s] # g[s]}
           sizes == {Cardinality(s) : s \in bad}
           R == {ss \in Nat \X Nat : ss[1] < ss[2]}
<1>7. \A s \in SUBSET T : IsFiniteSet(s) /\ Cardinality(s) \in Nat
    BY FS_Subset, FS_CardinalityType
<1>8. bad = {}
    <2> SUFFICES ASSUME bad # {} PROVE FALSE
        OBVIOUS
    <2>1. sizes \subseteq Nat /\ sizes # {}
        <3>1. bad \subseteq SUBSET T
            OBVIOUS
        <3> HIDE DEF bad
        <3> QED BY <1>7, <3>1
    <2>2. IsWellFoundedOn(R, Nat)
        BY NatLessThanWellFounded, Zenon DEF OpToRel
    <2>3. PICK m \in sizes : \A u \in sizes : <<u, m>> \notin R
        <3> HIDE DEF R, sizes
        <3> QED BY <2>1, <2>2, WFMin
    <2>4. PICK s \in bad : m = Cardinality(s)
        <3> HIDE DEF bad
        <3> QED BY <2>3
    <2>5. s \in SUBSET T /\ iter[s] # g[s]
        <3> HIDE DEF iter, g
        <3> QED BY <2>4
    <2>6. s # {}
        <3> HIDE DEF iter, g, pick
        <3> QED BY <1>3, <1>6, <2>5
    <2> DEFINE r == s \ {pick(s)}
    <2>7. r \in SUBSET T /\ Cardinality(r) = Cardinality(s) - 1
        BY <1>2, <1>7, <2>5, <2>6, FS_RemoveElement
    <2>8. iter[r] # g[r]
        <3>1. iter[s] = f[pick(s)] + iter[r] /\ g[s] = f[pick(s)] + g[r]
            <4> HIDE DEF iter, g, pick
            <4> QED BY <1>3, <1>6, <2>5, <2>6
        <3> HIDE DEF iter, g, pick, r
        <3> QED BY <2>5, <3>1
    <2>9. r \in bad
        <3> HIDE DEF iter, g, r
        <3> QED BY <2>7, <2>8
    <2>10. Cardinality(r) \in sizes
        <3> HIDE DEF bad, r
        <3> QED BY <2>9
    <2>11. <<Cardinality(r), m>> \in R
        <3>1. Cardinality(r) \in Nat /\ Cardinality(s) \in Nat
            <4> HIDE DEF r
            <4> QED BY <1>7, <2>5, <2>7
        <3> HIDE DEF r, sizes, bad
        <3> QED BY <2>4, <2>7, <3>1
    <2> HIDE DEF R, sizes
    <2> QED BY <2>3, <2>10, <2>11
<1>9. iter[T] = g[T]
    <2> HIDE DEF iter, g
    <2> QED BY <1>8
<1> HIDE DEF iter
<1> QED BY <1>1, <1>9

Errors(s) == Cardinality(Counted(rx, s))

Total(f, s) == FoldFunctionOnSet(+, 0, f, s)

NicTypes ==
    /\ rx \in [Nics -> 0..MaxErrors] /\ route \in Nics \cup {"any"} /\ now \in 0..MaxNow
    /\ nicLast \in [total: -1..(MaxErrors * Cardinality(Nics)), at: 0..MaxNow]
    /\ record.sampled \in BOOLEAN /\ record.written \in BOOLEAN
    /\ nicPast \in [watched: SUBSET Nics, at: 0..MaxNow, count: Nat]
    /\ nicPast.watched = {} => nicPast.count = 0

\* The sample that the next one is compared with was taken of the interfaces the history
\* speaks of, and the growth since then are their errors since then.
Since ==
    nicPast.watched # {}
      => /\ nicLast.total # None /\ nicLast.at = nicPast.at
         /\ Errors(nicPast.watched) = nicLast.total + nicPast.count

NicInv ==
    /\ NicTypes
    /\ record.written /\ record.sampled => nicLast = [total |-> NicTotal, at |-> now]
    /\ ~(record.written /\ record.sampled) => Since
    /\ NicAlertIsExact

LEMMA WatchedTotal ==
    ASSUME NicTypes
    PROVE  /\ Watched \in SUBSET Nics /\ NicTotal = Errors(Watched)
           /\ NicTotal \in 0..(MaxErrors * Cardinality(Nics))
<1>1. Watched \in SUBSET Nics
    BY DEF Watched, NicTypes
<1>2. NicTotal = Errors(Watched)
    BY <1>1, TotalCounts DEF NicTypes, NicTotal, Errors
<1>3. /\ Errors(Watched) \in Nat /\ Cardinality(Nics) \in Nat
      /\ Errors(Watched) <= MaxErrors * Cardinality(Nics)
    BY CountedIsFinite, FS_CardinalityType DEF Errors
<1> QED BY <1>1, <1>2, <1>3

LEMMA TotalStays ==
    ASSUME UNCHANGED <<rx, route>> PROVE NicTotal' = NicTotal
<1>1. NicTotal = Total(rx, Watched) /\ NicTotal' = Total(rx', Watched')
    BY DEF NicTotal, Total, FoldFunctionOnSet, MapThenFoldSet
<1>2. rx' = rx /\ Watched' = Watched
    BY DEF Watched
<1> QED BY <1>1, <1>2

\* Nothing but an error, a reset or a sample bears on what was counted since.
LEMMA SinceStays ==
    ASSUME NicInv, ~(record.written /\ record.sampled),
           UNCHANGED <<rx, nicLast, nicPast>>
    PROVE  Since'
BY DEF NicInv, Since, Errors

LEMMA ErrorSince ==
    ASSUME NicInv, NEW n \in Nics, RxError(n) PROVE NicInv'
<1> USE DEF Moves
<1>1. /\ rx \in [Nics -> 0..MaxErrors] /\ rx' = [rx EXCEPT ![n] = @ + 1] /\ rx[n] < MaxErrors
      /\ UNCHANGED <<now, route, nicLast, record>> /\ ~record.written
      /\ nicPast' = IF n \in nicPast.watched THEN [nicPast EXCEPT !.count = @ + 1] ELSE nicPast
    BY DEF RxError, NicInv, NicTypes
<1>2. /\ nicPast'.watched = nicPast.watched /\ nicPast'.at = nicPast.at
      /\ nicPast'.count = IF n \in nicPast.watched THEN nicPast.count + 1 ELSE nicPast.count
      /\ nicPast' \in [watched: SUBSET Nics, at: 0..MaxNow, count: Nat]
      /\ nicPast'.watched = {} => nicPast'.count = 0
    BY <1>1 DEF NicInv, NicTypes
<1>3. rx' \in [Nics -> 0..MaxErrors]
    <2>1. rx[n] \in 0..MaxErrors /\ rx[n] + 1 \in 0..MaxErrors
        BY <1>1
    <2> QED BY <1>1, <2>1
<1>4. NicTypes'
    BY <1>1, <1>2, <1>3 DEF NicInv, NicTypes
<1> DEFINE W == nicPast.watched
           e == <<n, rx[n] + 1>>
<1>5. W \subseteq Nics /\ nicLast.total \in Int /\ nicPast.count \in Nat
    BY DEF NicInv, NicTypes
<1>6. Since /\ Errors(W) \in Nat /\ IsFiniteSet(Counted(rx, W))
    BY <1>1, CountedIsFinite DEF NicInv, Errors
<1>7. Since'
    <2>1. CASE n \in W
        <3>1. Counted(rx', W) = Counted(rx, W) \cup {e}
            <4>1. ASSUME NEW p \in Nics \X (1..MaxErrors), p[1] \in W
                  PROVE  p[2] <= rx'[p[1]] <=> p[2] <= rx[p[1]] \/ p = e
                <5>1. PICK m \in Nics, k \in 1..MaxErrors : p = <<m, k>>
                    OBVIOUS
                <5>2. rx[m] \in 0..MaxErrors /\ rx'[m] = IF m = n THEN rx[n] + 1 ELSE rx[m]
                    BY <1>1
                <5> QED BY <5>1, <5>2
            <4>2. e \in Nics \X (1..MaxErrors) /\ e[1] \in W
                BY <1>1, <2>1
            <4> HIDE DEF e, W
            <4> QED BY <4>1, <4>2 DEF Counted
        <3>2. e \notin Counted(rx, W)
            <4>1. rx[n] \in 0..MaxErrors
                BY <1>1
            <4> QED BY <4>1 DEF Counted
        <3> HIDE DEF e, W
        <3>3. Cardinality(Counted(rx', W)) = Errors(W) + 1
            BY <1>6, <3>1, <3>2, FS_AddElement DEF Errors
        <3>4. Errors(nicPast.watched)' = Errors(W) + 1
            BY <1>2, <3>3 DEF Errors, W
        <3>5. /\ nicPast'.count = nicPast.count + 1 /\ nicLast' = nicLast
              /\ nicPast'.watched = W /\ nicPast'.at = nicPast.at
            BY <1>1, <1>2, <2>1 DEF W
        <3>6. /\ W # {} /\ nicLast.total # None /\ nicLast.at = nicPast.at
              /\ Errors(W) = nicLast.total + nicPast.count
            BY <1>6, <2>1 DEF Since, W
        <3> QED BY <1>5, <1>6, <3>4, <3>5, <3>6 DEF Since
    <2>2. CASE n \notin W
        <3>1. Counted(rx', W) = Counted(rx, W)
            BY <1>1, <2>2 DEF Counted
        <3>2. Errors(nicPast.watched)' = Errors(W)
            BY <1>2, <3>1 DEF Errors
        <3>3. nicPast'.count = nicPast.count
            BY <1>2, <2>2
        <3> QED BY <1>1, <1>2, <1>6, <3>2, <3>3 DEF Since
    <2> QED BY <2>1, <2>2
<1> QED BY <1>1, <1>4, <1>7 DEF NicInv, NicAlertIsExact

LEMMA ResetForgets ==
    ASSUME NicInv, NEW n \in Nics, NicReset(n) PROVE NicInv'
<1> USE DEF Moves
<1>1. /\ rx \in [Nics -> 0..MaxErrors] /\ rx' = [rx EXCEPT ![n] = 0]
      /\ UNCHANGED <<now, route, nicLast, record>> /\ ~record.written
      /\ nicPast' = IF n \in nicPast.watched THEN NoPast ELSE nicPast
    BY DEF NicReset, NicInv, NicTypes
<1>2. rx' \in [Nics -> 0..MaxErrors]
    BY <1>1
<1>3. /\ nicPast' \in [watched: SUBSET Nics, at: 0..MaxNow, count: Nat]
      /\ nicPast'.watched = {} => nicPast'.count = 0
    BY <1>1 DEF NicInv, NicTypes, NoPast
<1>4. NicTypes'
    BY <1>1, <1>2, <1>3 DEF NicInv, NicTypes
<1>5. Since'
    <2>1. CASE n \in nicPast.watched
        BY <1>1, <2>1 DEF Since, NoPast
    <2>2. CASE n \notin nicPast.watched
        <3>1. Counted(rx', nicPast.watched) = Counted(rx, nicPast.watched)
            BY <1>1, <2>2 DEF Counted
        <3>2. Errors(nicPast.watched)' = Errors(nicPast.watched)
            BY <1>1, <2>2, <3>1 DEF Errors
        <3> QED BY <1>1, <2>2, <3>2 DEF NicInv, Since
    <2> QED BY <2>1, <2>2
<1> QED BY <1>1, <1>4, <1>5 DEF NicInv, NicAlertIsExact

\* A sample that can be read reports the errors since the last one, of these interfaces.
LEMMA CycleIsExact ==
    ASSUME NicInv, Cycle PROVE NicInv'
<1>1. PICK readable \in BOOLEAN :
        /\ record' = [problems |-> Problems(IF readable THEN NicRate(NicTotal) ELSE None),
                      sampled |-> readable, written |-> TRUE]
        /\ nicLast' = Sample(readable)
    BY DEF Cycle
<1>2. ~record.written /\ UNCHANGED <<now, rx, route, nicPast>>
    BY DEF Cycle, nicVars
<1>3. NicTypes
    BY DEF NicInv
<1>4. /\ Watched \in SUBSET Nics /\ NicTotal = Errors(Watched)
      /\ NicTotal \in 0..(MaxErrors * Cardinality(Nics))
    BY <1>3, WatchedTotal
<1>5. Cardinality(Nics) \in Nat /\ MaxErrors * Cardinality(Nics) \in Nat
    <2>1. Cardinality(Nics) \in Nat
        BY FS_CardinalityType
    <2> QED BY <2>1
<1>6. nicLast' \in [total: -1..(MaxErrors * Cardinality(Nics)), at: 0..MaxNow]
    BY <1>1, <1>3, <1>4, <1>5 DEF Sample, NicTypes
<1> DEFINE rate == IF readable THEN NicRate(NicTotal) ELSE None
<1>7. /\ record'.sampled = readable /\ record'.written = TRUE
      /\ record'.problems = Problems(rate)
    BY <1>1
<1>8. NicTypes'
    BY <1>2, <1>3, <1>6, <1>7 DEF NicTypes
<1>9. NicTotal' = NicTotal /\ Watched' = Watched
    BY <1>2, TotalStays DEF Watched
<1>10. record'.written /\ record'.sampled => nicLast' = [total |-> NicTotal', at |-> now']
    BY <1>1, <1>2, <1>7, <1>9 DEF Sample
<1>11. ~(record'.written /\ record'.sampled) => Since'
    <2> SUFFICES ASSUME ~readable PROVE Since'
        BY <1>7
    <2>1. nicLast' = nicLast
        BY <1>1 DEF Sample
    <2> QED BY <1>2, <2>1, SinceStays
<1>12. NicAlertIsExact'
    <2> SUFFICES ASSUME readable, nicPast.watched = Watched
                 PROVE  Flagged("nic_errors")' <=>
                           nicPast.count > 0 /\ ~RoundedAway(nicPast.count, now - nicPast.at)
        BY <1>2, <1>7, <1>9 DEF NicAlertIsExact, RoundedAway
    <2>1. rate > 0 <=> nicPast.count > 0 /\ ~RoundedAway(nicPast.count, now - nicPast.at)
        <3>1. rate = LET growth == NicTotal - nicLast.total
                     IN  CASE nicLast.total = None \/ growth < 0 -> None
                           [] nicLast.total # None /\ RoundedAway(growth, now - nicLast.at) -> 0
                           [] OTHER -> growth
            BY DEF NicRate
        <3>2. nicLast.total \in Int /\ NicTotal \in Int /\ nicPast.count \in Nat /\ None = -1
            BY <1>3, <1>4, <1>5 DEF NicTypes, None
        <3>3. CASE Watched # {}
            <4>1. /\ nicLast.total # None /\ nicLast.at = nicPast.at
                  /\ NicTotal = nicLast.total + nicPast.count
                BY <1>2, <1>4, <3>3 DEF NicInv, Since
            <4>2. NicTotal - nicLast.total = nicPast.count
                BY <3>2, <4>1
            <4>3. rate = IF RoundedAway(nicPast.count, now - nicPast.at)
                         THEN 0 ELSE nicPast.count
                <5> HIDE DEF rate
                <5> QED BY <3>1, <3>2, <4>1, <4>2
            <4> HIDE DEF rate
            <4> QED BY <3>2, <4>3
        <3>4. CASE Watched = {}
            <4>1. nicPast.count = 0
                BY <1>3, <3>4 DEF NicTypes
            <4>2. Nics = {}
                BY <1>3, <3>4 DEF Watched, NicTypes
            <4>3. MaxErrors * Cardinality(Nics) = 0
                BY <4>2, FS_EmptySet
            <4>4. NicTotal = 0 /\ nicLast.total \in -1..0
                BY <1>3, <1>4, <4>3 DEF NicTypes
            <4> HIDE DEF rate
            <4> QED BY <3>1, <4>1, <4>4 DEF None
        <3> QED BY <3>3, <3>4
    <2> HIDE DEF rate
    <2>2. Flagged("nic_errors")' <=> \E p \in Problems(rate) : p[1] = "nic_errors"
        BY <1>7 DEF Flagged
    <2>3. (\E p \in Problems(rate) : p[1] = "nic_errors") <=> rate > 0
        <3> DEFINE oom == {p \in {<<"oom", OomLevel>>} : OomLevel # "none"}
                   nic == {p \in {<<"nic_errors", "degraded">>} : rate > 0}
                   disk == {p \in {<<"disk_errors", "degraded">>} : OurErrors(RelevantDisks) # {}}
        <3>1. Problems(rate) = oom \cup nic \cup disk
            BY DEF Problems
        <3>2. \A p \in oom \cup disk : p[1] # "nic_errors"
            OBVIOUS
        <3>3. (\E p \in nic : p[1] = "nic_errors") <=> rate > 0
            <4>1. CASE rate > 0
                <5>1. <<"nic_errors", "degraded">> \in nic
                    BY <4>1
                <5> HIDE DEF nic
                <5> QED BY <4>1, <5>1
            <4>2. CASE ~(rate > 0)
                <5>1. nic = {}
                    BY <4>2
                <5> HIDE DEF nic
                <5> QED BY <4>2, <5>1
            <4> QED BY <4>1, <4>2
        <3> HIDE DEF oom, nic, disk
        <3> QED BY <3>1, <3>2, <3>3
    <2> QED BY <2>1, <2>2, <2>3
<1> QED BY <1>8, <1>10, <1>11, <1>12 DEF NicInv

LEMMA InitNicInv == Init => NicInv
<1> SUFFICES ASSUME Init PROVE NicInv
    OBVIOUS
<1>1. Cardinality(Nics) \in Nat /\ MaxErrors * Cardinality(Nics) \in Nat
    <2>1. Cardinality(Nics) \in Nat
        BY FS_CardinalityType
    <2> QED BY <2>1
<1>2. /\ rx \in [Nics -> 0..MaxErrors] /\ route \in Nics \cup {"any"} /\ now \in 0..MaxNow
      /\ nicLast = [total |-> -1, at |-> 0]
      /\ nicPast.watched = {} /\ nicPast.count = 0 /\ ~record.written
      /\ nicPast \in [watched: SUBSET Nics, at: 0..MaxNow, count: Nat]
    BY DEF Init, NoPast, NoSample, NoRecord, None
<1>3. record.sampled \in BOOLEAN /\ record.written \in BOOLEAN
    BY DEF Init, NoRecord
<1>4. nicLast \in [total: -1..(MaxErrors * Cardinality(Nics)), at: 0..MaxNow]
    BY <1>1, <1>2
<1>5. NicTypes
    BY <1>2, <1>3, <1>4 DEF NicTypes
<1> QED BY <1>2, <1>5 DEF NicInv, Since, NicAlertIsExact

LEMMA NextNicInv == NicInv /\ [Next]_vars => NicInv'
<1> SUFFICES ASSUME NicInv, [Next]_vars PROVE NicInv'
    OBVIOUS
<1>0. NicTypes
    BY DEF NicInv
<1>1. ASSUME NEW n \in Nics, RxError(n) \/ NicReset(n) PROVE NicInv'
    BY <1>1, ErrorSince, ResetForgets
<1>2. CASE Cycle
    BY <1>2, CycleIsExact
<1>3. CASE Sleep
    <2>1. /\ record.written /\ record' = NoRecord /\ UNCHANGED <<now, rx, route, nicLast>>
          /\ nicPast' = IF record.sampled THEN [watched |-> Watched, at |-> now, count |-> 0]
                                         ELSE nicPast
        BY <1>3 DEF Sleep, nicVars
    <2>2. Watched \in SUBSET Nics /\ NicTotal = Errors(Watched) /\ NicTotal \in Nat
        <3>1. Cardinality(Nics) \in Nat
            BY FS_CardinalityType
        <3> QED BY <1>0, <3>1, WatchedTotal
    <2>3. /\ nicPast' \in [watched: SUBSET Nics, at: 0..MaxNow, count: Nat]
          /\ nicPast'.watched = {} => nicPast'.count = 0
        BY <1>0, <2>1, <2>2 DEF NicTypes
    <2>4. ~record'.written /\ record'.sampled = FALSE /\ record'.written = FALSE
        BY <2>1 DEF NoRecord
    <2>5. NicTypes'
        BY <1>0, <2>1, <2>3, <2>4 DEF NicTypes
    <2>6. Since'
        <3>1. CASE record.sampled
            <4>1. /\ nicPast'.watched = Watched /\ nicPast'.count = 0 /\ nicPast'.at = now
                  /\ nicLast'.total = NicTotal /\ nicLast'.at = now
                BY <2>1, <3>1 DEF NicInv
            <4>2. Errors(nicPast.watched)' = NicTotal
                BY <2>1, <2>2, <4>1 DEF Errors
            <4> QED BY <2>2, <4>1, <4>2 DEF Since, None
        <3>2. CASE ~record.sampled
            BY <2>1, <3>2, SinceStays
        <3> QED BY <3>1, <3>2
    <2> QED BY <2>4, <2>5, <2>6 DEF NicInv, NicAlertIsExact
<1>4. CASE Reboot \/ Restart
    <2>1. /\ rx' \in [Nics -> 0..MaxErrors] /\ route' = route /\ now' = now
          /\ nicLast' = NoSample /\ nicPast' = NoPast /\ record' = NoRecord
        BY <1>0, <1>4 DEF Reboot, Restart, nicVars, NicTypes
    <2>2. NoSample \in [total: -1..(MaxErrors * Cardinality(Nics)), at: 0..MaxNow]
        <3>1. Cardinality(Nics) \in Nat
            BY FS_CardinalityType
        <3>2. MaxErrors * Cardinality(Nics) \in Nat
            BY <3>1
        <3> QED BY <3>2 DEF NoSample, None
    <2>3. ~record'.written /\ record'.sampled = FALSE /\ record'.written = FALSE
        BY <2>1 DEF NoRecord
    <2>4. /\ nicPast'.watched = {} /\ nicPast'.count = 0
          /\ nicPast' \in [watched: SUBSET Nics, at: 0..MaxNow, count: Nat]
        BY <2>1 DEF NoPast
    <2>5. NicTypes'
        BY <1>0, <2>1, <2>2, <2>3, <2>4 DEF NicTypes
    <2> QED BY <2>3, <2>4, <2>5 DEF NicInv, Since, NicAlertIsExact
<1>5. ASSUME ~record.written, route' \in Nics \cup {"any"}, now' \in 0..MaxNow,
             UNCHANGED <<rx, nicLast, nicPast, record>>
      PROVE  NicInv'
    <2>1. NicTypes'
        BY <1>0, <1>5 DEF NicTypes
    <2>2. Since'
        BY <1>5, SinceStays
    <2> QED BY <1>5, <2>1, <2>2 DEF NicInv, NicAlertIsExact
<1>6. CASE Reroute
    BY <1>0, <1>5, <1>6 DEF Reroute, Moves, NicTypes
<1>7. ASSUME NEW s \in Stations, StartCapture(s) \/ EndCapture(s) \/ OomKill(s)
      PROVE  NicInv'
    BY <1>0, <1>5, <1>7 DEF StartCapture, EndCapture, OomKill, Moves, nicVars, NicTypes
<1>8. ASSUME NEW disk \in Disks, DiskError(disk) PROVE NicInv'
    BY <1>0, <1>5, <1>8 DEF DiskError, Moves, nicVars, NicTypes
<1>9. CASE Remount \/ Scroll \/ Tick
    BY <1>0, <1>5, <1>9 DEF Remount, Scroll, Tick, Moves, nicVars, NicTypes
<1>10. CASE UNCHANGED vars
    <2>1. UNCHANGED <<now, rx, route, nicLast, nicPast, record>> /\ NicTotal' = NicTotal
        BY <1>10, TotalStays DEF vars, nicVars
    <2> QED BY <2>1 DEF NicInv, NicTypes, Since, NicAlertIsExact, Watched, Errors, Flagged
<1> QED
    BY <1>1, <1>2, <1>3, <1>4, <1>6, <1>7, <1>8, <1>9, <1>10 DEF Next

\* For any interfaces, counts, routes and resets, and however many samples were missed:
\* the alert is raised exactly when the watched interfaces have counted errors since, and
\* enough of them for a rate that is not rounded to zero.
THEOREM NicErrorsAreExact == Spec => []NicAlertIsExact
<1>1. NicInv => NicAlertIsExact
    BY DEF NicInv
<1> QED BY <1>1, InitNicInv, NextNicInv, PTL DEF Spec

-----------------------------------------------------------------------------
(* Types. *)

HostTypes ==
    /\ now \in 0..MaxNow /\ bootedAt \in 0..now
    /\ startedAt \in [Stations -> -1..MaxNow] /\ killedAt \in -1..MaxNow
    /\ source \in {"journal", "files"}
    /\ errors \subseteq {"sda", "sdb", "sdc", "unnamed"} /\ swapped \in BOOLEAN
    /\ mounted \in BOOLEAN /\ failing \subseteq {"root", "data"}
    /\ damaged \subseteq Stations

LEMMA NextHostTypes == HostTypes /\ [Next]_vars => HostTypes'
<1> SUFFICES ASSUME HostTypes, [Next]_vars PROVE HostTypes'
    OBVIOUS
<1> USE DEF HostTypes, Moves, oomVars, diskVars, nicVars
<1>1. ASSUME NEW s \in Stations, StartCapture(s) PROVE HostTypes'
    BY <1>1 DEF StartCapture
<1>2. ASSUME NEW s \in Stations, EndCapture(s) PROVE HostTypes'
    <2>1. startedAt' \in [Stations -> -1..MaxNow]
        BY <1>2 DEF EndCapture, None
    <2> QED BY <1>2, <2>1 DEF EndCapture
<1>3. ASSUME NEW s \in Stations, OomKill(s) PROVE HostTypes'
    BY <1>3 DEF OomKill
<1>4. ASSUME NEW disk \in Disks, DiskError(disk) PROVE HostTypes'
    <2>1. PICK line \in {NameOf(disk), "unnamed"} : errors' = errors \cup {line}
        BY <1>4 DEF DiskError
    <2>2. line \in {"sda", "sdb", "sdc", "unnamed"}
        BY <2>1 DEF NameOf
    <2>3. failing' \subseteq {"root", "data"}
        BY <1>4 DEF DiskError, InUse
    <2> QED BY <1>4, <2>1, <2>2, <2>3 DEF DiskError
<1>5. CASE Remount
    BY <1>5 DEF Remount
<1>6. CASE Scroll
    BY <1>6 DEF Scroll, None
<1>7. ASSUME NEW n \in Nics, RxError(n) \/ NicReset(n) PROVE HostTypes'
    BY <1>7 DEF RxError, NicReset
<1>8. CASE Reroute
    BY <1>8 DEF Reroute
<1>9. CASE Tick
    BY <1>9 DEF Tick
<1>10. CASE Reboot
    BY <1>10 DEF Reboot, None
<1>11. CASE Restart
    BY <1>11 DEF Restart
<1>12. CASE Cycle \/ Sleep
    BY <1>12 DEF Cycle, Sleep
<1>13. CASE UNCHANGED vars
    BY <1>13 DEF vars
<1> QED
    BY <1>1, <1>2, <1>3, <1>4, <1>5, <1>6, <1>7, <1>8, <1>9, <1>10, <1>11, <1>12, <1>13
    DEF Next

\* Every variable has its type: times, disks and counts stay within their bounds, for any
\* number of stations and interfaces.
THEOREM TypeCorrect == Spec => []TypeOK
<1>1. Init => HostTypes
    <2> SUFFICES ASSUME Init PROVE HostTypes
        OBVIOUS
    <2>1. /\ now \in 0..MaxNow /\ bootedAt \in 0..now
          /\ startedAt \in [Stations -> -1..MaxNow] /\ killedAt \in -1..MaxNow
        BY DEF Init, None
    <2>2. swapped \in BOOLEAN /\ mounted \in BOOLEAN
        BY DEF Init
    <2> QED BY <2>1, <2>2 DEF Init, HostTypes
<1>2. HostTypes /\ NicInv => TypeOK
    BY DEF HostTypes, NicInv, NicTypes, TypeOK
<1> QED BY <1>1, <1>2, NextHostTypes, InitNicInv, NextNicInv, PTL DEF Spec

=============================================================================
