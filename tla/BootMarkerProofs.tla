-------------------------- MODULE BootMarkerProofs --------------------------
(***************************************************************************)
(* Proofs about BootMarker, for every number of boots, restarts, kills,    *)
(* cuts and writability changes: its types; a published verdict is backed  *)
(* by what really happened to the boot it is about (MarkerInv), and is the *)
(* only one of its boot (OneVerdict); on a disk that loses nothing, a cut  *)
(* is reported (LeftLive) and dated (LeftFresh); and the marker implements *)
(* BootVerdict.                                                            *)
(***************************************************************************)
EXTENDS BootMarker, TLAPS

USE BootMarkerAssumption

\* A write leaves every path with a record: its own, or the one it had.
LEMMA WriteToType ==
    ASSUME NEW f \in [Path -> Record], NEW rec \in Record
    PROVE  WriteTo(f, rec) \in [Path -> Record]
  BY DEF WriteTo, Path

LEMMA ReadFromType ==
    ASSUME NEW f \in [Path -> Record]
    PROVE  ReadFrom(f) \in Record
  BY DEF ReadFrom, Path

LEMMA StartRecordType ==
    ASSUME TypeOK PROVE StartRecord \in Record
  <1>1. read \in Record
    BY ReadFromType DEF TypeOK, read
  <1>2. verdict_for_state(read.state) \in Verdict
    BY DEF verdict_for_state, Verdict
  <1>3. boot \in Nat /\ now \in Nat
    BY DEF TypeOK
  <1> QED
    BY <1>1, <1>2, <1>3 DEF StartRecord, NoRecord, Record, State, Verdict

\* Writing a record of the right type keeps both views of the disk well typed.
LEMMA WriteType ==
    ASSUME TypeOK, NEW rec \in Record, Write(rec)
    PROVE  disk' \in [Path -> Record] /\ durable' \in [Path -> Record]
  BY WriteToType DEF TypeOK, Write

LEMMA TypeInit == Init => TypeOK
  <1> SUFFICES ASSUME Init PROVE TypeOK
    OBVIOUS
  <1>1. NoRecord \in Record
    BY DEF NoRecord, Record, State, Verdict
  <1>2. disk \in [Path -> Record] /\ durable \in [Path -> Record]
    BY <1>1 DEF Init
  <1>3. asleep \in BOOLEAN /\ (asleep => proc = "live")
    BY DEF Init
  <1> QED
    BY <1>2, <1>3 DEF Init, TypeOK

LEMMA TypeStep == TypeOK /\ [Next]_vars => TypeOK'
  <1> SUFFICES ASSUME TypeOK, [Next]_vars PROVE TypeOK'
    OBVIOUS
  <1>0. read \in Record
    BY ReadFromType DEF TypeOK, read
  <1>1. CASE Start
    <2>1. disk' \in [Path -> Record] /\ durable' \in [Path -> Record]
      BY <1>1, StartRecordType, WriteType DEF Start, TypeOK
    <2> QED BY <1>1, <2>1 DEF Start, TypeOK, envVars, histVars
  <1>2. CASE LoopTop
    <2>1. [read EXCEPT !.state = "live", !.ts = now] \in Record
      BY <1>0 DEF TypeOK, Record, State
    <2>2. disk' \in [Path -> Record] /\ durable' \in [Path -> Record]
      BY <1>2, <2>1, WriteType DEF LoopTop, TypeOK
    <2> QED BY <1>2, <2>2 DEF LoopTop, TypeOK, envVars, histVars
  <1>3. CASE Stop
    <2>1. \A s \in {"shutdown", "stopped"} :
            [read EXCEPT !.state = s, !.ts = now] \in Record
      BY <1>0 DEF TypeOK, Record, State
    <2>2. disk' \in [Path -> Record] /\ durable' \in [Path -> Record]
      BY <1>3, <2>1, WriteType DEF Stop, TypeOK, diskVars
    <2> QED BY <1>3, <2>2 DEF Stop, Gone, TypeOK, envVars, histVars
  <1>4. CASE PowerOn
    BY <1>4 DEF PowerOn, TypeOK, procVars, diskVars, histVars
  <1>5. CASE PowerCut
    <2>1. cut' \subseteq Nat /\ cutUp' \subseteq Nat
      BY <1>5 DEF PowerCut, TypeOK
    <2>2. topAt' \in [0..MaxBoots -> Nat]
      BY <1>5 DEF PowerCut, TypeOK
    <2> QED BY <1>5, <2>1, <2>2 DEF PowerCut, Gone, TypeOK
  <1>6. CASE FinishShutdown
    BY <1>6 DEF FinishShutdown, TypeOK, procVars
  <1>7. CASE BodyDone
    BY <1>7 DEF BodyDone, TypeOK, envVars, diskVars, histVars
  <1>8. CASE Launch
    BY <1>8 DEF Launch, TypeOK, envVars, diskVars, histVars
  <1>9. CASE Die
    <2>1. lapsed' \subseteq Nat
      BY <1>9 DEF Die, TypeOK
    <2> QED BY <1>9, <2>1 DEF Die, Gone, TypeOK, envVars, diskVars
  <1>10. CASE Sync
    BY <1>10 DEF Sync, TypeOK, envVars, procVars, histVars
  <1>11. CASE BeginShutdown
    <2>1. begun' \subseteq Nat
      BY <1>11 DEF BeginShutdown, TypeOK
    <2> QED BY <1>11, <2>1 DEF BeginShutdown, TypeOK, procVars, diskVars
  <1>12. CASE Remount
    <2>1. lapsed' \subseteq Nat
      BY <1>12 DEF Remount, TypeOK
    <2> QED BY <1>12, <2>1 DEF Remount, TypeOK, procVars, diskVars
  <1>13. CASE Tick
    BY <1>13 DEF Tick, TypeOK, procVars, diskVars, histVars
  <1>14. CASE UNCHANGED vars
    BY <1>14 DEF vars, TypeOK, envVars, procVars, diskVars, histVars
  <1> QED
    BY <1>1, <1>2, <1>3, <1>4, <1>5, <1>6, <1>7, <1>8, <1>9, <1>10, <1>11,
       <1>12, <1>13, <1>14 DEF Next

\* Every reachable state of the marker and its process is well typed.
THEOREM TypeCorrect == Spec => []TypeOK
  BY TypeInit, TypeStep, PTL DEF Spec

-----------------------------------------------------------------------------
(* What a write does to what is read. *)

LEMMA ReadAfterWrite ==
    ASSUME NEW f \in [Path -> Record], NEW rec \in Record, rec.boot # 0
    PROVE  /\ ReadFrom(WriteTo(f, rec)) =
                IF "system" \in writable
                     \/ ("user" \in writable /\ f["system"].boot = 0)
                THEN rec ELSE ReadFrom(f)
           /\ (WriteTo(f, rec)["system"].boot # 0) =
                ("system" \in writable \/ f["system"].boot # 0)
           /\ \A p \in Path : WriteTo(f, rec)[p] \in {f[p], rec}
  BY DEF WriteTo, ReadFrom, Path

\* A write, by a running process, of an honest record of the current boot keeps
\* every part of the invariant but GuardHolds.
LEMMA WriteKeeps ==
    ASSUME MarkerInv, TypeOK', NEW rec \in Record, Write(rec),
           HonestRecord(rec), rec.boot = boot, BootIdReadable,
           power # "off", UNCHANGED <<envVars, histVars>>
    PROVE  /\ HonestFiles(disk)' /\ HonestFiles(durable)'
           /\ LiveIsOver(disk)' /\ LiveIsOver(durable)'
           /\ read' = IF "system" \in writable
                           \/ ("user" \in writable /\ disk["system"].boot = 0)
                      THEN rec ELSE read
           /\ (disk'["system"].boot # 0) =
                ("system" \in writable \/ disk["system"].boot # 0)
  <1>0. boot # 0 /\ disk \in [Path -> Record] /\ durable \in [Path -> Record]
    BY DEF MarkerInv, Powered, TypeOK
  <1>1. \A p \in Path : disk'[p] \in {disk[p], rec}
    BY <1>0, ReadAfterWrite DEF Write
  <1>2. \A p \in Path : durable'[p] \in {durable[p], disk[p], rec}
    BY <1>0, <1>1 DEF Write
  <1>3. HonestFiles(disk)' /\ HonestFiles(durable)'
    BY <1>1, <1>2 DEF MarkerInv, HonestFiles, HonestRecord, envVars, histVars
  <1>4. read' = IF "system" \in writable
                     \/ ("user" \in writable /\ disk["system"].boot = 0)
                THEN rec ELSE read
    BY <1>0, ReadAfterWrite DEF Write, read
  <1>5. LiveIsOver(disk)'
    BY <1>0, <1>4 DEF MarkerInv, LiveIsOver, read, envVars, histVars
  <1>6. LiveIsOver(durable)'
    <2>1. CASE VolatileWrites
      BY <2>1 DEF Write, MarkerInv, LiveIsOver, envVars, histVars, ReadFrom
    <2>2. CASE ~VolatileWrites
      BY <2>2, <1>5 DEF Write, LiveIsOver
    <2> QED BY <2>1, <2>2
  <1>7. (disk'["system"].boot # 0) =
          ("system" \in writable \/ disk["system"].boot # 0)
    BY <1>0, ReadAfterWrite DEF Write
  <1> QED
    BY <1>3, <1>4, <1>5, <1>6, <1>7

-----------------------------------------------------------------------------
(* The invariant, action by action. *)

\* The record start() writes is honest: the verdict it carries over was, and the
\* one it reaches is, because LiveIsOver holds of the record it judges.
LEMMA StartRecordIsHonest ==
    ASSUME MarkerInv, power # "off"
    PROVE  StartRecord.boot = boot /\ StartRecord.state = "live"
             /\ HonestRecord(StartRecord)
  <1>1. read \in Record /\ boot \in Nat /\ now \in Nat
    BY ReadFromType DEF MarkerInv, TypeOK, read
  <1>2. HonestRecord(read)
    BY DEF MarkerInv, HonestFiles, read, ReadFrom, Path
  <1>3. read.boot \notin {0, boot}
          => /\ verdict_for_state(read.state) = "clean" => read.boot \in begun
             /\ verdict_for_state(read.state) = "unclean"
                  => read.boot \in cut \cup lapsed
    BY <1>2 DEF MarkerInv, LiveIsOver, read, HonestRecord, verdict_for_state
  <1>4. CASE read.boot = boot
    BY <1>1, <1>2, <1>4 DEF StartRecord, HonestRecord, NoRecord
  <1>5. CASE read.boot \notin {0, boot}
    <2> DEFINE v == verdict_for_state(read.state)
    <2>1. StartRecord = [boot |-> boot, state |-> "live", ts |-> now,
                         last_shutdown |-> v,
                         last_shutdown_ts |-> read.ts, about |-> read.boot]
      BY <1>1, <1>5 DEF StartRecord, NoRecord
    <2>2. v = "clean" => read.boot \in begun
      BY <1>3, <1>5
    <2>3. v = "unclean" => read.boot \in cut \cup lapsed
      BY <1>3, <1>5
    <2> HIDE DEF v
    <2> QED BY <1>1, <2>1, <2>2, <2>3 DEF HonestRecord
  <1>6. CASE read.boot = 0 /\ read.boot # boot
    <2>1. StartRecord = [NoRecord EXCEPT !.boot = boot, !.state = "live", !.ts = now]
      BY <1>6 DEF StartRecord
    <2> QED BY <1>1, <2>1 DEF HonestRecord, NoRecord
  <1> QED
    BY <1>4, <1>5, <1>6

LEMMA MarkerInvInit == Init => MarkerInv
  <1> SUFFICES ASSUME Init PROVE MarkerInv
    OBVIOUS
  <1>1. TypeOK
    BY TypeInit
  <1> QED
    BY <1>1 DEF Init, MarkerInv, Powered, HonestFiles, HonestRecord, LiveIsOver,
                ReadFrom, read, GuardHolds, NoRecord, Path

LEMMA StartKeepsInv ==
    ASSUME MarkerInv, TypeOK', Start PROVE MarkerInv'
  <1>1. UNCHANGED <<envVars, histVars>> /\ power # "off" /\ boot # 0
    BY DEF MarkerInv, Powered, Start
  <1>2. CASE BootIdReadable
    <2>1. Write(StartRecord) /\ StartRecord \in Record
      BY <1>1, <1>2, StartRecordType DEF Start, current_boot_id, MarkerInv
    <2>2. StartRecord.boot = boot /\ HonestRecord(StartRecord)
      BY <1>1, StartRecordIsHonest
    <2>3. /\ HonestFiles(disk)' /\ HonestFiles(durable)'
          /\ LiveIsOver(disk)' /\ LiveIsOver(durable)'
          /\ read' = IF "system" \in writable
                          \/ ("user" \in writable /\ disk["system"].boot = 0)
                     THEN StartRecord ELSE read
          /\ (disk'["system"].boot # 0) =
               ("system" \in writable \/ disk["system"].boot # 0)
      BY <1>1, <1>2, <2>1, <2>2, WriteKeeps
    <2>4. GuardHolds'
      BY <1>1, <2>3 DEF GuardHolds, MarkerInv, Start, envVars, histVars
    <2>5. Powered'
      BY <1>1, <1>2 DEF MarkerInv, Powered, envVars, histVars
    <2> QED BY <2>3, <2>4, <2>5 DEF MarkerInv
  <1>3. CASE ~BootIdReadable
    <2>1. UNCHANGED <<disk, durable>>
      BY <1>3 DEF Start, current_boot_id
    <2> QED
      BY <1>1, <1>3, <2>1 DEF MarkerInv, Powered, HonestFiles, HonestRecord, LiveIsOver,
             ReadFrom, read, GuardHolds, envVars, histVars, Path
  <1> QED BY <1>2, <1>3

\* A step of a process that owns the marker and rewrites its state and time.
LEMMA RewriteKeeps ==
    ASSUME MarkerInv, TypeOK', OwnsMarker, power # "off",
           NEW st \in {"live", "shutdown", "stopped"},
           st = "shutdown" => boot \in begun,
           st = "live" => proc' \in {"started", "live"},
           Write([read EXCEPT !.state = st, !.ts = now]),
           UNCHANGED <<envVars, histVars>>
    PROVE  MarkerInv'
  <1> DEFINE rec == [read EXCEPT !.state = st, !.ts = now]
  <1>1. read \in Record /\ boot \in Nat /\ now \in Nat
    BY ReadFromType DEF MarkerInv, TypeOK, read
  <1>2. HonestRecord(read) /\ read.boot = boot /\ BootIdReadable /\ boot # 0
    BY DEF MarkerInv, HonestFiles, read, ReadFrom, Path, OwnsMarker, current_boot_id
  <1>3. rec \in Record /\ rec.boot = boot /\ rec.state = st /\ HonestRecord(rec)
    BY <1>1, <1>2 DEF Record, State, HonestRecord
  <1> HIDE DEF rec
  <1>4. /\ HonestFiles(disk)' /\ HonestFiles(durable)'
        /\ LiveIsOver(disk)' /\ LiveIsOver(durable)'
        /\ read' = IF "system" \in writable
                        \/ ("user" \in writable /\ disk["system"].boot = 0)
                   THEN rec ELSE read
        /\ (disk'["system"].boot # 0) =
             ("system" \in writable \/ disk["system"].boot # 0)
    BY <1>2, <1>3, WriteKeeps DEF rec
  <1>5. GuardHolds'
    BY <1>2, <1>3, <1>4 DEF GuardHolds, MarkerInv, envVars, histVars
  <1>6. Powered'
    BY <1>2 DEF MarkerInv, Powered, envVars, histVars
  <1> QED BY <1>4, <1>5, <1>6 DEF MarkerInv

\* A step that leaves both views of the disk, the boot and the power alone, and
\* neither forgets history nor leaves a live record without its process.
LEMMA IdleKeeps ==
    ASSUME MarkerInv, TypeOK', UNCHANGED <<boot, power, disk, durable>>,
           begun \subseteq begun', cut \subseteq cut', lapsed \subseteq lapsed',
           \/ lapsed' = lapsed /\ writable' = writable
           \/ boot \in lapsed',
           proc' # "down" => power # "off",
           \/ proc \in {"started", "live"} => proc' \in {"started", "live"}
           \/ boot \in lapsed'
           \/ read.boot # boot
    PROVE  MarkerInv'
  <1>1. Powered'
    BY DEF MarkerInv, Powered
  <1>2. HonestFiles(disk)' /\ HonestFiles(durable)'
    BY DEF MarkerInv, HonestFiles, HonestRecord
  <1>3. LiveIsOver(disk)' /\ LiveIsOver(durable)'
    BY DEF MarkerInv, LiveIsOver, ReadFrom
  <1>4. GuardHolds'
    BY DEF MarkerInv, GuardHolds, read, ReadFrom
  <1> QED BY <1>1, <1>2, <1>3, <1>4 DEF MarkerInv

LEMMA MarkerInvStep == MarkerInv /\ [Next]_vars => MarkerInv'
  <1> SUFFICES ASSUME MarkerInv, [Next]_vars PROVE MarkerInv'
    OBVIOUS
  <1>0. TypeOK'
    BY TypeStep DEF MarkerInv
  <1>1. CASE Start
    BY <1>0, <1>1, StartKeepsInv
  <1>2. CASE LoopTop
    <2>1. power # "off" /\ proc' = "live" /\ UNCHANGED <<envVars, histVars>>
      BY <1>2 DEF LoopTop, MarkerInv, Powered, TypeOK
    <2>2. CASE BeatDue /\ OwnsMarker
      BY <1>0, <1>2, <2>1, <2>2, RewriteKeeps DEF LoopTop
    <2>3. CASE ~(BeatDue /\ OwnsMarker)
      BY <1>0, <1>2, <2>1, <2>3, IdleKeeps DEF LoopTop, envVars, histVars
    <2> QED BY <2>2, <2>3
  <1>3. CASE Stop
    <2>1. power # "off" /\ proc' = "down" /\ UNCHANGED <<envVars, histVars>>
      BY <1>3 DEF Stop, Gone, MarkerInv, Powered
    <2>2. PICK stopping \in system_stopping :
            IF OwnsMarker
            THEN Write([read EXCEPT
                          !.state = IF stopping THEN "shutdown" ELSE "stopped",
                          !.ts = now])
            ELSE UNCHANGED diskVars
      BY <1>3 DEF Stop
    <2>3. stopping => boot \in begun
      BY <2>2 DEF system_stopping, MarkerInv, Powered
    <2>4. CASE OwnsMarker
      BY <1>0, <2>1, <2>2, <2>3, <2>4, RewriteKeeps
    <2>5. CASE ~OwnsMarker
      <3>1. read.boot # boot
        BY <2>1, <2>5 DEF OwnsMarker, current_boot_id, MarkerInv, Powered, read,
                         ReadFrom, Path
      <3> QED
        BY <1>0, <2>1, <2>2, <2>5, <3>1, IdleKeeps DEF envVars, histVars, diskVars
    <2> QED BY <2>4, <2>5
  <1>4. CASE Launch
    BY <1>0, <1>4, IdleKeeps DEF Launch, envVars, diskVars, histVars
  <1>5. CASE Die
    <2>1. boot \in lapsed' \/ proc = "launched"
      BY <1>5 DEF Die
    <2> QED
      BY <1>0, <1>5, <2>1, IdleKeeps DEF Die, Gone, envVars, diskVars
  <1>6. CASE BeginShutdown
    BY <1>0, <1>6 DEF BeginShutdown, MarkerInv, Powered, HonestFiles, HonestRecord,
         LiveIsOver, ReadFrom, read, GuardHolds, procVars, diskVars
  <1>7. CASE FinishShutdown
    BY <1>0, <1>7 DEF FinishShutdown, MarkerInv, Powered, HonestFiles, HonestRecord,
         LiveIsOver, ReadFrom, read, GuardHolds, procVars
  <1>8. CASE PowerCut
    BY <1>0, <1>8 DEF PowerCut, Gone, MarkerInv, Powered, HonestFiles, HonestRecord,
         LiveIsOver, ReadFrom, read, GuardHolds
  <1>9. CASE Sync
    BY <1>0, <1>9 DEF Sync, MarkerInv, Powered, HonestFiles, HonestRecord,
         LiveIsOver, ReadFrom, read, GuardHolds, envVars, procVars, histVars
  <1>10. CASE PowerOn
    <2>1. boot \in Nat /\ boot' = boot + 1 /\ proc = "down"
      BY <1>10 DEF PowerOn, MarkerInv, TypeOK, Powered
    <2>2. HonestFiles(disk)' /\ HonestFiles(durable)'
      <3>1. \A p \in Path : disk[p].boot \in Nat /\ durable[p].boot \in Nat
        BY DEF MarkerInv, TypeOK, Record
      <3> QED BY <1>10, <2>1, <3>1 DEF PowerOn, MarkerInv, HonestFiles, HonestRecord,
                                     diskVars, histVars
    <2>3. LiveIsOver(disk)' /\ LiveIsOver(durable)'
      BY <1>10 DEF PowerOn, MarkerInv, LiveIsOver, ReadFrom, diskVars, histVars
    <2>4. read'.boot # boot'
      <3>1. read.boot \in Nat /\ read.boot <= boot
        BY ReadFromType DEF MarkerInv, TypeOK, HonestFiles, HonestRecord, read,
                           ReadFrom, Path, Record
      <3>2. read' = read
        BY <1>10 DEF PowerOn, read, ReadFrom, diskVars
      <3> QED BY <2>1, <3>1, <3>2
    <2>5. Powered' /\ GuardHolds'
      BY <1>10, <2>1, <2>4 DEF PowerOn, MarkerInv, Powered, GuardHolds, procVars,
                              diskVars
    <2> QED BY <1>0, <2>2, <2>3, <2>5 DEF MarkerInv
  <1>11. CASE Remount
    BY <1>0, <1>11, IdleKeeps DEF Remount, MarkerInv, Powered, procVars, diskVars
  <1>12. CASE BodyDone
    BY <1>0, <1>12, IdleKeeps DEF BodyDone, MarkerInv, Powered, envVars,
         diskVars, histVars
  <1>13. CASE Tick
    BY <1>0, <1>13, IdleKeeps DEF Tick, MarkerInv, Powered, procVars, diskVars, histVars
  <1>14. CASE UNCHANGED vars
    BY <1>0, <1>14, IdleKeeps DEF vars, MarkerInv, Powered, envVars, procVars,
         diskVars, histVars
  <1> QED
    BY <1>1, <1>2, <1>3, <1>4, <1>5, <1>6, <1>7, <1>8, <1>9, <1>10, <1>11,
       <1>12, <1>13, <1>14 DEF Next

LEMMA MarkerInvariant == Spec => []MarkerInv
  BY MarkerInvInit, MarkerInvStep, PTL DEF Spec

-----------------------------------------------------------------------------
(* The verdicts. *)

\* "clean" is never published about a boot in which no orderly shutdown began.
THEOREM CleanVerdictsAreSound == Spec => []CleanIsSound
  <1>1. MarkerInv => CleanIsSound
    BY DEF MarkerInv, HonestFiles, HonestRecord, CleanIsSound, Published, read,
           ReadFrom, Path
  <1> QED
    BY <1>1, MarkerInvariant, PTL

\* "unclean" is never published about a boot that ended in order under a monitor
\* that ran stop(): only a power cut or a lapse of the guard leads to it.
THEOREM UncleanVerdictsAreSound == Spec => []UncleanIsSound
  <1>1. MarkerInv => UncleanIsSound
    BY DEF MarkerInv, HonestFiles, HonestRecord, UncleanIsSound, Published, read,
           ReadFrom, Path
  <1> QED
    BY <1>1, MarkerInvariant, PTL

-----------------------------------------------------------------------------
(* One verdict per boot. *)

\* The step leaves the verdict that the next start() would write, and a record of
\* this boot remains one.
SameVerdict ==
    /\ StartRecord'.last_shutdown = StartRecord.last_shutdown
    /\ StartRecord'.last_shutdown_ts = StartRecord.last_shutdown_ts
    /\ StartRecord'.about = StartRecord.about
    /\ read.boot = boot => read'.boot = boot

\* What the next start() would say does not change as long as the record that is
\* read stays, or is replaced by one of this boot that says the same.
LEMMA VerdictStays ==
    ASSUME boot' = boot,
           \/ read' = read
           \/ read'.boot = boot /\ SaysTheSame(read')
    PROVE  SameVerdict
  <1>1. CASE read'.boot = boot /\ SaysTheSame(read')
    BY <1>1 DEF StartRecord, SaysTheSame, NoRecord, SameVerdict
  <1>2. CASE read' = read /\ read.boot = boot
    BY <1>2 DEF StartRecord, NoRecord, SameVerdict
  <1>3. CASE read' = read /\ read.boot \notin {0, boot}
    <2> DEFINE v == verdict_for_state(read.state)
    <2>1. v' = v
      BY <1>3 DEF verdict_for_state
    <2>2. /\ StartRecord.last_shutdown = v /\ StartRecord.last_shutdown_ts = read.ts
          /\ StartRecord.about = read.boot
      BY <1>3 DEF StartRecord, NoRecord
    <2>3. /\ StartRecord'.last_shutdown = v' /\ StartRecord'.last_shutdown_ts = read'.ts
          /\ StartRecord'.about = read'.boot
      BY <1>3 DEF StartRecord, NoRecord
    <2> QED BY <1>3, <2>1, <2>2, <2>3 DEF SameVerdict
  <1>4. CASE read' = read /\ read.boot = 0 /\ read.boot # boot
    BY <1>4 DEF StartRecord, NoRecord, SameVerdict
  <1> QED BY <1>1, <1>2, <1>3, <1>4

\* A write, by a running process, of a record of this boot that says the same.
LEMMA WriteSaysTheSame ==
    ASSUME MarkerInv, OneVerdict, power # "off", UNCHANGED <<boot, power>>,
           NEW rec \in Record, rec.boot = boot, SaysTheSame(rec), Write(rec)
    PROVE  OneVerdict' /\ SameVerdict
  <1>0. boot # 0 /\ disk \in [Path -> Record] /\ durable \in [Path -> Record]
    BY DEF MarkerInv, Powered, TypeOK
  <1>1. \A p \in Path : disk'[p] \in {disk[p], rec}
    BY <1>0, ReadAfterWrite DEF Write
  <1>2. \A p \in Path : durable'[p] \in {durable[p], disk[p], rec}
    BY <1>0, <1>1 DEF Write
  <1>3. read' \in {read, rec}
    BY <1>0, ReadAfterWrite DEF Write, read
  <1>4. SameVerdict
    BY <1>3, VerdictStays
  <1>5. \A p \in Path : SaysTheSame(disk[p]) /\ SaysTheSame(durable[p])
    BY DEF OneVerdict
  <1> QED BY <1>1, <1>2, <1>4, <1>5 DEF OneVerdict, SaysTheSame, SameVerdict

\* A step that leaves the disk alone, or syncs it.
LEMMA IdleSaysTheSame ==
    ASSUME OneVerdict, boot' = boot, disk' = disk, durable' \in {durable, disk},
           power' # "off" => power # "off"
    PROVE  OneVerdict' /\ SameVerdict
  <1>1. read' = read
    BY DEF read, ReadFrom
  <1>2. SameVerdict
    BY <1>1, VerdictStays
  <1> QED BY <1>2 DEF OneVerdict, SaysTheSame, SameVerdict

\* The step that keeps the record of this boot: its verdict is what start() says.
LEMMA OwnSaysTheSame ==
    ASSUME MarkerInv, read.boot = boot,
           NEW rec \in Record, rec.boot = boot,
           rec.last_shutdown = read.last_shutdown,
           rec.last_shutdown_ts = read.last_shutdown_ts,
           rec.about = read.about
    PROVE  SaysTheSame(rec)
  BY DEF SaysTheSame, StartRecord, NoRecord

LEMMA OneVerdictStep ==
    ASSUME MarkerInv, OneVerdict, [Next]_vars
    PROVE  OneVerdict' /\ (power # "off" /\ power' # "off" => SameVerdict)
  <1>0. read \in Record /\ boot \in Nat /\ now \in Nat
    BY ReadFromType DEF MarkerInv, TypeOK, read
  <1>1. CASE Start
    <2>1. power # "off" /\ UNCHANGED <<boot, power>>
      BY <1>1 DEF MarkerInv, Powered, Start, envVars
    <2>2. CASE current_boot_id = 0
      BY <1>1, <2>1, <2>2, IdleSaysTheSame DEF Start
    <2>3. CASE current_boot_id # 0
      <3>1. StartRecord \in Record /\ Write(StartRecord)
        BY <1>1, <2>3, StartRecordType DEF Start, MarkerInv
      <3>2. StartRecord.boot = boot /\ SaysTheSame(StartRecord)
        BY <2>1, StartRecordIsHonest DEF SaysTheSame
      <3> HIDE DEF StartRecord
      <3> QED BY <2>1, <3>1, <3>2, WriteSaysTheSame
    <2> QED BY <2>2, <2>3
  <1>2. ASSUME OwnsMarker, power # "off", UNCHANGED <<boot, power>>,
               NEW st \in State, Write([read EXCEPT !.state = st, !.ts = now])
        PROVE  OneVerdict' /\ SameVerdict
    <2> DEFINE rec == [read EXCEPT !.state = st, !.ts = now]
    <2>1. read.boot = boot
      BY <1>2 DEF OwnsMarker, current_boot_id
    <2>2. /\ rec \in Record /\ rec.boot = boot
          /\ rec.last_shutdown = read.last_shutdown
          /\ rec.last_shutdown_ts = read.last_shutdown_ts
          /\ rec.about = read.about
      BY <1>0, <2>1 DEF Record
    <2>3. Write(rec)
      BY <1>2
    <2> HIDE DEF rec
    <2>4. SaysTheSame(rec)
      BY <2>1, <2>2, OwnSaysTheSame
    <2> QED BY <1>2, <2>2, <2>3, <2>4, WriteSaysTheSame
  <1>3. CASE LoopTop
    <2>1. power # "off" /\ UNCHANGED <<boot, power>>
      BY <1>3 DEF LoopTop, MarkerInv, Powered, TypeOK, envVars
    <2>2. CASE BeatDue /\ OwnsMarker
      BY <1>2, <1>3, <2>1, <2>2 DEF LoopTop, State
    <2>3. CASE ~(BeatDue /\ OwnsMarker)
      BY <1>3, <2>1, <2>3, IdleSaysTheSame DEF LoopTop
    <2> QED BY <2>2, <2>3
  <1>4. CASE Stop
    <2>1. power # "off" /\ UNCHANGED <<boot, power>>
      BY <1>4 DEF Stop, MarkerInv, Powered, envVars
    <2>2. CASE OwnsMarker
      <3>1. PICK st \in State : Write([read EXCEPT !.state = st, !.ts = now])
        BY <1>4, <2>2 DEF Stop, State
      <3> QED BY <1>2, <2>1, <2>2, <3>1
    <2>3. CASE ~OwnsMarker
      BY <1>4, <2>1, <2>3, IdleSaysTheSame DEF Stop, diskVars
    <2> QED BY <2>2, <2>3
  <1>5. CASE PowerOn
    <2>1. \A p \in Path : /\ disk[p].boot \in Nat /\ disk[p].boot <= boot
                         /\ durable[p].boot \in Nat /\ durable[p].boot <= boot
      BY DEF MarkerInv, TypeOK, Record, HonestFiles, HonestRecord
    <2> QED BY <1>0, <1>5, <2>1 DEF PowerOn, OneVerdict, SaysTheSame, diskVars
  <1>6. CASE PowerCut \/ FinishShutdown
    BY <1>6 DEF PowerCut, FinishShutdown, OneVerdict
  <1>7. CASE Launch \/ Die \/ BodyDone \/ BeginShutdown \/ Remount \/ Tick
    BY <1>7, IdleSaysTheSame DEF Launch, Die, BodyDone, BeginShutdown, Remount,
                               Tick, envVars, diskVars
  <1>8. CASE Sync
    BY <1>8, IdleSaysTheSame DEF Sync, envVars
  <1>9. CASE UNCHANGED vars
    BY <1>9, IdleSaysTheSame DEF vars, envVars, diskVars
  <1> QED
    BY <1>1, <1>3, <1>4, <1>5, <1>6, <1>7, <1>8, <1>9 DEF Next

\* One step of the verdict: at a power cut the medium may show another record than
\* the file system did, of which OneVerdict says that it says the same.
LEMMA VerdictStep ==
    ASSUME MarkerInv, OneVerdict, [Next]_vars,
           OwnsMarker, OwnsMarker', boot' = boot
    PROVE  /\ read'.last_shutdown = read.last_shutdown
           /\ read'.last_shutdown_ts = read.last_shutdown_ts
  <1>1. read.boot = boot /\ read'.boot = boot
    BY DEF OwnsMarker, current_boot_id
  <1>2. CASE PowerCut
    <2>1. read' = ReadFrom(durable) /\ power # "off"
      BY <1>2 DEF PowerCut, read, ReadFrom
    <2>2. SaysTheSame(read) /\ SaysTheSame(read')
      BY <2>1 DEF OneVerdict, read, ReadFrom, Path
    <2> QED BY <1>1, <2>2 DEF SaysTheSame
  <1>3. CASE ~PowerCut /\ power # "off" /\ power' # "off"
    <2>1. OneVerdict' /\ SameVerdict
      BY <1>3, OneVerdictStep
    <2>2. SaysTheSame(read) /\ SaysTheSame(read)'
      BY <1>3, <2>1 DEF OneVerdict, read, ReadFrom, Path
    <2> QED BY <1>1, <2>1, <2>2 DEF SaysTheSame, SameVerdict
  <1>4. CASE ~PowerCut /\ (power = "off" \/ power' = "off")
    <2>1. disk' = disk
      BY <1>4 DEF MarkerInv, Powered, TypeOK, Next, Start, LoopTop, BodyDone, Stop, Launch, Die,
             BeginShutdown, FinishShutdown, Sync, PowerOn, Remount, Tick, vars,
             envVars, procVars, diskVars, histVars
    <2> QED BY <2>1 DEF read, ReadFrom
  <1> QED BY <1>2, <1>3, <1>4

\* The verdict published in a boot, and the time it is dated from, never change in
\* that boot, whatever is restarted, killed, remounted or lost on the way.
THEOREM OneVerdictPerBoot == Spec => VerdictIsStable
  <1>1. Init => OneVerdict
    BY DEF Init, OneVerdict
  <1>2. MarkerInv /\ OneVerdict /\ [Next]_vars => OneVerdict'
    BY OneVerdictStep
  <1>3. MarkerInv /\ OneVerdict /\ [Next]_vars
          => [OwnsMarker /\ OwnsMarker' /\ boot' = boot
                => /\ read'.last_shutdown = read.last_shutdown
                   /\ read'.last_shutdown_ts = read.last_shutdown_ts]_vars
    BY VerdictStep
  <1> QED
    BY <1>1, <1>2, <1>3, MarkerInvariant, PTL DEF Spec, VerdictIsStable

-----------------------------------------------------------------------------
(* A cut is reported. *)

\* On a firm disk a write is what is read next, and on the medium at once.
LEMMA FirmWrite ==
    ASSUME FirmDisk, MarkerInv, LeftLive,
           NEW rec \in Record, rec.boot # 0, Write(rec)
    PROVE  read' = rec /\ durable' = disk' /\ disk'["user"].boot = 0
  <1>1. disk \in [Path -> Record] /\ writable = Path
    BY DEF MarkerInv, TypeOK, LeftLive
  <1>2. disk' = [disk EXCEPT !["system"] = rec]
    BY <1>1 DEF Write, WriteTo, Path
  <1> QED BY <1>1, <1>2 DEF FirmDisk, Write, read, ReadFrom, LeftLive, Path

\* What start() writes about an earlier boot is what that boot left.
LEMMA StartRecordCarries ==
    ASSUME MarkerInv, LeftLive, power # "off"
    PROVE  /\ StartRecord.boot = boot /\ StartRecord.state = "live"
           /\ StartRecord.ts = now
           /\ StartRecord.about < boot
           /\ StartRecord.about \in cutUp =>
                /\ StartRecord.last_shutdown = "unclean"
                /\ \/ /\ read.boot # 0 /\ StartRecord.about = read.about
                      /\ StartRecord.last_shutdown_ts = read.last_shutdown_ts
                   \/ /\ StartRecord.about = read.boot
                      /\ StartRecord.last_shutdown_ts = read.ts
  <1>1. /\ read \in Record /\ read.boot \in Nat /\ boot \in Nat /\ boot # 0
        /\ read.boot <= boot
    BY ReadFromType DEF MarkerInv, TypeOK, read, Powered, HonestFiles, HonestRecord,
                        ReadFrom, Path, Record
  <1>2. CASE read.boot = boot
    BY <1>1, <1>2 DEF StartRecord, NoRecord, LeftLive
  <1>3. CASE read.boot \notin {0, boot}
    <2> DEFINE v == verdict_for_state(read.state)
    <2>1. StartRecord = [boot |-> boot, state |-> "live", ts |-> now,
                         last_shutdown |-> v,
                         last_shutdown_ts |-> read.ts, about |-> read.boot]
      BY <1>3 DEF StartRecord, NoRecord
    <2>2. read.boot \in cutUp => v = "unclean"
      BY DEF LeftLive, verdict_for_state
    <2> HIDE DEF v
    <2> QED BY <1>1, <1>3, <2>1, <2>2
  <1>4. CASE read.boot = 0
    <2>1. StartRecord = [NoRecord EXCEPT !.boot = boot, !.state = "live", !.ts = now]
      BY <1>1, <1>4 DEF StartRecord
    <2> QED BY <1>1, <2>1 DEF NoRecord, LeftLive
  <1> QED BY <1>2, <1>3, <1>4

\* A step that leaves the marker, the boot and the cuts alone, and starts no process.
LEMMA IdleLeavesLive ==
    ASSUME LeftLive, UNCHANGED <<boot, writable, disk, cutUp>>,
           durable' \in {durable, disk}, power' # "off" => power # "off",
           proc' \in {"started", "live"} => proc \in {"started", "live"}
    PROVE  LeftLive'
  <1>1. read' = read
    BY DEF read, ReadFrom
  <1> QED BY <1>1 DEF LeftLive

LEMMA LeftLiveStep ==
    ASSUME FirmDisk, MarkerInv, LeftLive, [Next]_vars PROVE LeftLive'
  <1>0. /\ read \in Record /\ read.boot \in Nat /\ read.about \in Nat
        /\ boot \in Nat /\ now \in Nat
    BY ReadFromType DEF MarkerInv, TypeOK, read, Record
  <1>1. ASSUME NEW rec \in Record, Write(rec), power # "off", rec.boot = boot,
               rec.about < boot, rec.about \in cutUp => rec.last_shutdown = "unclean",
               proc' \in {"started", "live"} => rec.state = "live",
               UNCHANGED <<envVars, histVars>>
        PROVE  LeftLive'
    <2>1. boot # 0
      BY <1>1 DEF MarkerInv, Powered
    <2>2. read' = rec /\ durable' = disk' /\ disk'["user"].boot = 0
      BY <1>1, <2>1, FirmWrite
    <2> QED BY <1>1, <2>1, <2>2 DEF LeftLive, envVars, histVars
  <1>2. ASSUME OwnsMarker, power # "off", UNCHANGED <<envVars, histVars>>,
               NEW st \in State, Write([read EXCEPT !.state = st, !.ts = now]),
               proc' \in {"started", "live"} => st = "live"
        PROVE  LeftLive'
    <2> DEFINE rec == [read EXCEPT !.state = st, !.ts = now]
    <2>1. read.boot = boot /\ boot # 0
      BY <1>2 DEF OwnsMarker, current_boot_id
    <2>2. /\ rec \in Record /\ rec.boot = boot /\ rec.state = st
          /\ rec.about = read.about /\ rec.last_shutdown = read.last_shutdown
      BY <1>0, <2>1 DEF Record
    <2>3. Write(rec)
      BY <1>2
    <2>4. read.about < boot /\ (read.about \in cutUp => read.last_shutdown = "unclean")
      BY <2>1 DEF LeftLive
    <2> HIDE DEF rec
    <2> QED BY <1>1, <1>2, <2>2, <2>3, <2>4
  <1>3. CASE Start
    <2>1. power # "off" /\ UNCHANGED <<envVars, histVars>>
      BY <1>3 DEF MarkerInv, Powered, Start
    <2>2. CASE BootIdReadable
      <3>1. StartRecord \in Record /\ Write(StartRecord)
        BY <1>3, <2>1, <2>2, StartRecordType
           DEF Start, MarkerInv, Powered, current_boot_id
      <3> HIDE DEF StartRecord
      <3> QED BY <1>1, <2>1, <3>1, StartRecordCarries
    <2>3. CASE ~BootIdReadable
      <3>1. read' = read /\ UNCHANGED diskVars
        BY <1>3, <2>3 DEF Start, current_boot_id, read, ReadFrom, diskVars
      <3> QED BY <2>1, <2>3, <3>1 DEF LeftLive, envVars, histVars, diskVars
    <2> QED BY <2>2, <2>3
  <1>4. CASE LoopTop
    <2>1. /\ power # "off" /\ proc \in {"started", "live"}
          /\ UNCHANGED <<envVars, histVars>>
      BY <1>4 DEF LoopTop, MarkerInv, Powered, TypeOK
    <2>2. CASE BeatDue /\ OwnsMarker
      BY <1>2, <1>4, <2>1, <2>2 DEF LoopTop, State
    <2>3. CASE ~(BeatDue /\ OwnsMarker)
      BY <1>4, <2>1, <2>3, IdleLeavesLive DEF LoopTop, envVars, histVars
    <2> QED BY <2>2, <2>3
  <1>5. CASE Stop
    <2>1. power # "off" /\ proc' = "down" /\ UNCHANGED <<envVars, histVars>>
      BY <1>5 DEF Stop, Gone, MarkerInv, Powered
    <2>2. CASE OwnsMarker
      <3>1. PICK st \in State : Write([read EXCEPT !.state = st, !.ts = now])
        BY <1>5, <2>2 DEF Stop, State
      <3> QED BY <1>2, <2>1, <2>2, <3>1
    <2>3. CASE ~OwnsMarker
      BY <1>5, <2>1, <2>3, IdleLeavesLive DEF Stop, diskVars, envVars, histVars
    <2> QED BY <2>2, <2>3
  <1>6. CASE PowerCut
    <2>1. read' = read /\ power # "off" /\ boot # 0 /\ boot' = boot
      BY <1>6 DEF PowerCut, read, ReadFrom, MarkerInv, Powered, LeftLive
    <2>2. CASE proc \in {"started", "live"} /\ BootIdReadable
      <3>1. read.boot = boot /\ read.state = "live" /\ read.about < boot
        BY <2>1, <2>2 DEF LeftLive
      <3>2. cutUp' = cutUp \cup {boot} /\ proc' = "down" /\ power' = "off"
        BY <1>6, <2>2 DEF PowerCut, Gone
      <3>3. cutUp' \subseteq 1..boot'
        <4>1. boot \in 1..boot
          BY <1>0, <2>1
        <4> QED BY <2>1, <3>2, <4>1 DEF LeftLive
      <3>4. read'.about # boot
        BY <1>0, <2>1, <3>1
      <3>5. disk' = disk /\ durable' = durable /\ writable' = writable
        BY <1>6 DEF PowerCut, LeftLive
      <3> QED BY <2>1, <3>1, <3>2, <3>3, <3>4, <3>5 DEF LeftLive
    <2>3. CASE ~BootIdReadable
      <3>1. read.boot = 0
        BY <2>3 DEF MarkerInv, Powered, read, ReadFrom, Path
      <3> QED BY <1>0, <1>6, <2>1, <3>1 DEF PowerCut, Gone, LeftLive
    <2>4. CASE proc \notin {"started", "live"}
      BY <1>6, <2>1, <2>4 DEF PowerCut, Gone, LeftLive
    <2> QED BY <2>2, <2>3, <2>4
  <1>7. CASE PowerOn
    <2>1. read' = read /\ proc = "down"
      BY <1>7 DEF PowerOn, read, ReadFrom, diskVars, MarkerInv, Powered
    <2> QED BY <1>0, <1>7, <2>1 DEF PowerOn, LeftLive, procVars, diskVars, histVars
  <1>8. CASE Remount
    BY <1>8 DEF Remount, FirmDisk, MarkerInv, TypeOK
  <1>9. CASE FinishShutdown
    BY <1>9, IdleLeavesLive DEF FinishShutdown, procVars
  <1>10. CASE Launch \/ Die
    BY <1>10, IdleLeavesLive DEF Launch, Die, Gone, envVars, diskVars, histVars
  <1>11. CASE BodyDone \/ BeginShutdown \/ Tick
    BY <1>11, IdleLeavesLive
       DEF BodyDone, BeginShutdown, Tick, envVars, procVars, diskVars, histVars
  <1>12. CASE Sync
    BY <1>12, IdleLeavesLive DEF Sync, envVars, procVars, histVars
  <1>13. CASE UNCHANGED vars
    BY <1>13, IdleLeavesLive DEF vars, envVars, procVars, diskVars, histVars
  <1> QED
    BY <1>3, <1>4, <1>5, <1>6, <1>7, <1>8, <1>9, <1>10, <1>11, <1>12, <1>13 DEF Next

LEMMA LeftLiveInit ==
    ASSUME Init PROVE LeftLive
  BY DEF Init, LeftLive, read, ReadFrom, NoRecord, Path

LEMMA LeftLiveInvariant ==
    ASSUME FirmDisk PROVE Spec => []LeftLive
  <1>1. Init => LeftLive
    BY LeftLiveInit
  <1>2. MarkerInv /\ LeftLive /\ [Next]_vars => LeftLive'
    BY LeftLiveStep
  <1> QED BY <1>1, <1>2, MarkerInvariant, PTL DEF Spec

\* As long as writes reach one place and stay there, a power cut under a running
\* monitor is reported as unclean by the boot that judges it.
THEOREM CutsAreReported ==
    ASSUME FirmDisk PROVE Spec => []CutIsReported
  <1>1. LeftLive => CutIsReported
    BY DEF LeftLive, CutIsReported, OwnsMarker, Published
  <1> QED BY <1>1, LeftLiveInvariant, PTL

-----------------------------------------------------------------------------
(* An outage is dated. *)

\* When the loop was last at its top in a boot that was cut stays known, as the boot
\* that ends now is not among them.
LEMMA TopStays ==
    ASSUME MarkerInv, LeftLive, power # "off",
           topAt' = [topAt EXCEPT ![boot] = lastTop], NEW b \in cutUp
    PROVE  topAt'[b] = topAt[b]
  <1>1. b # boot /\ b \in 0..MaxBoots /\ topAt \in [0..MaxBoots -> Nat]
    BY DEF LeftLive, MarkerInv, TypeOK
  <1> QED BY <1>1

\* A step that leaves the marker and the cuts alone, and no younger process behind.
LEMMA IdleLeavesFresh ==
    ASSUME LeftFresh, UNCHANGED <<disk, cutUp, topAt>>,
           \/ proc' \in {"down", "launched"}
           \/ UNCHANGED <<proc, now, lastBeat, lastTop>>
    PROVE  LeftFresh'
  <1>1. read' = read
    BY DEF read, ReadFrom
  <1> QED BY <1>1 DEF LeftFresh, IsFresh

\* The end of a process.
LEMMA GoneLeavesFresh ==
    ASSUME LeftFresh, Gone, UNCHANGED <<disk, cutUp, topAt>>
    PROVE  LeftFresh'
  <1>1. read' = read
    BY DEF read, ReadFrom
  <1> QED BY <1>1 DEF LeftFresh, IsFresh, Gone

LEMMA LeftFreshStep ==
    ASSUME FirmDisk, HEARTBEAT_S > 0,
           MarkerInv, LeftLive, LeftFresh, [Next]_vars
    PROVE  LeftFresh'
  <1>0. /\ read \in Record /\ read.boot \in Nat /\ read.ts \in Nat
        /\ read.about \in Nat /\ read.last_shutdown_ts \in Nat
        /\ boot \in Nat /\ now \in Nat /\ lastBeat \in Nat /\ lastTop \in Nat
        /\ HEARTBEAT_S \in Nat
    BY ReadFromType DEF MarkerInv, TypeOK, read, Record
  <1>1. CASE Start
    <2>1. /\ power # "off" /\ boot \notin cutUp /\ boot # 0 /\ lastTop' = now
          /\ proc' = "started" /\ UNCHANGED <<now, boot, cutUp, topAt>>
      BY <1>1 DEF MarkerInv, Powered, Start, LeftLive, LeftFresh, envVars, histVars
    <2>2. CASE BootIdReadable
      <3>1. StartRecord \in Record /\ Write(StartRecord) /\ lastBeat' = now
        BY <1>1, <2>1, <2>2, StartRecordType DEF Start, MarkerInv, current_boot_id
      <3> HIDE DEF StartRecord
      <3>2. read' = StartRecord
        BY <2>1, <3>1, FirmWrite, StartRecordCarries
      <3>3. StartRecord.about \in cutUp
              => IsFresh(StartRecord.last_shutdown_ts, topAt[StartRecord.about])
        BY <2>1, StartRecordCarries DEF LeftFresh
      <3>4. IsFresh(now, now)
        BY <1>0 DEF IsFresh
      <3>5. StartRecord.boot = boot /\ StartRecord.ts = now
        BY <2>1, StartRecordCarries
      <3> QED BY <1>0, <2>1, <3>1, <3>2, <3>3, <3>4, <3>5 DEF LeftFresh
    <2>3. CASE ~BootIdReadable
      <3>1. read' = read
        BY <1>1, <2>3 DEF Start, current_boot_id, read, ReadFrom
      <3> QED BY <2>1, <2>3, <3>1 DEF LeftFresh, IsFresh
    <2> QED BY <2>2, <2>3
  <1>2. ASSUME OwnsMarker, power # "off", UNCHANGED <<envVars, histVars>>,
               NEW st \in State, Write([read EXCEPT !.state = st, !.ts = now])
        PROVE  /\ read'.ts = now /\ read'.boot = boot /\ boot \notin cutUp
               /\ read'.about = read.about
               /\ read'.last_shutdown_ts = read.last_shutdown_ts
    <2> DEFINE rec == [read EXCEPT !.state = st, !.ts = now]
    <2>1. read.boot = boot /\ boot # 0
      BY <1>2 DEF OwnsMarker, current_boot_id
    <2>2. /\ rec \in Record /\ rec.boot = boot /\ rec.ts = now
          /\ rec.about = read.about
          /\ rec.last_shutdown_ts = read.last_shutdown_ts
      BY <1>0, <2>1 DEF Record
    <2>3. Write(rec)
      BY <1>2
    <2> HIDE DEF rec
    <2>4. read' = rec
      BY <2>1, <2>2, <2>3, FirmWrite
    <2> QED BY <1>2, <2>2, <2>4 DEF LeftLive
  <1>3. CASE LoopTop
    <2>1. /\ power # "off" /\ proc \in {"started", "live"}
          /\ proc' = "live" /\ lastTop' = now
          /\ UNCHANGED <<envVars, histVars>>
      BY <1>3 DEF LoopTop, MarkerInv, Powered, TypeOK
    <2>2. CASE BeatDue /\ OwnsMarker
      <3>1. Write([read EXCEPT !.state = "live", !.ts = now]) /\ lastBeat' = now
        BY <1>3, <2>2 DEF LoopTop, LeftLive, Path
      <3>2. /\ read'.ts = now /\ read'.boot = boot /\ boot \notin cutUp
            /\ read'.about = read.about
            /\ read'.last_shutdown_ts = read.last_shutdown_ts
        BY <1>2, <2>1, <2>2, <3>1 DEF State
      <3>3. read.boot # 0
        BY <2>2 DEF OwnsMarker
      <3> QED
        BY <1>0, <2>1, <3>1, <3>2, <3>3 DEF LeftFresh, IsFresh, envVars, histVars
    <2>3. CASE ~(BeatDue /\ OwnsMarker)
      <3>1. read' = read /\ lastBeat' = lastBeat
        BY <1>3, <2>3 DEF LoopTop, read, ReadFrom
      <3>2. BootIdReadable => OwnsMarker
        BY <2>1 DEF LeftLive, OwnsMarker, current_boot_id, MarkerInv, Powered
      <3>3. BootIdReadable => lastBeat <= now /\ now - lastBeat < HEARTBEAT_S
        BY <1>0, <2>1, <2>3, <3>2 DEF BeatDue, LeftFresh, IsFresh
      <3> QED
        BY <1>0, <2>1, <3>1, <3>3 DEF LeftFresh, IsFresh, envVars, histVars
    <2> QED BY <2>2, <2>3
  <1>4. CASE Stop
    <2>1. /\ power # "off" /\ proc' = "down"
          /\ UNCHANGED <<envVars, histVars>>
      BY <1>4 DEF Stop, Gone, MarkerInv, Powered
    <2>2. CASE OwnsMarker
      <3>1. PICK st \in State : Write([read EXCEPT !.state = st, !.ts = now])
        BY <1>4, <2>2 DEF Stop, State
      <3>2. /\ read'.boot = boot /\ boot \notin cutUp
            /\ read'.about = read.about
            /\ read'.last_shutdown_ts = read.last_shutdown_ts
        BY <1>2, <2>1, <2>2, <3>1
      <3>3. read.boot # 0
        BY <2>2 DEF OwnsMarker
      <3> QED BY <2>1, <3>2, <3>3 DEF LeftFresh, IsFresh, envVars, histVars
    <2>3. CASE ~OwnsMarker
      BY <1>4, <2>3, GoneLeavesFresh DEF Stop, diskVars, histVars
    <2> QED BY <2>2, <2>3
  <1>5. CASE PowerCut
    <2>1. /\ read' = read /\ power # "off" /\ boot' = boot /\ proc' = "down"
          /\ topAt' = [topAt EXCEPT ![boot] = lastTop]
      BY <1>5 DEF PowerCut, Gone, read, ReadFrom, LeftLive
    <2>2. \A b \in cutUp : topAt'[b] = topAt[b]
      BY <2>1, TopStays
    <2>3. CASE proc \in {"started", "live"} /\ BootIdReadable
      <3>1. /\ read.boot = boot /\ read.about < boot /\ boot # 0
            /\ cutUp' = cutUp \cup {boot}
        BY <1>5, <2>1, <2>3 DEF PowerCut, LeftLive, MarkerInv, Powered
      <3>2. topAt'[boot] = lastTop
        BY <2>1 DEF MarkerInv, TypeOK
      <3>3. IsFresh(read.ts, lastTop)
        BY <2>3 DEF LeftFresh
      <3>4. read.about \in cutUp' => read.about \in cutUp
        BY <1>0, <3>1
      <3>5. read.about \in cutUp
              => IsFresh(read.last_shutdown_ts, topAt'[read.about])
        BY <2>2, <3>1 DEF LeftFresh
      <3> QED BY <2>1, <3>1, <3>2, <3>3, <3>4, <3>5 DEF LeftFresh, IsFresh
    <2>4. CASE ~BootIdReadable
      <3>1. read.boot = 0 /\ boot # 0
        BY <2>1, <2>4 DEF MarkerInv, Powered, read, ReadFrom, Path
      <3>2. 0 \notin cutUp'
        BY <1>5, <3>1 DEF PowerCut, LeftLive
      <3> QED BY <2>1, <3>1, <3>2 DEF LeftFresh
    <2>5. CASE proc \notin {"started", "live"}
      BY <1>5, <2>1, <2>2, <2>5 DEF PowerCut, LeftFresh, IsFresh
    <2> QED BY <2>3, <2>4, <2>5
  <1>6. CASE FinishShutdown
    BY <1>6, IdleLeavesFresh DEF FinishShutdown, procVars
  <1>7. CASE Tick
    <2>1. read' = read
      BY <1>7 DEF Tick, diskVars, read, ReadFrom
    <2> QED
      BY <1>0, <1>7, <2>1 DEF Tick, LeftFresh, IsFresh, procVars, diskVars, histVars
  <1>8. CASE BodyDone
    BY <1>8, IdleLeavesFresh DEF BodyDone, diskVars, histVars, envVars
  <1>9. CASE Remount
    BY <1>9 DEF Remount, FirmDisk, MarkerInv, TypeOK
  <1>10. CASE Launch \/ BeginShutdown \/ Sync \/ PowerOn
    BY <1>10, IdleLeavesFresh
       DEF Launch, BeginShutdown, Sync, PowerOn, envVars, procVars, diskVars, histVars
  <1>11. CASE Die
    BY <1>11, GoneLeavesFresh DEF Die, diskVars
  <1>12. CASE UNCHANGED vars
    BY <1>12, IdleLeavesFresh DEF vars, envVars, procVars, diskVars, histVars
  <1> QED
    BY <1>1, <1>3, <1>4, <1>5, <1>6, <1>7, <1>8, <1>9, <1>10, <1>11, <1>12 DEF Next

\* The same verdict dates the cut to within a heartbeat of the cycle it interrupts,
\* for every heartbeat and every interval, and however long the body of a cycle takes.
THEOREM OutagesAreDated ==
    ASSUME FirmDisk, HEARTBEAT_S > 0 PROVE Spec => []OutageIsDated
  <1>1. Init => LeftFresh
    BY DEF Init, LeftFresh
  <1>2. MarkerInv /\ LeftLive /\ LeftFresh /\ [Next]_vars => LeftFresh'
    BY LeftFreshStep
  <1>3. LeftFresh => OutageIsDated
    BY DEF LeftFresh, IsFresh, OutageIsDated, OwnsMarker
  <1> QED BY <1>1, <1>2, <1>3, MarkerInvariant, LeftLiveInvariant, PTL DEF Spec

-----------------------------------------------------------------------------
(* The verdict is as promised. *)

LEMMA InitPromise == Init => Promise!Init
  BY DEF Init, Promise!Init, Settled, Shown, VerdictIn, NoRecord, Promise!Nothing

\* The record of this boot says what is settled.
LEMMA OwnIsSettled ==
    ASSUME power # "off", OwnsMarker PROVE VerdictIn(read) = VerdictIn(StartRecord)
  BY DEF OwnsMarker, current_boot_id, StartRecord, NoRecord, VerdictIn

\* While the machine is up, what is settled stays, and what is shown as well.
LEMMA UpKeepsVerdict ==
    ASSUME MarkerInv, OneVerdict, [Next]_vars, power # "off", power' # "off"
    PROVE  /\ boot' = boot /\ Settled' = Settled
           /\ Shown' = Shown \/ (Shown = VerdictIn(NoRecord) /\ Shown' = Settled)
  <1>1. boot' = boot
    BY DEF Next, Start, LoopTop, BodyDone, Stop, Launch, Die, BeginShutdown,
           FinishShutdown, PowerCut, Sync, PowerOn, Remount, Tick, vars, envVars
  <1>2. SameVerdict
    BY OneVerdictStep
  <1>3. VerdictIn(StartRecord)' = VerdictIn(StartRecord)
    BY <1>2 DEF SameVerdict, VerdictIn
  <1>4. Settled = VerdictIn(StartRecord) /\ Settled' = Settled
    BY <1>3 DEF Settled
  <1>5. OwnsMarker => OwnsMarker'
    BY <1>1, <1>2 DEF SameVerdict, OwnsMarker, current_boot_id
  <1>6. OwnsMarker' => Shown' = VerdictIn(StartRecord)'
    BY OwnIsSettled, <1>1 DEF Shown, OwnsMarker, current_boot_id, StartRecord, NoRecord,
       VerdictIn
  <1>7. OwnsMarker => Shown = VerdictIn(StartRecord)
    BY OwnIsSettled DEF Shown
  <1>8. /\ ~OwnsMarker => Shown = VerdictIn(NoRecord)
        /\ ~OwnsMarker' => Shown' = VerdictIn(NoRecord)
    <2>1. VerdictIn(NoRecord)' = VerdictIn(NoRecord)
      BY DEF VerdictIn, NoRecord
    <2> QED BY <2>1 DEF Shown
  <1> HIDE DEF OwnsMarker
  <1> QED BY <1>1, <1>3, <1>4, <1>5, <1>6, <1>7, <1>8

\* While it is down, nothing is.
LEMMA DownSaysNothing ==
    power = "off" => Settled = Promise!Nothing /\ Shown = Promise!Nothing
  BY DEF Settled, Shown, VerdictIn, NoRecord, Promise!Nothing

\* What a boot will say is settled by the record its predecessors left, and is true
\* of the boot that record names.
LEMMA PowerOnSettles ==
    ASSUME MarkerInv, FirmDisk => LeftLive, PowerOn
    PROVE  /\ Settled' \in Promise!Verdict /\ Promise!IsTrue(Settled')
           /\ Shown' = Promise!Nothing
  <1>1. /\ read \in Record /\ boot \in Nat /\ boot' = boot + 1 /\ read' = read
        /\ power = "off" /\ power' # "off"
    BY ReadFromType DEF PowerOn, MarkerInv, TypeOK, read, ReadFrom, diskVars
  <1>2. HonestRecord(read) /\ LiveIsOver(disk)
    BY DEF MarkerInv, HonestFiles, read, ReadFrom, Path
  <1>3. read.boot \in Nat /\ read.boot <= boot /\ read.boot # boot'
    BY <1>1, <1>2 DEF HonestRecord, Record
  <1>4. Shown' = Promise!Nothing
    BY <1>1, <1>3 DEF Shown, OwnsMarker, current_boot_id, VerdictIn, NoRecord,
                      Promise!Nothing
  <1>5. CASE read.boot = 0
    <2>1. Settled' = Promise!Nothing
      BY <1>1, <1>3, <1>5 DEF Settled, StartRecord, NoRecord, VerdictIn, Promise!Nothing
    <2>2. ~(FirmDisk /\ BootIdReadable /\ (boot \in cutUp \/ 0 \in cutUp))
      <3>1. ASSUME FirmDisk, BootIdReadable, boot \in cutUp \/ 0 \in cutUp PROVE FALSE
        BY <1>1, <1>5, <3>1 DEF LeftLive
      <3> QED BY <3>1
    <2> QED
      BY <1>1, <1>4, <2>1, <2>2 DEF Promise!Nothing, Promise!Verdict, Promise!IsTrue
  <1>6. CASE read.boot # 0
    <2> DEFINE says == verdict_for_state(read.state)
    <2>1. says \in {"clean", "unclean", "unknown"}
      BY DEF verdict_for_state
    <2>2. Settled' = [of |-> read.boot, says |-> says, ts |-> read.ts]
      <3>1. says' = says
        BY <1>1 DEF verdict_for_state
      <3>2. StartRecord'.last_shutdown = says' /\ StartRecord'.last_shutdown_ts = read.ts
            /\ StartRecord'.about = read.boot
        BY <1>1, <1>3, <1>6 DEF StartRecord, NoRecord
      <3> HIDE DEF says
      <3> QED BY <1>1, <3>1, <3>2 DEF Settled, VerdictIn
    <2>3. says = "clean" => read.boot \in begun
      BY <1>2 DEF HonestRecord, verdict_for_state
    <2>4. says = "unclean" => read.boot \in cut \cup lapsed
      BY <1>1, <1>2, <1>6 DEF LiveIsOver, read, verdict_for_state
    <2>5. FirmDisk /\ BootIdReadable
            => /\ boot \in cutUp => read.boot = boot
               /\ read.boot \in cutUp => says = "unclean"
      BY DEF LeftLive, verdict_for_state
    <2>6. read.boot \in 0..boot /\ read.ts \in Nat
      BY <1>1, <1>3 DEF Record
    <2> HIDE DEF says
    <2>7. Settled' \in Promise!Verdict
      BY <2>1, <2>2, <2>6 DEF Promise!Verdict
    <2>8. Promise!IsTrue(Settled')
      BY <2>2, <2>3, <2>4, <2>5 DEF Promise!IsTrue
    <2> QED BY <1>4, <2>7, <2>8
  <1> QED BY <1>5, <1>6

\* Every step of the marker and its world is a step of the promise, or changes
\* nothing that it speaks of.
LEMMA NextPromise ==
    ASSUME MarkerInv, OneVerdict, FirmDisk => LeftLive, [Next]_vars
    PROVE  [Promise!Next]_Promise!vars
  <1>1. CASE PowerOn
    <2>1. /\ Settled' \in Promise!Verdict /\ Promise!IsTrue(Settled')
          /\ Shown' = Promise!Nothing /\ Shown = Promise!Nothing
      BY <1>1, PowerOnSettles, DownSaysNothing DEF PowerOn
    <2>2. Promise!PowerOn
      BY <1>1, <2>1 DEF PowerOn, histVars, Promise!PowerOn, Promise!history
    <2> QED BY <2>2 DEF Promise!Next
  <1>2. CASE power # "off" /\ power' # "off" /\ UNCHANGED <<begun, cut, cutUp, lapsed>>
    <2>1. /\ boot' = boot /\ Settled' = Settled
          /\ Shown' = Shown \/ (Shown = Promise!Nothing /\ Shown' = Settled)
      <3>1. VerdictIn(NoRecord) = Promise!Nothing
        BY DEF VerdictIn, NoRecord, Promise!Nothing
      <3> QED BY <1>2, <3>1, UpKeepsVerdict
    <2>2. CASE Shown' = Shown
      BY <1>2, <2>1, <2>2 DEF Promise!vars, Promise!history
    <2>3. CASE Shown = Promise!Nothing /\ Shown' = Settled
      BY <1>2, <2>1, <2>3 DEF Promise!Next, Promise!Show, Promise!history
    <2> QED BY <2>1, <2>2, <2>3
  <1>3. ASSUME UNCHANGED <<boot, disk>>, power = "off" <=> power' = "off"
        PROVE  Settled' = Settled /\ Shown' = Shown
    <2>1. read' = read /\ VerdictIn(NoRecord)' = VerdictIn(NoRecord)
      BY <1>3 DEF read, ReadFrom, VerdictIn, NoRecord
    <2>2. OwnsMarker' = OwnsMarker
      BY <1>3, <2>1 DEF OwnsMarker, current_boot_id
    <2>3. CASE power = "off"
      BY <1>3, <2>1, <2>3 DEF Settled, Shown
    <2>4. CASE power # "off"
      <3>1. Settled' = Settled
        <4>1. VerdictIn(StartRecord)' = VerdictIn(StartRecord)
          BY <1>3, <2>1, VerdictStays DEF SameVerdict, VerdictIn
        <4> QED BY <1>3, <2>4, <4>1 DEF Settled
      <3>2. VerdictIn(read)' = VerdictIn(read)
        BY <2>1 DEF VerdictIn
      <3> QED BY <1>3, <2>1, <2>2, <2>4, <3>1, <3>2 DEF Shown
    <2> QED BY <2>3, <2>4
  <1>4. CASE BeginShutdown
    <2>1. Settled' = Settled /\ Shown' = Shown
      BY <1>3, <1>4 DEF BeginShutdown, diskVars
    <2> QED BY <1>4, <2>1 DEF BeginShutdown, Promise!Next, Promise!BeginShutdown
  <1>5. CASE Die \/ Remount
    <2>1. Settled' = Settled /\ Shown' = Shown
      BY <1>3, <1>5 DEF Die, Remount, envVars, diskVars
    <2>2. UNCHANGED <<boot, power, begun, cut, cutUp>> /\ lapsed' \in {lapsed, lapsed \cup {boot}}
      BY <1>5 DEF Die, Remount, envVars
    <2>3. CASE lapsed' = lapsed
      BY <2>1, <2>2, <2>3 DEF Promise!vars, Promise!history
    <2>4. CASE lapsed' = lapsed \cup {boot}
      <3>1. cut' \cup lapsed' = (cut \cup lapsed) \cup {boot}
        BY <2>2, <2>4
      <3> QED BY <2>1, <2>2, <3>1 DEF Promise!Next, Promise!Lapse
    <2> QED BY <2>2, <2>3, <2>4
  <1>6. CASE PowerCut \/ FinishShutdown
    <2>1. /\ power # "off" /\ power' = "off" /\ boot' = boot
          /\ Settled' = Promise!Nothing /\ Shown' = Promise!Nothing
      BY <1>6 DEF PowerCut, FinishShutdown, Settled, Shown, VerdictIn, NoRecord,
                  Promise!Nothing
    <2>2. Promise!Down
      BY <2>1 DEF Promise!Down, Promise!Nothing
    <2>3. CASE FinishShutdown
      <3>1. boot \in begun
        BY <2>3 DEF FinishShutdown, MarkerInv, Powered
      <3> QED BY <2>2, <2>3, <3>1
              DEF FinishShutdown, Promise!Next, Promise!ShutDown, Promise!history
    <2>4. CASE PowerCut
      <3>1. cut' \cup lapsed' = (cut \cup lapsed) \cup {boot}
        BY <2>4 DEF PowerCut
      <3>2. cutUp' \in {cutUp, cutUp \cup {boot}} /\ begun' = begun
        BY <2>4 DEF PowerCut
      <3> QED BY <2>2, <3>1, <3>2 DEF Promise!Next, Promise!Cut
    <2> QED BY <1>6, <2>3, <2>4
  <1>7. CASE Start \/ LoopTop \/ BodyDone \/ Stop \/ Launch
    <2>1. power # "off" /\ power' = power /\ UNCHANGED <<begun, cut, cutUp, lapsed>>
      BY <1>7 DEF Start, LoopTop, BodyDone, Stop, Launch, MarkerInv, Powered,
                  TypeOK, envVars, histVars
    <2> QED BY <1>2, <2>1
  <1>8. CASE Sync \/ Tick \/ UNCHANGED vars
    <2>1. UNCHANGED <<boot, disk, power, begun, cut, cutUp, lapsed>>
      BY <1>8 DEF Sync, Tick, vars, envVars, diskVars, histVars
    <2>2. Settled' = Settled /\ Shown' = Shown
      BY <1>3, <2>1
    <2> QED BY <2>1, <2>2 DEF Promise!vars, Promise!history
  <1> QED BY <1>1, <1>4, <1>5, <1>6, <1>7, <1>8 DEF Next

\* For any heartbeat, any faults and any bounds: what the host record says of the
\* previous boot is as docs/bridge_contract.md promises.
THEOREM VerdictPromiseKept == Spec => VerdictIsAsPromised
  <1>1. Init => OneVerdict
    BY DEF Init, OneVerdict
  <1>2. MarkerInv /\ OneVerdict /\ [Next]_vars => OneVerdict'
    BY OneVerdictStep
  <1>3. Init => (FirmDisk => LeftLive)
    BY LeftLiveInit
  <1>4. MarkerInv /\ (FirmDisk => LeftLive) /\ [Next]_vars => (FirmDisk => LeftLive)'
    BY LeftLiveStep DEF FirmDisk
  <1>5. MarkerInv /\ OneVerdict /\ (FirmDisk => LeftLive) /\ [Next]_vars
          => [Promise!Next]_Promise!vars
    BY NextPromise
  <1> QED
    BY <1>1, <1>2, <1>3, <1>4, <1>5, InitPromise, MarkerInvariant, PTL
       DEF Spec, VerdictIsAsPromised, Promise!Spec

=============================================================================
