--------------------------- MODULE HostSessionProofs ---------------------------
(***************************************************************************)
(* Theorems of HostSession: its types, and that no name a host has had     *)
(* stays retained once it is connected under another, for any set of       *)
(* names, any number of endpoints, and any renaming, crash and loss of the *)
(* network in between.                                                     *)
(***************************************************************************)
EXTENDS HostSession, TLAPS

USE HostSessionAssumption

-----------------------------------------------------------------------------
(* Types. *)

\* A name that has been recorded is a name, and tombstones are of names.
LEMMA NamesAreUids ==
    ASSUME TypeOK
    PROVE  /\ Previous \in Uids \cup {nobody}
           /\ Recorded \in [Paths -> Uids \cup {nobody}]
           /\ \A e : Tombstones(e) \subseteq Uids
           /\ Loaded \subseteq Uids
    BY DEF TypeOK, Previous, Recorded, Tombstones, Loaded, Paths, System, User

\* The watchdog's clock stops counting beyond its limit.
LEMMA ClockBounds ==
    ASSUME NEW n \in -1..(Limit + 1)
    PROVE  Higher(n) \in -1..(Limit + 1) /\ Started(n) \in -1..(Limit + 1)
    BY DEF Higher, Started, None

LEMMA InitTypeOK == Init => TypeOK
<1> SUFFICES ASSUME Init PROVE TypeOK
    OBVIOUS
<1> USE DEF Init
<1>1. writable \subseteq Paths /\ retained \subseteq Uids
    BY DEF Paths, System, User
<1>2. age \in -1..(Limit + 1) /\ via \in 0..Endpoints
    BY DEF None
<1>3. net \in [1..Endpoints -> {"open", "refused", "mute"}]
    OBVIOUS
<1> QED BY <1>1, <1>2, <1>3 DEF TypeOK

LEMMA NextTypeOK == TypeOK /\ [Next]_vars => TypeOK'
<1> SUFFICES ASSUME TypeOK, [Next]_vars PROVE TypeOK'
    OBVIOUS
<1>0. 0 \in -1..(Limit + 1) /\ None \in -1..(Limit + 1)
    BY DEF None
<1>g. ASSUME Gone PROVE TypeOK'
    <2>1. /\ via' \in 0..Endpoints /\ winner' \in {0} \cup 2..Endpoints
          /\ age' \in -1..(Limit + 1)
        BY <1>0, <1>g DEF Gone
    <2>2. retained' \subseteq Uids /\ excused' \subseteq Uids /\ tombs' \subseteq Uids
        BY <1>g DEF Gone, TypeOK
    <2> QED BY <1>g, <2>1, <2>2 DEF Gone, worldVars, TypeOK
<1>1. CASE Rename
    BY <1>1 DEF Rename, procVars, TypeOK
<1>2. CASE Wedge
    BY <1>2 DEF Wedge, worldVars, TypeOK
<1>3. CASE Tick
    BY <1>3, ClockBounds DEF Tick, worldVars, TypeOK
<1>4. ASSUME NEW e \in 1..Endpoints, NetChange(e) PROVE TypeOK'
    BY <1>4 DEF NetChange, TypeOK
<1>5. CASE Reconnect
    BY <1>5, ClockBounds DEF Reconnect, worldVars, TypeOK
<1>6. CASE Deliver
    BY <1>0, <1>6 DEF Deliver, worldVars, TypeOK
<1>7. CASE Start
    BY <1>7, NamesAreUids DEF Start, TypeOK
<1>8. CASE Connect
    <2>1. PICK e \in Reached :
             /\ via' = e
             /\ link' = IF net[e] = "open" THEN "linked" ELSE "waiting"
             /\ winner' = IF e > 1 THEN e ELSE winner
             /\ tombs' = Tombstones(e) /\ lastName' = Recorded
             /\ age' = IF net[e] = "open" THEN Started(age) ELSE age
        BY <1>8 DEF Connect
    <2>2. e \in 1..Endpoints
        BY DEF Reached, Attempts, TypeOK
    <2>3. via' \in 0..Endpoints /\ winner' \in {0} \cup 2..Endpoints
        BY <2>1, <2>2 DEF TypeOK
    <2>4. tombs' \subseteq Uids /\ lastName' \in [Paths -> Uids \cup {nobody}]
        BY <2>1, NamesAreUids
    <2>5. age' \in -1..(Limit + 1)
        BY <2>1, ClockBounds DEF TypeOK
    <2>6. link' \in {"none", "waiting", "linked"} /\ excused' \subseteq Uids
        BY <1>8, <2>1 DEF Connect, TypeOK
    <2> QED BY <1>8, <2>3, <2>4, <2>5, <2>6 DEF Connect, worldVars, TypeOK
<1>9. CASE Reload
    BY <1>9, NamesAreUids DEF Reload, TypeOK
<1>10. CASE RunOnce
    BY <1>0, <1>10 DEF RunOnce, worldVars, TypeOK
<1>11. CASE WatchdogExits
    BY <1>11, <1>g DEF WatchdogExits
<1>12. CASE WatchdogPasses
    BY <1>12 DEF WatchdogPasses, worldVars, TypeOK
<1>13. CASE Die
    BY <1>13, <1>g DEF Die
<1>14. CASE GoSilent
    <2>1. via' \in 0..Endpoints
        BY <1>14 DEF GoSilent
    <2>2. retained' \subseteq Uids /\ excused' \subseteq Uids /\ tombs' \subseteq Uids
        BY <1>14 DEF GoSilent, TypeOK
    <2> QED BY <1>14, <2>1, <2>2 DEF GoSilent, worldVars, TypeOK
<1>15. CASE UNCHANGED vars
    BY <1>15 DEF vars, worldVars, procVars, TypeOK
<1> QED
    BY <1>1, <1>2, <1>3, <1>4, <1>5, <1>6, <1>7, <1>8, <1>9, <1>10, <1>11, <1>12,
       <1>13, <1>14, <1>15
    DEF Next

\* Names, link, clock and queue keep their types; the watchdog's clock stays bounded.
THEOREM TypeCorrect == Spec => []TypeOK
    BY InitTypeOK, NextTypeOK, PTL DEF Spec

-----------------------------------------------------------------------------
(* No orphan. *)

\* Without a client, what is retained is under the name that will be cleared next (or
\* is excused).  With one, it is under a name of this process, or its tombstone is in
\* the queue; and the name of this process is on record for the next one.
NameInv ==
    /\ TypeOK
    /\ link # "none" => up
    /\ up => statusUid = uid \/ {uid, statusUid} \subseteq excused
    /\ link = "none" => retained \subseteq excused \cup {Previous}
    /\ link # "none" => /\ retained \subseteq excused \cup tombs \cup {uid, statusUid}
                        /\ uid \in excused \cup {Previous}

LEMMA InitNameInv == Init => NameInv
    BY InitTypeOK DEF Init, NameInv, Previous, Paths, System, User

LEMMA NextNameInv == NameInv /\ [Next]_vars => NameInv'
<1> SUFFICES ASSUME NameInv, [Next]_vars PROVE NameInv'
    OBVIOUS
<1>0. TypeOK /\ TypeOK'
    BY NextTypeOK DEF NameInv
<1> USE <1>0
\* Most steps leave the names alone; what is retained may then only shrink or get
\* records under the names of this process.
<1>k. ASSUME UNCHANGED <<lastName, excused, up, uid, statusUid, link, tombs>>,
             retained' \subseteq retained \cup {uid, statusUid},
             link = "none" => retained' \subseteq retained
      PROVE  NameInv'
    BY <1>k DEF NameInv, Previous
<1>g. ASSUME Gone, up PROVE NameInv'
    <2>1. /\ link' = "none" /\ up' = FALSE /\ lastName' = lastName
          /\ retained' \subseteq retained \cup (IF link = "linked" THEN {statusUid} ELSE {})
          /\ excused' = excused \cup tombs
        BY <1>g DEF Gone
    <2>2. Previous' = Previous
        BY <2>1 DEF Previous
    <2>3. link # "none" => {uid, statusUid} \subseteq excused \cup {Previous}
        BY <1>g DEF NameInv
    <2>4. retained' \subseteq excused' \cup {Previous}
        BY <2>1, <2>3 DEF NameInv
    <2> QED BY <2>1, <2>2, <2>4 DEF NameInv
<1>1. CASE Rename
    BY <1>1, <1>k DEF Rename, procVars
<1>2. CASE Wedge
    BY <1>2, <1>k DEF Wedge, worldVars
<1>3. CASE Tick
    BY <1>3, <1>k DEF Tick, worldVars
<1>4. ASSUME NEW e \in 1..Endpoints, NetChange(e) PROVE NameInv'
    <2>1. /\ UNCHANGED <<lastName, excused, retained, up, uid, statusUid, tombs>>
          /\ link' = "none" <=> link = "none"
        BY <1>4 DEF NetChange, NameInv, TypeOK
    <2> QED BY <2>1 DEF NameInv, Previous
<1>5. CASE Reconnect
    <2>1. /\ UNCHANGED <<lastName, excused, retained, up, uid, statusUid, tombs>>
          /\ link = "waiting" /\ link' = "linked"
        BY <1>5 DEF Reconnect
    <2> QED BY <2>1 DEF NameInv, Previous
<1>6. CASE Deliver
    <2>1. /\ UNCHANGED <<lastName, excused, up, uid, statusUid, link>>
          /\ link = "linked" /\ tombs' = {}
          /\ retained' = (retained \ tombs) \cup {statusUid}
        BY <1>6 DEF Deliver
    <2> QED BY <2>1 DEF NameInv, Previous
<1>7. CASE Start
    <2>1. /\ ~up /\ up' /\ uid' = statusUid'
          /\ UNCHANGED <<lastName, excused, retained, link, tombs>>
        BY <1>7 DEF Start
    <2> QED BY <2>1 DEF NameInv, Previous
<1>8. CASE Connect
    <2>1. PICK e \in Reached : tombs' = Tombstones(e)
        BY <1>8 DEF Connect
    <2>2. /\ link = "none" /\ link' # "none" /\ up /\ lastName' = Recorded
          /\ UNCHANGED <<up, uid, statusUid, retained>>
        BY <1>8 DEF Connect, TypeOK
    <2>3. retained \subseteq excused \cup tombs' \cup {uid}
        BY <2>1, <2>2 DEF NameInv, Tombstones, TypeOK
    <2>4. excused \subseteq excused'
        BY <1>8 DEF Connect
    <2>5. uid \in excused' \cup {Previous'}
        BY <1>8, <2>2 DEF Connect, Previous, Recorded, Paths, System, User, TypeOK
    <2> QED BY <2>2, <2>3, <2>4, <2>5 DEF NameInv
<1>9. CASE Reload
    <2>1. /\ up /\ UNCHANGED <<lastName, retained, up, statusUid, link, tombs>>
          /\ \/ uid' = uid /\ excused' = excused
             \/ excused' = excused \cup {uid', uid}
        BY <1>9 DEF Reload
    <2> QED BY <2>1 DEF NameInv, Previous
<1>10. CASE RunOnce
    BY <1>10, <1>k DEF RunOnce, worldVars
<1>11. CASE WatchdogExits
    BY <1>11, <1>g DEF WatchdogExits, Stale, NameInv
<1>12. CASE WatchdogPasses
    BY <1>12, <1>k DEF WatchdogPasses, worldVars
<1>13. CASE Die
    BY <1>13, <1>g DEF Die
<1>14. CASE GoSilent
    <2>1. /\ up /\ link # "none" /\ link' = "none" /\ tombs' = {}
          /\ UNCHANGED <<lastName, up, uid, statusUid>>
          /\ excused' = excused \cup tombs /\ retained' \subseteq retained
        BY <1>14 DEF GoSilent
    <2>2. {uid, statusUid} \subseteq excused \cup {Previous}
        BY <2>1 DEF NameInv
    <2> QED BY <2>1, <2>2 DEF NameInv, Previous
<1>15. CASE UNCHANGED vars
    BY <1>15, <1>k DEF vars, worldVars, procVars
<1> QED
    BY <1>1, <1>2, <1>3, <1>4, <1>5, <1>6, <1>7, <1>8, <1>9, <1>10, <1>11, <1>12,
       <1>13, <1>14, <1>15
    DEF Next

\* Once a renamed host is connected and its tombstones have arrived, nothing is
\* retained under the names it had, except where clear_renamed_host cannot know them.
THEOREM NoOrphanIsLeft == Spec => []NoOrphan
<1>1. NameInv => NoOrphan
    BY DEF NameInv, NoOrphan
<1> QED BY <1>1, InitNameInv, NextNameInv, PTL DEF Spec

=============================================================================
