--------------------------- MODULE AutoUpdateProofs ---------------------------
(***************************************************************************)
(* Theorems of AutoUpdate: its types, and what the rescue keeps, for any   *)
(* number of works, versions, edits, failing commands and kills.           *)
(***************************************************************************)
EXTENDS AutoUpdate, TLAPS

USE AutoUpdateAssumption

\* A failing command is counted, and its kind remembered.
LEMMA FaultTypeOK ==
    ASSUME NEW kind \in Kind, faults \in 0..MaxFaults, failed \subseteq Kind, Fault(kind)
    PROVE  faults' \in 0..MaxFaults /\ failed' \subseteq Kind
    BY DEF Fault

-----------------------------------------------------------------------------
(* Types. *)

LEMMA InitTypeOK == Init => TypeOK
<1> SUFFICES ASSUME Init PROVE TypeOK
    OBVIOUS
<1>1. Head \in [base : Version, ahead : SUBSET Works]
    <2>1. At("commit") \subseteq Works /\ base \in Version
        BY DEF Init, At, Version
    <2> QED BY <2>1 DEF Head
<1>2. place \in [Works -> Place]
    BY DEF Init, Place
<1>3. before \in [base : Version, ahead : SUBSET Works]
    BY <1>1 DEF Init
<1>4. /\ installed \in NoCopy..base /\ unit \in {"repo", "copy"}
      /\ unit = "copy" => installed # NoCopy
    BY DEF Init, NoCopy
<1>5. /\ origin \in Version /\ fetched \in 1..origin /\ base \in 1..fetched
      /\ running \in 1..base
    BY DEF Init, Version
<1>6. faults \in 0..MaxFaults /\ edits \in 0..MaxEdits
    BY DEF Init
<1> QED BY <1>2, <1>3, <1>4, <1>5, <1>6 DEF Init, TypeOK

LEMMA NextTypeOK == TypeOK /\ [Next]_vars => TypeOK'
<1> SUFFICES ASSUME TypeOK, [Next]_vars PROVE TypeOK'
    OBVIOUS
<1>0. /\ origin \in Nat /\ fetched \in Nat /\ base \in Nat
      /\ base <= fetched /\ fetched <= origin
    BY DEF TypeOK, Version
<1>00. {"fetch", "status", "branch", "stash", "reset", "install", "restart",
        "sync", "kill", "lock"} \subseteq Kind
    BY DEF Kind
<1> USE DEF repoVars, originVars, userVars, hostVars, faultVars
<1>1. CASE Start
    <2>1. Head \in [base : Version, ahead : SUBSET Works]
        BY <1>0 DEF Head, At, Version, TypeOK
    <2> QED BY <1>1, <2>1 DEF Start, TypeOK
<1>2. CASE Fetch
    <2>1. faults' \in 0..MaxFaults /\ failed' \subseteq Kind
        BY <1>00, <1>2, FaultTypeOK DEF Fetch, TypeOK
    <2>2. fetched' \in 1..origin /\ base \in 1..fetched'
        BY <1>0, <1>2 DEF Fetch, TypeOK
    <2> QED BY <1>2, <2>1, <2>2 DEF Fetch, TypeOK
<1>3. CASE Merge
    <2>1. base' \in 1..fetched /\ base <= base'
        BY <1>0, <1>3 DEF Merge, TypeOK
    <2>2. running \in 1..base' /\ installed \in NoCopy..base'
        BY <1>0, <2>1 DEF TypeOK, NoCopy
    <2> QED BY <1>3, <2>1, <2>2 DEF Merge, TypeOK
<1>4. CASE Refuse
    <2>1. faults' \in 0..MaxFaults /\ failed' \subseteq Kind
        BY <1>00, <1>4, FaultTypeOK DEF Refuse, TypeOK
    <2>2. marker' \in BOOLEAN
        BY <1>4 DEF Refuse, TypeOK
    <2> QED BY <1>4, <2>1, <2>2 DEF Refuse, TypeOK
<1>5. CASE Branch
    <2>1. faults' \in 0..MaxFaults /\ failed' \subseteq Kind
        BY <1>00, <1>5, FaultTypeOK DEF Branch, TypeOK
    <2>2. rescued' \subseteq Works /\ pc' \in {"stash", "sync"}
        BY <1>5 DEF Branch, TypeOK, At
    <2> QED BY <1>5, <2>1, <2>2 DEF Branch, TypeOK
<1>6. CASE Stash
    <2>1. faults' \in 0..MaxFaults /\ failed' \subseteq Kind
        BY <1>00, <1>6, FaultTypeOK DEF Stash, TypeOK
    <2>2. place' \in [Works -> Place]
        BY <1>6 DEF Stash, TypeOK, Place
    <2> QED BY <1>6, <2>1, <2>2 DEF Stash, TypeOK
<1>7. CASE Reset
    <2>1. faults' \in 0..MaxFaults /\ failed' \subseteq Kind
        BY <1>00, <1>7, FaultTypeOK DEF Reset, TypeOK
    <2>2. \A w \in Works : AfterReset(w) \in Place
        <3>1. ASSUME NEW w \in Works PROVE AfterReset(w) \in {"rescue", "gone", place[w]}
            <4>1. CASE place[w] = "commit"
                BY <4>1 DEF AfterReset
            <4>2. CASE place[w] \in {"unstaged", "staged"}
                BY <4>2 DEF AfterReset
            <4>3. CASE place[w] = "untracked"
                BY <4>3 DEF AfterReset
            <4>4. CASE place[w] \notin {"commit", "unstaged", "staged", "untracked"}
                BY <4>4 DEF AfterReset
            <4> QED BY <4>1, <4>2, <4>3, <4>4
        <3> QED BY <3>1 DEF TypeOK, Place
    <2>3. place' \in [Works -> Place] /\ marker' \in BOOLEAN /\ pc' \in {"after", "sync"}
        <3>1. [w \in Works |-> AfterReset(w)] \in [Works -> Place]
            BY <2>2
        <3> QED BY <1>7, <3>1 DEF Reset, TypeOK
    <2>4. base' \in 1..fetched /\ base <= base'
        BY <1>0, <1>7 DEF Reset, TypeOK
    <2>5. running \in 1..base' /\ installed \in NoCopy..base'
        BY <1>0, <2>4 DEF TypeOK, NoCopy
    <2> QED BY <1>7, <2>1, <2>3, <2>4, <2>5 DEF Reset, TypeOK
<1>8. CASE After
    BY <1>8 DEF After, TypeOK
<1>9. CASE Install
    <2>1. faults' \in 0..MaxFaults /\ failed' \subseteq Kind
        BY <1>00, <1>9, FaultTypeOK DEF Install, TypeOK
    <2> QED BY <1>9, <2>1 DEF Install, TypeOK
<1>10. CASE RestartService
    <2>1. faults' \in 0..MaxFaults /\ failed' \subseteq Kind
        BY <1>00, <1>10, FaultTypeOK DEF RestartService, TypeOK
    <2>2. running' \in 1..base
        BY <1>10, <1>0 DEF RestartService, TypeOK
    <2> QED BY <1>10, <2>1, <2>2 DEF RestartService, TypeOK
<1>11. CASE SyncSelf
    <2>1. faults' \in 0..MaxFaults /\ failed' \subseteq Kind
        BY <1>00, <1>11, FaultTypeOK DEF SyncSelf, TypeOK
    <2>2. installed' \in NoCopy..base /\ (unit = "copy" => installed' # NoCopy)
        BY <1>11, <1>0 DEF SyncSelf, TypeOK, NoCopy
    <2> QED BY <1>11, <2>1, <2>2 DEF SyncSelf, TypeOK
<1>12. CASE MigrateUnit
    BY <1>12 DEF MigrateUnit, TypeOK
<1>13. CASE Kill
    <2>1. faults' \in 0..MaxFaults /\ failed' \subseteq Kind /\ lock' \in BOOLEAN
        <3>1. faults' \in 0..MaxFaults
            BY <1>13 DEF Kill, TypeOK
        <3>2. failed' \subseteq failed \cup {"kill", "lock"}
            BY <1>13 DEF Kill
        <3> QED BY <1>00, <1>13, <3>1, <3>2 DEF Kill, TypeOK
    <2> QED BY <1>13, <2>1 DEF Kill, TypeOK
<1>14. CASE Push
    <2>1. origin' \in Version /\ fetched \in 1..origin'
        BY <1>0, <1>14 DEF Push, TypeOK, Version
    <2>2. touches' \in [Version -> SUBSET Works] /\ rewrites' \subseteq Version
        <3>1. PICK files \in SUBSET Works : touches' = [touches EXCEPT ![origin'] = files]
            BY <1>14 DEF Push
        <3>2. touches \in [Version -> SUBSET Works] /\ rewrites \subseteq Version
            BY DEF TypeOK
        <3>3. rewrites' \subseteq rewrites \cup {origin'}
            BY <1>14 DEF Push
        <3> QED BY <2>1, <3>1, <3>2, <3>3
    <2> QED BY <1>14, <2>1, <2>2 DEF Push, TypeOK
<1>15. CASE OptOut
    BY <1>15 DEF OptOut, TypeOK
<1>16. CASE Unlock
    BY <1>16 DEF Unlock, TypeOK
<1>17. CASE MonitorRestarts
    BY <1>17, <1>0 DEF MonitorRestarts, TypeOK
<1>18. ASSUME NEW w \in Works, Work(w) PROVE TypeOK'
    <2>1. place' \in [Works -> Place]
        BY <1>18 DEF Work, TypeOK, Place
    <2> QED BY <1>18, <2>1 DEF Work, TypeOK
<1>19. CASE UNCHANGED vars
    BY <1>19 DEF vars, TypeOK
<1> QED BY <1>1, <1>2, <1>3, <1>4, <1>5, <1>6, <1>7, <1>8, <1>9, <1>10, <1>11, <1>12,
           <1>13, <1>14, <1>15, <1>16, <1>17, <1>18, <1>19 DEF Next, Script

\* The checkout never runs ahead of what was fetched, nor the monitor or the installed
\* copy ahead of the checkout, and the unit never names a copy that is not there.
THEOREM TypeCorrect == Spec => []TypeOK
    BY InitTypeOK, NextTypeOK, PTL DEF Spec

-----------------------------------------------------------------------------
(* What the rescue keeps. *)

\* Before the reset every commit is on the rescue branch and no tracked file differs
\* from the index, except for what the operator has done since, or git has failed at.
RescueInv ==
    /\ TypeOK
    /\ lock => "lock" \in failed
    /\ pc \in {"stash", "reset"} /\ "branch" \notin failed
           => At("commit") \subseteq rescued \cup touched
    /\ pc = "reset" /\ {"stash", "lock"} \cap failed = {}
           => At("unstaged") \subseteq touched

LEMMA InitRescueInv == Init => RescueInv
    BY InitTypeOK DEF Init, RescueInv

LEMMA NextRescueInv == RescueInv /\ [Next]_vars => RescueInv'
<1> SUFFICES ASSUME RescueInv, [Next]_vars PROVE RescueInv'
    OBVIOUS
<1>0. TypeOK /\ TypeOK'
    BY NextTypeOK DEF RescueInv
<1> USE DEF repoVars, originVars, userVars, hostVars, faultVars
<1>1. CASE Start
    BY <1>0, <1>1 DEF Start, RescueInv
<1>2. CASE Fetch
    BY <1>0, <1>2 DEF Fetch, Fault, RescueInv
<1>3. CASE Merge
    BY <1>0, <1>3 DEF Merge, RescueInv
<1>4. CASE Refuse
    BY <1>0, <1>4 DEF Refuse, Fault, RescueInv
<1>5. CASE Branch
    BY <1>0, <1>5 DEF Branch, Fault, RescueInv, At
<1>6. CASE Stash
    <2>1. pc = "stash" /\ pc' = "reset" /\ UNCHANGED <<lock, rescued, touched>>
          /\ failed \subseteq failed'
        BY <1>6 DEF Stash, Fault
    <2>2. At("commit")' \subseteq At("commit")
        BY <1>0, <1>6 DEF Stash, At, TypeOK
    <2>3. ASSUME {"stash", "lock"} \cap failed' = {}
          PROVE  At("unstaged")' = {}
        <3>1. ~lock /\ ~Fault("stash")
            BY <1>0, <2>1, <2>3 DEF RescueInv, Fault
        <3>2. CASE At("unstaged") = {}
            BY <1>0, <1>6, <3>1, <3>2 DEF Stash, At, TypeOK
        <3>3. CASE At("unstaged") # {}
            <4>1. place' = [w \in Works |-> IF place[w] \in {"unstaged", "staged"}
                                            THEN "stash" ELSE place[w]]
                BY <1>6, <3>1, <3>3 DEF Stash
            <4> QED BY <4>1 DEF At
        <3> QED BY <3>2, <3>3
    <2> QED BY <1>0, <2>1, <2>2, <2>3 DEF RescueInv
<1>7. CASE Reset
    BY <1>0, <1>7 DEF Reset, Fault, RescueInv
<1>8. CASE After
    BY <1>0, <1>8 DEF After, RescueInv
<1>9. CASE Install
    BY <1>0, <1>9 DEF Install, Fault, RescueInv
<1>10. CASE RestartService
    BY <1>0, <1>10 DEF RestartService, Fault, RescueInv
<1>11. CASE SyncSelf
    BY <1>0, <1>11 DEF SyncSelf, Fault, RescueInv
<1>12. CASE MigrateUnit
    BY <1>0, <1>12 DEF MigrateUnit, RescueInv
<1>13. CASE Kill
    BY <1>0, <1>13 DEF Kill, RescueInv
<1>14. CASE Push
    BY <1>0, <1>14 DEF Push, RescueInv, At
<1>15. CASE OptOut
    BY <1>0, <1>15 DEF OptOut, RescueInv, At
<1>16. CASE Unlock
    BY <1>0, <1>16 DEF Unlock, RescueInv, At
<1>17. CASE MonitorRestarts
    BY <1>0, <1>17 DEF MonitorRestarts, RescueInv, At
<1>18. ASSUME NEW w \in Works, Work(w) PROVE RescueInv'
    <2>1. /\ touched' = touched \cup {w} /\ UNCHANGED <<lock, rescued, failed, pc>>
          /\ \A v \in Works : v # w => place'[v] = place[v]
        BY <1>0, <1>18 DEF Work, TypeOK
    <2>2. /\ At("commit")' \subseteq At("commit") \cup {w}
          /\ At("unstaged")' \subseteq At("unstaged") \cup {w}
        BY <2>1 DEF At
    <2> QED BY <1>0, <2>1, <2>2 DEF RescueInv
<1>19. CASE UNCHANGED vars
    BY <1>0, <1>19 DEF vars, RescueInv, At
<1> QED BY <1>1, <1>2, <1>3, <1>4, <1>5, <1>6, <1>7, <1>8, <1>9, <1>10, <1>11, <1>12,
           <1>13, <1>14, <1>15, <1>16, <1>17, <1>18, <1>19 DEF Next, Script

\* Only the reset loses work, and only work the rescue did not promise to keep.
LEMMA StepKeeps ==
    ASSUME RescueInv, [Next]_vars, NEW w \in Works, Lost(w)
    PROVE  \/ place[w] \in {"staged", "untracked"}
           \/ w \in touched
           \/ {"branch", "stash", "lock"} \cap failed # {}
<1> USE DEF repoVars, originVars, userVars, hostVars, faultVars
<1>1. place \in [Works -> Place]
    BY DEF RescueInv, TypeOK
<1>2. CASE Reset
    <2>1. pc = "reset" /\ place'[w] = AfterReset(w)
        BY <1>1, <1>2 DEF Reset, Lost
    <2>2. \/ place[w] = "commit" /\ w \notin rescued
          \/ place[w] \in {"unstaged", "staged", "untracked"}
        BY <2>1 DEF AfterReset, Lost
    <2> QED BY <2>1, <2>2 DEF RescueInv, At
<1>3. CASE Stash
    BY <1>1, <1>3 DEF Stash, Lost
<1>4. ASSUME NEW v \in Works, Work(v) PROVE FALSE
    BY <1>1, <1>4 DEF Work, Lost
<1>5. CASE Script /\ ~Reset /\ ~Stash
    BY <1>5 DEF Script, Start, Fetch, Merge, Refuse, Branch, After, Install,
                RestartService, SyncSelf, MigrateUnit, Lost
<1>6. CASE Kill \/ Push \/ OptOut \/ Unlock \/ MonitorRestarts \/ UNCHANGED vars
    BY <1>6 DEF Kill, Push, OptOut, Unlock, MonitorRestarts, vars, Lost
<1> QED BY <1>2, <1>3, <1>4, <1>5, <1>6 DEF Next

\* Commits and unstaged edits that were there when a run began survive it, whatever
\* kills it and wherever, as long as git branch and git stash do their work.
THEOREM RescueIsComplete == Spec => RescueKeeps
<1>1. RescueInv /\ [Next]_vars =>
          [\A w \in Works :
              Lost(w) => \/ place[w] \in {"staged", "untracked"}
                         \/ w \in touched
                         \/ {"branch", "stash", "lock"} \cap failed # {}]_vars
    BY StepKeeps
<1> QED BY <1>1, InitRescueInv, NextRescueInv, PTL DEF Spec, RescueKeeps

=============================================================================
