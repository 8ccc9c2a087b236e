------------------------------ MODULE AutoUpdate ------------------------------
(***************************************************************************)
(* scripts/autoupdate.sh: the timer's job that keeps a station's checkout  *)
(* at the branch it tracks, and restarts the monitor when it has moved.    *)
(*                                                                         *)
(* A version is a number; a later version may touch the files an operator  *)
(* has worked on, or rewrite the history it follows.  The operator's works *)
(* are kept as the place where git has them.  The steps of the script      *)
(* interleave with pushes, with the operator, and with kills.              *)
(***************************************************************************)
EXTENDS Naturals

CONSTANTS
    Works,         \* pieces of work an operator may do in the checkout
    MaxVersion,    \* bound: the last version that is pushed
    MaxEdits,      \* bound: what the operator does
    MaxFaults      \* bound: commands that fail, and kills

ASSUME AutoUpdateAssumption ==
    MaxVersion \in Nat \ {0} /\ MaxEdits \in Nat /\ MaxFaults \in Nat

VARIABLES
    origin,      \* the version at the origin
    touches,     \* the works whose files each version changes
    rewrites,    \* the versions that do not descend from the one before
    fetched,     \* origin/$BRANCH in the checkout
    base,        \* the version HEAD is at, or built on
    place,       \* where git has each work
    rescued,     \* works on a rescue branch
    lock,        \* a killed git has left its index.lock behind
    force,       \* FORCE=1 and no .no-autoupdate-force
    edits,       \* how much the operator has done
    pc,          \* where the script is
    before,      \* its variable: HEAD when it began
    marker,      \* update_blocked exists
    running,     \* the version the monitor was started from
    installed,   \* the version of the installed copy of the script, or NoCopy
    unit,        \* what ExecStart runs: the script in the "repo" or the "copy"
    faults,      \* how many commands have failed
    failed,      \* history: which
    touched      \* history: works the operator has moved since the run began

repoVars   == <<fetched, base, place, rescued, lock>>
originVars == <<origin, touches, rewrites>>
userVars   == <<force, edits>>
hostVars   == <<marker, running, installed, unit>>
faultVars  == <<faults, failed>>
vars == <<repoVars, originVars, userVars, hostVars, faultVars, touched, pc, before>>

Version == 1..MaxVersion
NoCopy  == 0
Place   == {"none", "untracked", "unstaged", "staged", "commit",
            "rescue", "stash", "gone"}
Kind    == {"fetch", "status", "branch", "stash", "reset", "install", "restart",
            "sync", "kill", "lock"}

At(p)    == {w \in Works : place[w] = p}
Head     == [base |-> base, ahead |-> At("commit")]
Incoming == base + 1..fetched
Touched  == UNION {touches[v] : v \in Incoming}

Fault(kind) == /\ faults < MaxFaults /\ faults' = faults + 1
               /\ failed' = failed \cup {kind}

\* git refuses to fast-forward over local commits, over a rewritten history, and
\* over files that both sides have changed.
CanFastForward ==
    \/ base = fetched
    \/ /\ ~lock /\ At("commit") = {} /\ rewrites \cap Incoming = {}
       /\ Touched \cap (At("untracked") \cup At("unstaged") \cup At("staged")) = {}

-----------------------------------------------------------------------------

\* A fresh deployment, or one from before the installed copy existed.
Init ==
    /\ origin = 1 /\ fetched = 1 /\ base = 1 /\ running = 1
    /\ touches = [v \in Version |-> {}] /\ rewrites = {}
    /\ place = [w \in Works |-> "none"] /\ rescued = {} /\ lock = FALSE
    /\ force \in BOOLEAN /\ edits = 0
    /\ pc = "idle" /\ before = Head /\ marker = FALSE
    /\ \/ installed = 1 /\ unit = "copy"
       \/ installed = NoCopy /\ unit = "repo"
    /\ faults = 0 /\ failed = {} /\ touched = {}

-----------------------------------------------------------------------------
(* The script. *)

\* The timer starts it; it notes where HEAD is.
Start ==
    /\ pc = "idle" /\ pc' = "fetch"
    /\ before' = Head /\ touched' = {}
    /\ UNCHANGED <<repoVars, originVars, userVars, hostVars, faultVars>>

\* set -e: a fetch that fails ends the run.
Fetch ==
    /\ pc = "fetch"
    /\ \/ fetched' = origin /\ pc' = "merge" /\ UNCHANGED faultVars
       \/ Fault("fetch") /\ pc' = "sync" /\ UNCHANGED fetched
    /\ UNCHANGED <<base, place, rescued, lock, originVars, userVars, hostVars,
                   touched, before>>

\* merge --ff-only.
Merge ==
    /\ pc = "merge"
    /\ IF CanFastForward THEN base' = fetched /\ pc' = "after"
       ELSE pc' = (IF force THEN "rescue" ELSE "refuse") /\ UNCHANGED base
    /\ UNCHANGED <<fetched, place, rescued, lock, originVars, userVars, hostVars,
                   faultVars, touched, before>>

\* Mutant: the refusal is only printed, as it used to be.
RefuseQuietly ==
    /\ pc = "refuse" /\ pc' = "sync" /\ UNCHANGED <<marker, faultVars>>
    /\ UNCHANGED <<repoVars, originVars, userVars, running, installed, unit, touched,
                   before>>

\* blocked(), where there is an opt-out.  Under pipefail a git status that fails,
\* or that head has stopped reading, ends the run before it.
Refuse ==
    /\ pc = "refuse" /\ pc' = "sync"
    /\ \/ marker' = TRUE /\ UNCHANGED faultVars
       \/ Fault("status") /\ UNCHANGED marker
    /\ UNCHANGED <<repoVars, originVars, userVars, running, installed, unit, touched,
                   before>>

\* Mutant: the commits are not put on a branch first.
NoBranch ==
    /\ pc = "rescue" /\ pc' = "stash" /\ UNCHANGED <<rescued, faultVars>>
    /\ UNCHANGED <<fetched, base, place, lock, originVars, userVars, hostVars,
                   touched, before>>

\* The same git status, then branch --force, whose failure is ignored.
Branch ==
    /\ pc = "rescue"
    /\ \/ pc' = "stash" /\ rescued' = rescued \cup At("commit") /\ UNCHANGED faultVars
       \/ pc' = "stash" /\ Fault("branch") /\ UNCHANGED rescued
       \/ pc' = "sync" /\ Fault("status") /\ UNCHANGED rescued
    /\ UNCHANGED <<fetched, base, place, lock, originVars, userVars, hostVars,
                   touched, before>>

\* stash push, only where the files differ from the index; its failure is ignored.
\* It takes what is in the index along, and leaves untracked files.
Stash ==
    /\ pc = "stash" /\ pc' = "reset"
    /\ \/ /\ At("unstaged") # {} /\ ~lock
          /\ place' = [w \in Works |-> IF place[w] \in {"unstaged", "staged"}
                                       THEN "stash" ELSE place[w]]
          /\ UNCHANGED faultVars
       \/ At("unstaged") # {} /\ Fault("stash") /\ UNCHANGED place
       \/ (At("unstaged") = {} \/ lock) /\ UNCHANGED <<place, faultVars>>
    /\ UNCHANGED <<fetched, base, rescued, lock, originVars, userVars, hostVars,
                   touched, before>>

\* What a hard reset leaves of a work: changes to tracked files are discarded, and
\* an untracked file in the way of an incoming one is overwritten.
AfterReset(w) ==
    CASE place[w] = "commit" -> IF w \in rescued THEN "rescue" ELSE "gone"
      [] place[w] \in {"unstaged", "staged"} -> "gone"
      [] place[w] = "untracked" /\ w \in Touched -> "gone"
      [] OTHER -> place[w]

\* reset --hard origin/$BRANCH, or blocked().
Reset ==
    /\ pc = "reset"
    /\ \/ /\ ~lock /\ UNCHANGED faultVars
          /\ base' = fetched /\ place' = [w \in Works |-> AfterReset(w)]
          /\ marker' = FALSE /\ pc' = "after"
       \/ /\ \/ lock /\ UNCHANGED faultVars
             \/ Fault("reset")
          /\ UNCHANGED <<base, place>> /\ marker' = TRUE /\ pc' = "sync"
    /\ UNCHANGED <<fetched, rescued, lock, originVars, userVars, running, installed,
                   unit, touched, before>>

\* Mutant: a marker of an earlier run stays.
AfterKeepsMarker ==
    /\ pc = "after" /\ pc' = IF Head = before THEN "sync" ELSE "install"
    /\ UNCHANGED <<repoVars, originVars, userVars, hostVars, faultVars, touched,
                   before>>

\* The marker goes; is there anything new?
After ==
    /\ pc = "after" /\ pc' = IF Head = before THEN "sync" ELSE "install"
    /\ marker' = FALSE
    /\ UNCHANGED <<repoVars, originVars, userVars, running, installed, unit,
                   faultVars, touched, before>>

\* pip install.
Install ==
    /\ pc = "install"
    /\ \/ pc' = "restart" /\ UNCHANGED faultVars
       \/ pc' = "sync" /\ Fault("install")
    /\ UNCHANGED <<repoVars, originVars, userVars, hostVars, touched, before>>

\* Mutant: the monitor is left to restart by itself.
NoRestart ==
    /\ pc = "restart" /\ pc' = "sync"
    /\ UNCHANGED <<repoVars, originVars, userVars, hostVars, faultVars, touched,
                   before>>

\* systemctl restart.
RestartService ==
    /\ pc = "restart" /\ pc' = "sync"
    /\ \/ running' = base /\ UNCHANGED faultVars
       \/ Fault("restart") /\ UNCHANGED running
    /\ UNCHANGED <<repoVars, originVars, userVars, marker, installed, unit, touched,
                   before>>

\* sync_self, in the EXIT trap: the copy is replaced by a rename, or left as it is.
SyncSelf ==
    /\ pc = "sync" /\ pc' = "migrate"
    /\ \/ installed' = base /\ UNCHANGED faultVars
       \/ Fault("sync") /\ UNCHANGED installed
    /\ UNCHANGED <<repoVars, originVars, userVars, marker, running, unit, touched,
                   before>>

\* Mutant: the unit is pointed at a copy that may not be there.
MigrateUnchecked ==
    /\ pc = "migrate" /\ pc' = "idle"
    /\ unit' = "copy"
    /\ UNCHANGED <<repoVars, originVars, userVars, marker, running, installed,
                   faultVars, touched, before>>

\* migrate_unit.
MigrateUnit ==
    /\ pc = "migrate" /\ pc' = "idle"
    /\ unit' = IF installed # NoCopy THEN "copy" ELSE unit
    /\ UNCHANGED <<repoVars, originVars, userVars, marker, running, installed,
                   faultVars, touched, before>>

\* SIGKILL, or a power cut, which no trap survives; git may leave its lock behind.
Kill ==
    /\ pc # "idle" /\ pc' = "idle"
    /\ faults < MaxFaults /\ faults' = faults + 1
    /\ \/ failed' = failed \cup {"kill"} /\ UNCHANGED lock
       \/ /\ pc \in {"merge", "stash", "reset"}
          /\ lock' = TRUE /\ failed' = failed \cup {"kill", "lock"}
    /\ UNCHANGED <<fetched, base, place, rescued, originVars, userVars, hostVars,
                   touched, before>>

-----------------------------------------------------------------------------
(* The origin, the operator and the monitor. *)

Push ==
    /\ origin < MaxVersion /\ origin' = origin + 1
    /\ \E files \in SUBSET Works : touches' = [touches EXCEPT ![origin'] = files]
    /\ \E rewritten \in BOOLEAN :
           rewrites' = IF rewritten THEN rewrites \cup {origin'} ELSE rewrites
    /\ UNCHANGED <<repoVars, userVars, hostVars, faultVars, touched, pc, before>>

\* A new file, an edit of a tracked one, git add, git commit, or none of it any more.
Work(w) ==
    /\ edits < MaxEdits /\ edits' = edits + 1
    /\ \/ place[w] = "none" /\ \E p \in {"untracked", "unstaged"} :
              place' = [place EXCEPT ![w] = p]
       \/ place[w] \in {"untracked", "unstaged"} /\ ~lock
          /\ place' = [place EXCEPT ![w] = "staged"]
       \/ place[w] = "staged" /\ ~lock /\ place' = [place EXCEPT ![w] = "commit"]
       \/ place[w] \in {"untracked", "unstaged"} /\ place' = [place EXCEPT ![w] = "none"]
    /\ touched' = touched \cup {w}
    /\ UNCHANGED <<fetched, base, rescued, lock, originVars, force, hostVars,
                   faultVars, pc, before>>

\* .no-autoupdate-force appears or goes.
OptOut ==
    /\ edits < MaxEdits /\ edits' = edits + 1
    /\ force' = ~force
    /\ UNCHANGED <<repoVars, originVars, hostVars, faultVars, touched, pc, before>>

Unlock ==
    /\ lock /\ lock' = FALSE
    /\ UNCHANGED <<fetched, base, place, rescued, originVars, userVars, hostVars,
                   faultVars, touched, pc, before>>

\* The monitor starts again for a reason of its own, from what the checkout holds.
MonitorRestarts ==
    /\ running # base /\ running' = base
    /\ UNCHANGED <<repoVars, originVars, userVars, marker, installed, unit, faultVars,
                   touched, pc, before>>

Script == \/ Start \/ Fetch \/ Merge \/ Refuse \/ Branch \/ Stash \/ Reset
          \/ After \/ Install \/ RestartService \/ SyncSelf \/ MigrateUnit

Next == \/ Script \/ Kill \/ Push \/ OptOut \/ Unlock \/ MonitorRestarts
        \/ \E w \in Works : Work(w)

Spec == Init /\ [][Next]_vars

\* The timer goes on starting the script, and its commands end.
FairSpec == Spec /\ WF_vars(Script)

-----------------------------------------------------------------------------
(* Safety. *)

TypeOK ==
    /\ origin \in Version /\ fetched \in 1..origin /\ base \in 1..fetched
    /\ touches \in [Version -> SUBSET Works] /\ rewrites \subseteq Version
    /\ place \in [Works -> Place] /\ rescued \subseteq Works /\ lock \in BOOLEAN
    /\ force \in BOOLEAN /\ edits \in 0..MaxEdits
    /\ pc \in {"idle", "fetch", "merge", "refuse", "rescue", "stash", "reset",
               "after", "install", "restart", "sync", "migrate"}
    /\ before \in [base : Version, ahead : SUBSET Works]
    /\ marker \in BOOLEAN /\ running \in 1..base
    /\ installed \in NoCopy..base /\ unit \in {"repo", "copy"}
    /\ unit = "copy" => installed # NoCopy
    /\ faults \in 0..MaxFaults /\ failed \subseteq Kind
    /\ touched \subseteq Works

Lost(w) == place[w] # "gone" /\ place'[w] = "gone"

\* What the rescue keeps: committed work, and edits that are not in the index, that were
\* there when the run began are never lost, through kills between any two commands,
\* unless the branch or the stash itself fails.  (An edit that has been added to the index
\* and then left alone is lost: NothingIsDestroyed.)
RescueKeeps ==
    [][\A w \in Works :
          Lost(w) => \/ place[w] \in {"staged", "untracked"}
                     \/ w \in touched
                     \/ {"branch", "stash", "lock"} \cap failed # {}]_vars

\* As documented: nothing is destroyed, local commits are kept on a rescue branch and
\* uncommitted edits in a stash, at least while no command fails and nobody works in the
\* checkout during the run.  (An untracked file is no edit.)
NothingIsDestroyed ==
    [][\A w \in Works :
          Lost(w) => \/ place[w] = "untracked"
                     \/ w \in touched
                     \/ failed # {}]_vars

-----------------------------------------------------------------------------
(* Liveness. *)

\* Unless a killed git has left its lock, the checkout reaches the origin for good,
\* whatever the operator has done to it, and no marker says otherwise; and whatever
\* its runs came to, the installed copy and the unit that runs it follow the checkout.
CheckoutFollows ==
    /\ <>[](force /\ ~lock) => <>[](base = origin /\ ~marker)
    /\ <>[](unit = "copy" /\ installed = base)

\* A checkout that stays behind, because of an opt-out or of a lock, is reported.
StuckIsReported == <>[](base # origin) => <>[]marker

\* If neither the installation nor the restart ever fails, and no run is killed,
\* the monitor ends up running what the checkout holds.
UpdateTakesEffectUnlessBroken ==
    [](failed \cap {"install", "restart", "kill"} = {}) => <>[](running = base)

=============================================================================
