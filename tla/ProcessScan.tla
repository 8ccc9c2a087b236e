------------------------------ MODULE ProcessScan ------------------------------
(***************************************************************************)
(* The capture processes of one station and collect_process of collect.py, *)
(* which finds them in /proc.                                              *)
(*                                                                         *)
(* A main process is an instance of StartCapture, started by a launcher or *)
(* a supervisor that does not look whether one is already running.  Its    *)
(* workers inherit its command line; its helpers (the forkserver and what  *)
(* that starts) do not.  A process whose parent ends belongs to init.      *)
(*                                                                         *)
(* The scan lists the process ids at one moment and reads each later; what *)
(* happens in between may be seen of some processes and not of others.     *)
(* The configuration of a process that names none on its command line is   *)
(* found through /proc/<pid>/cwd, which may not be readable.               *)
(***************************************************************************)
EXTENDS FiniteSets, FiniteSetsExt, Integers, TLC

CONSTANTS
    Pids,      \* the process ids the station's processes may have
    nobody,    \* init, the parent of a process that has no other
    MaxAge     \* the age from which on ages are no longer told apart

VARIABLES
    procs,     \* the live processes, each with its kind, parent and age
    old        \* the processes as the running scan listed them

Kind    == {"main", "worker", "helper"}
Process == [kind: Kind \cup {"none"}, parent: Pids \cup {nobody}, age: 0..MaxAge]

\* A process id that is not in use.
Free    == [kind |-> "none", parent |-> nobody, age |-> 0]
NoProcs == [p \in Pids |-> Free]

Live(table) == {p \in Pids : table[p] # Free}

\* The processes whose command line carries the StartCapture marker.
Marked(table) == {p \in Live(table) : table[p].kind # "helper"}

Mains == {p \in Pids : procs[p].kind = "main"}

\* The trees there are: marked processes that no marked process started.
Trees(table) == {p \in Marked(table) : table[p].parent \notin Marked(table)}

-----------------------------------------------------------------------------
(* The processes. *)

Launch(p) ==
    /\ procs[p] = Free
    /\ procs' = [procs EXCEPT ![p] = [kind |-> "main", parent |-> nobody, age |-> 0]]

Fork(m, p) ==
    /\ m \in Mains /\ procs[p] = Free
    /\ \E kind \in Kind \ {"main"} :
         procs' = [procs EXCEPT ![p] = [kind |-> kind, parent |-> m, age |-> 0]]

\* A process ends, or is killed; its children go on without it.
Exit(p) ==
    /\ procs[p] # Free
    /\ procs' = [q \in Pids |->
                   CASE q = p -> Free
                     [] q # p /\ procs[q].parent = p -> [procs[q] EXCEPT !.parent = nobody]
                     [] OTHER -> procs[q]]

Older(table) == [p \in Pids |->
    IF table[p] = Free \/ table[p].age = MaxAge THEN table[p]
    ELSE [table[p] EXCEPT !.age = @ + 1]]

-----------------------------------------------------------------------------
(* collect_process. *)

\* os.listdir("/proc").
BeginScan == old' = procs

\* The listed processes of which it matters when they are read.
Changed == {p \in Live(old) : procs[p] # old[p]}

\* What _iter_proc yields: of each listed process what it was, or, if it is read
\* late, what it is now; a process that has ended by then is skipped.
Seen(late) == [p \in Pids |-> IF p \in late /\ old[p] # Free THEN procs[p] ELSE old[p]]

\* Mutant: parentage is tested against the processes whose configuration could be
\* read, so the workers of a main process that could not be are instances.
RootsByConfig(seen, blind) ==
    {p \in Marked(seen) \ blind : seen[p].parent \notin Marked(seen) \ blind}

\* The instances: the station's marked processes that no marked one started.
Roots(seen, blind) ==
    {p \in Marked(seen) \ blind : seen[p].parent \notin Marked(seen)}

\* The age of the oldest instance, -1 when none can be read.
MainAge(roots) ==
    LET ages == {procs[p].age : p \in roots \cap Live(procs)}
    IN  IF ages = {} THEN -1 ELSE Max(ages)

\* The oldest instance ends after it was chosen, and before its age is read once more.
EndsUnread(roots) ==
    \E p \in roots \ Live(procs) : \A q \in roots \cap Live(procs) : old[p].age >= procs[q].age

Collected(seen, blind, unread) ==
    [alive     |-> Roots(seen, blind) # {},
     instances |-> Cardinality(Roots(seen, blind)),
     age       |-> IF unread THEN -1 ELSE MainAge(Roots(seen, blind))]

=============================================================================
