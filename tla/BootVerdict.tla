----------------------------- MODULE BootVerdict -----------------------------
(***************************************************************************)
(* What the host record promises its readers about how the previous boot   *)
(* ended (last_shutdown in docs/bridge_contract.md): a verdict that is     *)
(* settled when the machine comes up, shown from some moment of that boot  *)
(* on and the same until it ends; clean only of a boot that began to shut  *)
(* down, unclean only of one that was cut or lost its guard.  With a firm  *)
(* marker a cut under a running monitor is the next boot's verdict.        *)
(*                                                                         *)
(* This says nothing of files, paths, heartbeats and processes: BootMarker *)
(* has those, and implements this.                                         *)
(***************************************************************************)
EXTENDS Naturals

CONSTANT Firm   \* what the monitor writes stays, and in one place

VARIABLES
    boot, up,    \* the machine: its boots are 1, 2, ...
    orderly,     \* boots in which an orderly shutdown began
    troubled,    \* boots that were cut, or in which the marker lost its guard
    cutUp,       \* boots that were cut under a running monitor
    settled,     \* what this boot will say
    shown        \* what it says

history == <<orderly, troubled, cutUp>>
vars    == <<boot, up, history, settled, shown>>

Verdict == [of: 0..boot, says: {"none", "clean", "unclean", "unknown"}, ts: Nat]
Nothing == [of |-> 0, says |-> "none", ts |-> 0]

Init ==
    /\ boot = 0 /\ up = FALSE
    /\ orderly = {} /\ troubled = {} /\ cutUp = {}
    /\ settled = Nothing /\ shown = Nothing

\* A verdict is about a boot that is over, and true of it; a firm marker misses no cut
\* under a running monitor, neither of the last boot nor of an earlier one it names.
IsTrue(v) ==
    /\ v.says = "clean" => v.of \in orderly
    /\ v.says = "unclean" => v.of \in troubled
    /\ Firm /\ boot \in cutUp => v.of = boot
    /\ Firm /\ v.of \in cutUp => v.says = "unclean"

PowerOn ==
    /\ ~up /\ up' = TRUE /\ boot' = boot + 1
    /\ settled' \in Verdict /\ IsTrue(settled')
    /\ UNCHANGED <<history, shown>>

\* The monitor has started, and the record carries the verdict from now on.
Show ==
    /\ up /\ shown = Nothing /\ shown' = settled
    /\ UNCHANGED <<boot, up, history, settled>>

BeginShutdown ==
    /\ up /\ orderly' = orderly \cup {boot}
    /\ UNCHANGED <<boot, up, troubled, cutUp, settled, shown>>

\* The guard is lost: the monitor was killed, or its state directory moved.
Lapse ==
    /\ troubled' = troubled \cup {boot}
    /\ UNCHANGED <<boot, up, orderly, cutUp, settled, shown>>

Down == up /\ up' = FALSE /\ settled' = Nothing /\ shown' = Nothing /\ boot' = boot

ShutDown ==
    /\ Down /\ boot \in orderly
    /\ UNCHANGED history

Cut ==
    /\ Down /\ troubled' = troubled \cup {boot}
    /\ cutUp' \in {cutUp, cutUp \cup {boot}}
    /\ UNCHANGED orderly

Next == PowerOn \/ Show \/ BeginShutdown \/ Lapse \/ ShutDown \/ Cut

Spec == Init /\ [][Next]_vars

=============================================================================
