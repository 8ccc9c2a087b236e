----------------------------- MODULE CameraOutage -----------------------------
(***************************************************************************)
(* What the records of a host promise their readers about a camera that is *)
(* gone (camera_standby in docs/bridge_contract.md): a record collapses to *)
(* "camera not pingable" only after the station has been stalled and       *)
(* silent for the whole grace period, and stays collapsed, for the reader  *)
(* to warn and to give the all-clear once, until it is seen well.          *)
(*                                                                         *)
(* This says nothing of pings, clocks, fast paths and cycles: StationCycle *)
(* has those, and implements this.                                         *)
(***************************************************************************)
EXTENDS Integers

CONSTANTS Stations, Grace

VARIABLES
    view,      \* the kind of record each station has
    silence    \* since it was last seen well, up to Grace

vars == <<view, silence>>

Init ==
    /\ view = [s \in Stations |-> "full"]
    /\ silence = [s \in Stations |-> 0]

\* Time passes for all stations alike.
Pass(d) ==
    /\ silence' = [s \in Stations |->
                     IF silence[s] + d <= Grace THEN silence[s] + d ELSE Grace]
    /\ UNCHANGED view

Collapse(s) ==
    /\ view[s] = "full" /\ silence[s] >= Grace
    /\ view' = [view EXCEPT ![s] = "collapsed"]
    /\ UNCHANGED silence

\* The output flows, the camera answers, or its ping cannot be run.
SeenWell(s) ==
    /\ view' = [view EXCEPT ![s] = "full"]
    /\ silence' = [silence EXCEPT ![s] = 0]

\* The monitor starts anew.
Forget ==
    /\ view' = [s \in Stations |-> "full"]
    /\ silence' = [s \in Stations |-> 0]

Next ==
    \/ \E d \in 0..Grace : Pass(d)
    \/ \E s \in Stations : Collapse(s) \/ SeenWell(s)
    \/ Forget

Spec == Init /\ [][Next]_vars

=============================================================================
