------------------------- MODULE PublishLoopProofs --------------------------
(***************************************************************************)
(* Proofs about PublishLoop: its types, that no station which never looked *)
(* publishable is ever named to the broker, that a host without one never  *)
(* contacts it, that a station the loop believes it has wiped is wiped,    *)
(* that a quiet cycle publishes all it should, and that a session does not *)
(* end before its last words, for every set of stations and every number   *)
(* of edits, drops, crashes, stops and errors.                             *)
(***************************************************************************)
EXTENDS PublishLoop, WellFoundedInduction, TLAPS

USE PublishLoopAssumption

-----------------------------------------------------------------------------
(* Messages, and sequences of them. *)

\* What the topics carry; no station has the name of another topic.
LEMMA PayloadIs ==
    /\ PayloadOf("status") = {{}, {"online"}, {"offline"}}
    /\ PayloadOf("host") = SUBSET Stations
    /\ \A s \in Stations : PayloadOf(s) = {{}, {s}}
    /\ \A t \in Topic : {} \in PayloadOf(t) /\ PayloadOf(t) \subseteq SUBSET Name
  <1>1. PayloadOf("status") = {{}, {"online"}, {"offline"}}
    BY DEF PayloadOf
  <1>2. PayloadOf("host") = SUBSET Stations
    BY DEF PayloadOf
  <1>3. \A s \in Stations : s # "status" /\ s # "host"
    BY DEF PublishLoopAssumption
  <1>4. \A s \in Stations : PayloadOf(s) = {{}, {s}}
    BY <1>3 DEF PayloadOf
  <1>5. \A t \in Topic : {} \in PayloadOf(t) /\ PayloadOf(t) \subseteq SUBSET Name
    BY <1>1, <1>2, <1>4 DEF Topic, Name
  <1> QED BY <1>1, <1>2, <1>4, <1>5

LEMMA MsgType ==
    ASSUME NEW t \in Topic, NEW p \in SUBSET Name
    PROVE  /\ p \in PayloadOf(t) => Msg(t, p) \in Message
           /\ Msg(t, p).topic = t /\ Msg(t, p).payload = p
  <1>1. Msg(t, p).topic = t /\ Msg(t, p).payload = p
    BY DEF Msg
  <1>2. ASSUME p \in PayloadOf(t) PROVE Msg(t, p) \in Message
    <2>1. Msg(t, p) \in [topic: {t}, payload: PayloadOf(t)]
      BY <1>2 DEF Msg
    <2> QED BY <2>1 DEF Message
  <1> QED BY <1>1, <1>2

LEMMA MessageIs ==
    ASSUME NEW m \in Message
    PROVE  m.topic \in Topic /\ m.payload \in PayloadOf(m.topic)
  <1>1. PICK t \in Topic : m \in [topic: {t}, payload: PayloadOf(t)]
    BY DEF Message
  <1> QED BY <1>1

LEMMA OnlineType == Online \in Message /\ Online.topic = "status"
  BY MsgType, PayloadIs DEF Online, Topic, Name

LEMMA TombstoneType ==
    ASSUME NEW t \in Topic
    PROVE  /\ Tombstone(t) \in Message
           /\ Tombstone(t).topic = t /\ Tombstone(t).payload = {}
  BY MsgType, PayloadIs DEF Tombstone

\* What appending one message does.
LEMMA AppendIs ==
    ASSUME NEW q \in Seq(Message), NEW m \in Message
    PROVE  /\ Append(q, m) \in Seq(Message)
           /\ Len(Append(q, m)) = Len(q) + 1
           /\ \A i \in 1..Len(q) : Append(q, m)[i] = q[i]
           /\ Append(q, m)[Len(q) + 1] = m
  OBVIOUS

\* What putting one message in front does.
LEMMA PrependIs ==
    ASSUME NEW q \in Seq(Message), NEW m \in Message
    PROVE  /\ <<m>> \o q \in Seq(Message)
           /\ Len(<<m>> \o q) = Len(q) + 1
           /\ (<<m>> \o q)[1] = m
           /\ \A i \in 1..Len(q) : (<<m>> \o q)[i + 1] = q[i]
  OBVIOUS

\* What dropping the oldest message does.
LEMMA TailIs ==
    ASSUME NEW q \in Seq(Message), Len(q) > 0
    PROVE  /\ Tail(q) \in Seq(Message)
           /\ Len(Tail(q)) = Len(q) - 1
           /\ \A i \in 1..Len(q) - 1 : Tail(q)[i] = q[i + 1]
  OBVIOUS

\* go_silent's two messages, one at a time.
LEMMA ConcatTwo ==
    ASSUME NEW q \in Seq(Message), NEW m \in Message, NEW n \in Message
    PROVE  q \o <<m, n>> = Append(Append(q, m), n)
  OBVIOUS

\* _publish hands over at most one message, behind the ones already there.
LEMMA PublishIs ==
    ASSUME TypeOK, NEW m \in Message
    PROVE  /\ Publish(m) \in Seq(Message)
           /\ Len(out) <= Len(Publish(m))
           /\ \A i \in 1..Len(out) : Publish(m)[i] = out[i]
  BY AppendIs DEF TypeOK, Publish

LEMMA TopicOf ==
    ASSUME TypeOK, NEW i \in 1..Len(out)
    PROVE  out[i].topic \in Topic /\ out[i].payload \in SUBSET Name
  <1>1. out[i] \in Message
    BY DEF TypeOK
  <1> QED BY <1>1, MessageIs, PayloadIs

-----------------------------------------------------------------------------
(* Types. *)

LEMMA PublishableType ==
    ASSUME TypeOK
    PROVE  Publishable \in SUBSET Stations /\ Publishable \in SUBSET Name
  BY DEF TypeOK, Publishable, PublishableIn, Name

LEMMA FaultType ==
    ASSUME TypeOK, NEW k \in FaultKind, Fault(k)
    PROVE  faults' \in [FaultKind -> Nat]
  BY DEF TypeOK, Fault

LEMMA NewSessionType ==
    ASSUME TypeOK, NewSession
    PROVE  /\ session' \in BOOLEAN /\ retained' \in [Topic -> SUBSET Name]
           /\ \A t \in Topic : retained'[t] \in PayloadOf(t)
  <1>1. {"offline"} \in SUBSET Name
    BY DEF Name
  <1>2. retained' \in [Topic -> SUBSET Name]
    BY <1>1 DEF TypeOK, NewSession
  <1>3. \A t \in Topic : retained'[t] \in PayloadOf(t)
    BY PayloadIs DEF TypeOK, NewSession
  <1> QED BY <1>2, <1>3 DEF NewSession

\* What is remembered of consent.
Remembers ==
    everOpen \subseteq Stations /\ unseen \subseteq Stations /\ fleeting \subseteq Stations

LEMMA SaysType ==
    ASSUME TypeOK, NEW on \in SUBSET Stations, NEW bad \in SUBSET Stations, Says(on, bad)
    PROVE  Remembers'
  BY DEF TypeOK, Says, PublishableIn, Remembers

LEMMA TypeInit == Init => TypeOK
  <1> SUFFICES ASSUME Init PROVE TypeOK
    OBVIOUS
  <1>1. connected \in BOOLEAN /\ session \in BOOLEAN /\ quiet \in BOOLEAN
    BY DEF Init
  <1>2. retained \in [Topic -> SUBSET Name] /\ faults \in [FaultKind -> Nat]
    BY DEF Init
  <1>4. \A t \in Topic : retained[t] \in PayloadOf(t)
    BY PayloadIs DEF Init
  <1>3. weblog \subseteq Stations /\ everOpen \subseteq Stations
    BY DEF Init
  <1> QED BY <1>1, <1>2, <1>3, <1>4 DEF Init, TypeOK

LEMMA TypeStep == TypeOK /\ [Next]_vars => TypeOK'
  <1> SUFFICES ASSUME TypeOK, [Next]_vars PROVE TypeOK'
    OBVIOUS
  <1> USE DEF fileVars, loopVars, clientVars, brokerVars
  <1>p. Publishable \in SUBSET Stations /\ Publishable \in SUBSET Name
    BY PublishableType
  <1>t. {"status", "host"} \subseteq Topic /\ Stations \subseteq Topic
        /\ FaultKind = {"drop", "crash", "stop", "error"}
    BY DEF Topic, FaultKind
  <1>1. CASE Discover
    <2>1. opted_out' \subseteq Stations
      BY <1>1, <1>p DEF Discover
    <2>2. pc' \in {"host", "connect", "silent", "sleep"} /\ quiet' \in BOOLEAN
      BY <1>1 DEF Discover
    <2> QED BY <1>1, <2>1, <2>2 DEF Discover, TypeOK
  <1>2. CASE ConnectOk
    <2>1. out' \in Seq(Message) /\ taken' \in 0..Len(out')
      BY <1>2, OnlineType DEF ConnectOk
    <2>2. connected' \in BOOLEAN
      BY <1>2 DEF ConnectOk
    <2> QED BY <1>2, <2>1, <2>2, NewSessionType DEF ConnectOk, TypeOK
  <1>3. CASE ConnectNoAck
    <2>1. connected' \in BOOLEAN /\ faults' \in [FaultKind -> Nat]
      BY <1>3, <1>t, FaultType DEF ConnectNoAck
    <2> QED BY <1>3, <2>1 DEF ConnectNoAck, TypeOK
  <1>4. CASE PublishHost
    <2>1. Msg("host", Publishable) \in Message
      BY <1>p, <1>t, MsgType, PayloadIs
    <2>2. out' \in Seq(Message) /\ taken' \in 0..Len(out')
      BY <1>4, <2>1, PublishIs DEF PublishHost, TypeOK
    <2> QED BY <1>4, <2>2 DEF PublishHost, TypeOK
  <1>5. CASE Gather
    BY <1>5, <1>p DEF Gather, TypeOK
  <1>6. ASSUME NEW s \in Stations, PublishState(s) PROVE TypeOK'
    <2>1. Msg(s, {s}) \in Message
      BY <1>t, MsgType, PayloadIs DEF Name
    <2>2. out' \in Seq(Message) /\ taken' \in 0..Len(out')
      BY <1>6, <2>1, PublishIs DEF PublishState, TypeOK
    <2>3. dirty' \subseteq Stations
      BY <1>6 DEF PublishState, TypeOK
    <2>4. batch' \subseteq Stations
      BY <1>6 DEF PublishState, TypeOK
    <2> QED BY <1>6, <2>2, <2>3, <2>4 DEF PublishState, TypeOK
  <1>7. CASE RunOnceDone
    <2>1. batch' \subseteq Stations
      BY <1>7 DEF RunOnceDone, TypeOK
    <2> QED BY <1>7, <2>1 DEF RunOnceDone, TypeOK
  <1>8. ASSUME NEW s \in Stations, ClearStation(s) PROVE TypeOK'
    <2>1. out' \in Seq(Message) /\ taken' \in 0..Len(out')
      BY <1>8, <1>t, TombstoneType, PublishIs DEF ClearStation, TypeOK
    <2>2. dirty' \subseteq Stations
      BY <1>8 DEF ClearStation, TypeOK
    <2>3. cleared' \subseteq Stations
      BY <1>8 DEF ClearStation, TypeOK
    <2>4. batch' \subseteq Stations
      BY <1>8 DEF ClearStation, TypeOK
    <2> QED BY <1>8, <2>1, <2>2, <2>3, <2>4 DEF ClearStation, TypeOK
  <1>9. CASE ClearDone
    <2>1. cleared' \subseteq Stations
      BY <1>9 DEF ClearDone, TypeOK
    <2> QED BY <1>9, <2>1 DEF ClearDone, TypeOK
  <1>10. CASE CycleError
    <2>1. faults' \in [FaultKind -> Nat] /\ quiet' \in BOOLEAN
      BY <1>10, <1>t, FaultType DEF CycleError
    <2> QED BY <1>10, <2>1 DEF CycleError, TypeOK
  <1>11. CASE WatchdogPasses
    BY <1>11 DEF WatchdogPasses, TypeOK
  <1>12. CASE GoSilent
    <2>1. out' \in Seq(Message) /\ taken' \in 0..Len(out')
      <3>1. CASE Believes
        <4>1. out' = Append(Append(out, Tombstone("status")), Tombstone("host"))
          BY <1>12, <3>1, <1>t, ConcatTwo, TombstoneType DEF GoSilent, TypeOK
        <4> QED BY <4>1, <1>12, <1>t, AppendIs, TombstoneType DEF GoSilent, TypeOK
      <3>2. CASE ~Believes
        BY <1>12, <3>2 DEF GoSilent, TypeOK
      <3> QED BY <3>1, <3>2
    <2> QED BY <1>12, <2>1 DEF GoSilent, TypeOK
  <1>13. ASSUME NEW s \in Stations, SilenceStation(s) PROVE TypeOK'
    <2>1. out' \in Seq(Message) /\ taken' \in 0..Len(out')
      BY <1>13, <1>t, TombstoneType, PublishIs DEF SilenceStation, TypeOK
    <2>2. batch' \subseteq Stations
      BY <1>13 DEF SilenceStation, TypeOK
    <2> QED BY <1>13, <2>1, <2>2 DEF SilenceStation, TypeOK
  <1>14. CASE SilenceDone
    <2>1. connected' \in BOOLEAN /\ session' \in BOOLEAN
      BY <1>14 DEF SilenceDone, Disconnect, TypeOK
    <2>2. link' = "none" /\ out' = <<>> /\ taken' = 0
      BY <1>14 DEF SilenceDone, Disconnect
    <2> QED BY <1>14, <2>1, <2>2 DEF SilenceDone, TypeOK
  <1>15. CASE Sleep
    BY <1>15 DEF Sleep, TypeOK
  <1>16. CASE Stop
    <2>1. faults' \in [FaultKind -> Nat] /\ quiet' \in BOOLEAN
      BY <1>16, <1>t, FaultType DEF Stop
    <2> QED BY <1>16, <2>1 DEF Stop, TypeOK
  <1>17. CASE ExitSilently
    <2>1. connected' \in BOOLEAN /\ quiet' \in BOOLEAN
      BY <1>17 DEF ExitSilently, Forget
    <2> QED BY <1>17, <2>1 DEF ExitSilently, Forget, TypeOK
  <1>18. CASE AnnounceOffline
    <2>1. Msg("status", {"offline"}) \in Message
      BY <1>t, MsgType, PayloadIs DEF Name
    <2>2. out' \in Seq(Message) /\ taken' \in 0..Len(out')
      BY <1>18, <2>1, PublishIs DEF AnnounceOffline, TypeOK
    <2> QED BY <1>18, <2>2 DEF AnnounceOffline, TypeOK
  <1>19. CASE ExitAnnounced
    <2>1. connected' \in BOOLEAN /\ quiet' \in BOOLEAN /\ session' \in BOOLEAN
      BY <1>19 DEF ExitAnnounced, Forget, Disconnect, TypeOK
    <2>2. link' = "none" /\ out' = <<>> /\ taken' = 0
      BY <1>19 DEF ExitAnnounced, Disconnect
    <2> QED BY <1>19, <2>1, <2>2 DEF ExitAnnounced, Forget, TypeOK
  <1>20. CASE Crash
    <2>1. connected' \in BOOLEAN /\ quiet' \in BOOLEAN
      BY <1>20 DEF Crash, Forget
    <2>2. faults' \in [FaultKind -> Nat]
      BY <1>20, <1>t, FaultType DEF Crash
    <2> QED BY <1>20, <2>1, <2>2 DEF Crash, Forget, TypeOK
  <1>21. CASE Restart
    BY <1>21 DEF Restart, TypeOK
  <1>22. CASE Drop
    <2>1. faults' \in [FaultKind -> Nat] /\ quiet' \in BOOLEAN
      BY <1>22, <1>t, FaultType DEF Drop
    <2> QED BY <1>22, <2>1 DEF Drop, TypeOK
  <1>23. CASE Heal
    BY <1>23 DEF Heal, TypeOK
  <1>24. CASE ClientNotices
    BY <1>24 DEF ClientNotices, TypeOK
  <1>25. CASE BrokerNotices
    <2>1. {"offline"} \in SUBSET Name
      BY DEF Name
    <2>2. retained' \in [Topic -> SUBSET Name]
      BY <1>25, <2>1 DEF BrokerNotices, TypeOK
    <2>3. session' \in BOOLEAN
      BY <1>25 DEF BrokerNotices
    <2>4. \A t \in Topic : retained'[t] \in PayloadOf(t)
      BY <1>25, PayloadIs DEF BrokerNotices, TypeOK
    <2> QED BY <1>25, <2>2, <2>3, <2>4 DEF BrokerNotices, TypeOK
  <1>26. CASE Reconnect
    <2>1. out' \in Seq(Message) /\ taken' \in 0..Len(out')
      BY <1>26, OnlineType, PrependIs DEF Reconnect, TypeOK
    <2>2. quiet' \in BOOLEAN
      BY <1>26 DEF Reconnect
    <2> QED BY <1>26, <2>1, <2>2, NewSessionType DEF Reconnect, TypeOK
  <1>27. CASE BrokerTakes
    <2>1. taken + 1 \in 1..Len(out) /\ out[taken + 1] \in Message
      BY <1>27 DEF BrokerTakes, TypeOK
    <2>2. /\ out[taken + 1].payload \in SUBSET Name /\ out[taken + 1].topic \in Topic
          /\ out[taken + 1].payload \in PayloadOf(out[taken + 1].topic)
      BY <2>1, MessageIs, PayloadIs
    <2>3. retained' \in [Topic -> SUBSET Name]
      BY <1>27, <2>2 DEF BrokerTakes, TypeOK
    <2>4. \A t \in Topic : retained'[t] \in PayloadOf(t)
      BY <1>27, <2>2 DEF BrokerTakes, TypeOK
    <2> QED BY <1>27, <2>1, <2>3, <2>4 DEF BrokerTakes, TypeOK
  <1>28. CASE PubAck
    <2>1. out' \in Seq(Message) /\ taken' \in 0..Len(out')
      BY <1>28, TailIs DEF PubAck, TypeOK
    <2> QED BY <1>28, <2>1 DEF PubAck, TypeOK
  <1>29. ASSUME NEW s \in Stations, SetWeblog(s) PROVE TypeOK'
    <2>0. edits' \in Nat
      BY <1>29 DEF SetWeblog, Edit, TypeOK
    <2>4. quiet' \in BOOLEAN
      BY <1>29 DEF SetWeblog
    <2>1. weblog' \subseteq Stations
      <3>1. weblog' = weblog \ {s} \/ weblog' = weblog \cup {s}
        BY <1>29 DEF SetWeblog
      <3> QED BY <3>1 DEF TypeOK
    <2>3. Remembers'
      BY <1>29, <2>1, SaysType DEF SetWeblog, TypeOK
    <2> QED BY <1>29, <2>0, <2>1, <2>3, <2>4 DEF SetWeblog, Remembers, TypeOK
  <1>30. ASSUME NEW s \in Stations, Garble(s) PROVE TypeOK'
    <2>0. edits' \in Nat
      BY <1>30 DEF Garble, Edit, TypeOK
    <2>1. garbled' \subseteq Stations
      BY <1>30 DEF Garble, TypeOK
    <2>3. quiet' \in BOOLEAN
      BY <1>30 DEF Garble
    <2>2. Remembers'
      BY <1>30, <2>1, SaysType DEF Garble, TypeOK
    <2> QED BY <1>30, <2>0, <2>1, <2>2, <2>3 DEF Garble, Remembers, TypeOK
  <1>31. ASSUME NEW s \in Stations, Mend(s) PROVE TypeOK'
    <2>1. garbled' \subseteq Stations /\ quiet' \in BOOLEAN
      BY <1>31 DEF Mend, TypeOK
    <2>2. Remembers'
      BY <1>31, <2>1, SaysType DEF Mend, TypeOK
    <2> QED BY <1>31, <2>1, <2>2 DEF Mend, Remembers, TypeOK
  <1>32. CASE UNCHANGED vars
    BY <1>32 DEF vars, TypeOK
  <1> QED
    BY <1>1, <1>2, <1>3, <1>4, <1>5, <1>6, <1>7, <1>8, <1>9, <1>10, <1>11,
       <1>12, <1>13, <1>14, <1>15, <1>16, <1>17, <1>18, <1>19, <1>20, <1>21,
       <1>22, <1>23, <1>24, <1>25, <1>26, <1>27, <1>28, <1>29, <1>30, <1>31,
       <1>32 DEF Next, LoopStep, NetworkStep, Environment

\* Every reachable state of the loop, the client and the broker is well typed.
THEOREM TypeCorrect == Spec => []TypeOK
  BY TypeInit, TypeStep, PTL DEF Spec

-----------------------------------------------------------------------------
(* The invariant, part by part.  The steps fall into few kinds by what they *)
(* do to the unacknowledged messages and to the broker's records.           *)

\* Steps that only move the loop, the wire or the session.
Quiet ==
    \/ Discover \/ Gather \/ RunOnceDone \/ ClearDone \/ CycleError \/ WatchdogPasses
    \/ Sleep \/ Stop \/ ExitSilently \/ Restart \/ Drop \/ Heal \/ ClientNotices

LEMMA QuietIs ==
    ASSUME TypeOK, Quiet
    PROVE  /\ UNCHANGED <<fileVars, out, session, retained>>
           /\ taken' \in {taken, 0}
  BY DEF Quiet, Discover, Gather, RunOnceDone, ClearDone, CycleError, WatchdogPasses,
         Sleep, Stop, ExitSilently, Forget, Restart, Drop, Heal, ClientNotices,
         fileVars, loopVars, clientVars, brokerVars

\* Steps in which the client is given up with whatever it had not delivered.
Giveup == SilenceDone \/ ExitAnnounced \/ Crash \/ ConnectNoAck

LEMMA GiveupIs ==
    ASSUME Giveup
    PROVE  UNCHANGED <<fileVars, retained>> /\ out' = <<>> /\ taken' = 0
  BY DEF Giveup, SilenceDone, ExitAnnounced, Crash, ConnectNoAck, Disconnect,
         fileVars, brokerVars

Edits == \E s \in Stations : SetWeblog(s) \/ Garble(s) \/ Mend(s)

LEMMA EditsIs ==
    ASSUME Edits
    PROVE  /\ UNCHANGED <<loopVars, clientVars, brokerVars, dirty>>
           /\ everOpen' = everOpen \/ everOpen' = everOpen \cup Publishable'
  BY DEF Edits, SetWeblog, Garble, Says, Mend, Publishable

LEMMA NextIs ==
    ASSUME Next
    PROVE  \/ Quiet \/ Giveup \/ Edits
           \/ PublishHost \/ GoSilent \/ AnnounceOffline
           \/ \E s \in Stations : PublishState(s) \/ ClearStation(s) \/ SilenceStation(s)
           \/ ConnectOk \/ Reconnect \/ BrokerNotices \/ BrokerTakes \/ PubAck
  BY DEF Next, LoopStep, NetworkStep, Environment, Quiet, Giveup, Edits

-----------------------------------------------------------------------------
(* OpenOnly. *)

LEMMA OpenOnlyStep ==
    ASSUME TypeOK, OpenOnly, [Next]_vars PROVE OpenOnly'
  <1>1. CASE Gather
    BY <1>1 DEF OpenOnly, Gather, Publishable, fileVars
  <1>2. ASSUME NEW s \in Stations, PublishState(s) PROVE OpenOnly'
    BY <1>2 DEF OpenOnly, PublishState, Publishable, fileVars
  <1>3. CASE Edits
    <2>1. Publishable' \subseteq everOpen'
      <3>1. ASSUME NEW s \in Stations, SetWeblog(s) PROVE Publishable' \subseteq everOpen'
        BY <3>1 DEF SetWeblog, Says, Publishable
      <3>2. ASSUME NEW s \in Stations, Garble(s) PROVE Publishable' \subseteq everOpen'
        BY <3>2 DEF Garble, Says, Publishable
      <3>3. ASSUME NEW s \in Stations, Mend(s) PROVE Publishable' \subseteq everOpen'
        BY <3>3 DEF Mend, Says, Publishable
      <3> QED BY <1>3, <3>1, <3>2, <3>3 DEF Edits
    <2>2. everOpen \subseteq everOpen' /\ pc' = pc /\ batch' = batch
      BY <1>3, EditsIs DEF loopVars
    <2> QED BY <2>1, <2>2 DEF OpenOnly
  <1>4. CASE UNCHANGED vars
    BY <1>4 DEF vars, OpenOnly, Publishable, fileVars, loopVars
  <1>5. CASE pc' # "publish" /\ UNCHANGED fileVars
    BY <1>5 DEF OpenOnly, Publishable, fileVars
  <1>6. CASE UNCHANGED <<fileVars, pc, batch>>
    BY <1>6 DEF OpenOnly, Publishable, fileVars
  <1>7. CASE Quiet /\ ~Gather
    <2>1. \/ pc' # "publish" /\ UNCHANGED fileVars
          \/ UNCHANGED <<fileVars, pc, batch>>
      BY <1>7 DEF Quiet, Discover, RunOnceDone, ClearDone, CycleError, WatchdogPasses,
             Sleep, Stop, ExitSilently, Forget, Restart, Drop, Heal, ClientNotices,
             loopVars
    <2> QED BY <2>1, <1>5, <1>6
  <1>8. CASE Giveup \/ PublishHost \/ GoSilent \/ AnnounceOffline \/ ConnectOk
    <2>1. pc' # "publish" /\ UNCHANGED fileVars
      BY <1>8 DEF Giveup, SilenceDone, ExitAnnounced, Forget, Crash, ConnectNoAck,
             PublishHost, GoSilent, AnnounceOffline, ConnectOk
    <2> QED BY <2>1, <1>5
  <1>9. ASSUME NEW s \in Stations, ClearStation(s) \/ SilenceStation(s) PROVE OpenOnly'
    <2>1. pc' # "publish" /\ UNCHANGED fileVars
      BY <1>9 DEF ClearStation, SilenceStation
    <2> QED BY <2>1, <1>5
  <1>10. CASE Reconnect \/ BrokerNotices \/ BrokerTakes \/ PubAck
    <2>1. UNCHANGED <<fileVars, pc, batch>>
      BY <1>10 DEF Reconnect, BrokerNotices, BrokerTakes, PubAck, loopVars
    <2> QED BY <2>1, <1>6
  <1> QED
    BY <1>1, <1>2, <1>3, <1>4, <1>7, <1>8, <1>9, <1>10, NextIs

-----------------------------------------------------------------------------
(* NeverOpenNeverNamed. *)

LEMMA NamedAppend ==
    ASSUME TypeOK, NeverOpenNeverNamed, NEW m \in Message, out' = Append(out, m),
           m.payload \cap Stations \subseteq everOpen, UNCHANGED <<everOpen, retained>>
    PROVE  NeverOpenNeverNamed'
  <1> SUFFICES ASSUME NEW s \in Stations \ everOpen, NEW i \in 1..Len(out')
               PROVE  s \notin out'[i].payload
    BY DEF NeverOpenNeverNamed
  <1>1. out \in Seq(Message)
    BY DEF TypeOK
  <1>2. CASE i \in 1..Len(out)
    BY <1>1, <1>2, AppendIs DEF NeverOpenNeverNamed
  <1>3. CASE i = Len(out) + 1
    BY <1>1, <1>3, AppendIs
  <1> QED BY <1>1, <1>2, <1>3, AppendIs

LEMMA NamedPublish ==
    ASSUME TypeOK, NeverOpenNeverNamed, NEW m \in Message, out' = Publish(m),
           m.payload \cap Stations \subseteq everOpen, UNCHANGED <<everOpen, retained>>
    PROVE  NeverOpenNeverNamed'
  <1>1. CASE Believes
    BY <1>1, NamedAppend DEF Publish
  <1>2. CASE ~Believes
    BY <1>2 DEF Publish, NeverOpenNeverNamed
  <1> QED BY <1>1, <1>2

LEMMA NamedStep ==
    ASSUME TypeOK, OpenOnly, NeverOpenNeverNamed, [Next]_vars
    PROVE  NeverOpenNeverNamed'
  <1>t. "status" \in Topic /\ "host" \in Topic /\ Stations \subseteq Topic
        /\ Stations \cap {"online", "offline"} = {}
    BY DEF Topic
  <1>1. CASE Quiet \/ UNCHANGED vars
    BY <1>1, QuietIs DEF NeverOpenNeverNamed, vars, fileVars, clientVars, brokerVars
  <1>2. CASE Giveup
    BY <1>2, GiveupIs DEF NeverOpenNeverNamed, fileVars
  <1>3. CASE Edits
    <2>1. everOpen \subseteq everOpen' /\ out' = out /\ retained' = retained
      BY <1>3, EditsIs DEF clientVars, brokerVars
    <2> QED BY <2>1 DEF NeverOpenNeverNamed
  <1>4. CASE PublishHost
    <2>1. Msg("host", Publishable) \in Message
          /\ Msg("host", Publishable).payload = Publishable
      BY <1>t, MsgType, PayloadIs, PublishableType
    <2>2. UNCHANGED <<everOpen, retained>>
          /\ (out' = out \/ out' = Publish(Msg("host", Publishable)))
      BY <1>4 DEF PublishHost, fileVars, brokerVars
    <2>3. CASE out' = out
      BY <2>2, <2>3 DEF NeverOpenNeverNamed
    <2>4. CASE out' = Publish(Msg("host", Publishable))
      BY <2>1, <2>2, <2>4, NamedPublish DEF OpenOnly
    <2> QED BY <2>2, <2>3, <2>4
  <1>5. ASSUME NEW s \in Stations, PublishState(s) PROVE NeverOpenNeverNamed'
    <2>1. Msg(s, {s}) \in Message /\ Msg(s, {s}).payload = {s}
      BY <1>t, MsgType, PayloadIs DEF Name
    <2>2. s \in everOpen /\ UNCHANGED <<everOpen, retained>> /\ out' = Publish(Msg(s, {s}))
      BY <1>5 DEF PublishState, OpenOnly, fileVars, brokerVars
    <2> QED BY <2>1, <2>2, NamedPublish
  <1>6. ASSUME NEW s \in Stations, ClearStation(s) \/ SilenceStation(s)
        PROVE NeverOpenNeverNamed'
    <2>1. UNCHANGED <<everOpen, retained>> /\ out' = Publish(Tombstone(s))
      BY <1>6 DEF ClearStation, SilenceStation, fileVars, brokerVars
    <2> QED BY <1>t, <2>1, TombstoneType, NamedPublish
  <1>7. CASE GoSilent
    <2>1. UNCHANGED <<everOpen, retained>>
      BY <1>7 DEF GoSilent, fileVars, brokerVars
    <2>2. \A i \in 1..Len(out') :
            out'[i].payload = {} \/ \E j \in 1..Len(out) : out'[i] = out[j]
      <3>1. CASE Believes
        <4>1. out' = Append(Append(out, Tombstone("status")), Tombstone("host"))
          BY <1>7, <3>1, <1>t, ConcatTwo, TombstoneType DEF GoSilent, TypeOK
        <4> QED BY <4>1, <1>t, TombstoneType, AppendIs DEF TypeOK
      <3>2. CASE ~Believes
        BY <1>7, <3>2 DEF GoSilent
      <3> QED BY <3>1, <3>2
    <2> QED BY <2>1, <2>2 DEF NeverOpenNeverNamed
  <1>8. CASE AnnounceOffline
    <2>1. Msg("status", {"offline"}) \in Message
          /\ Msg("status", {"offline"}).payload = {"offline"}
      BY <1>t, MsgType, PayloadIs DEF Name
    <2>2. UNCHANGED <<everOpen, retained>> /\ out' = Publish(Msg("status", {"offline"}))
      BY <1>8 DEF AnnounceOffline, fileVars, brokerVars
    <2> QED BY <1>t, <2>1, <2>2, NamedPublish
  <1>s. ASSUME NewSession, NEW s \in Stations, s \notin everOpen, NEW t \in Topic
        PROVE  s \notin retained'[t]
    BY <1>s, <1>t DEF NewSession, NeverOpenNeverNamed, TypeOK
  <1>9. CASE ConnectOk
    <2>1. everOpen' = everOpen /\ out' = <<Online>> /\ NewSession
      BY <1>9 DEF ConnectOk, fileVars
    <2>2. Online.payload = {"online"}
      BY <1>t, MsgType DEF Online, Name
    <2> QED BY <1>t, <1>s, <2>1, <2>2, OnlineType DEF NeverOpenNeverNamed
  <1>10. CASE Reconnect
    <2>1. everOpen' = everOpen /\ out' = <<Online>> \o out /\ NewSession
      BY <1>10 DEF Reconnect, fileVars
    <2>2. Online.payload = {"online"}
      BY <1>t, MsgType DEF Online, Name
    <2>3. \A i \in 1..Len(out') :
            out'[i] = Online \/ \E j \in 1..Len(out) : out'[i] = out[j]
      <3> SUFFICES ASSUME NEW i \in 1..Len(out'), i # 1
                   PROVE  \E j \in 1..Len(out) : out'[i] = out[j]
        BY <2>1, OnlineType, PrependIs DEF TypeOK
      <3>1. i - 1 \in 1..Len(out) /\ out'[i] = out[i - 1]
        BY <2>1, OnlineType, PrependIs DEF TypeOK
      <3> QED BY <3>1
    <2> QED BY <1>t, <1>s, <2>1, <2>2, <2>3 DEF NeverOpenNeverNamed
  <1>11. CASE BrokerNotices
    <2>1. everOpen' = everOpen /\ out' = out
          /\ retained' = [retained EXCEPT !["status"] = {"offline"}]
      BY <1>11 DEF BrokerNotices, fileVars, clientVars
    <2> QED BY <1>t, <2>1 DEF NeverOpenNeverNamed, TypeOK
  <1>12. CASE BrokerTakes
    <2>1. everOpen' = everOpen /\ out' = out /\ taken + 1 \in 1..Len(out)
          /\ retained' = [retained EXCEPT ![out[taken + 1].topic] = out[taken + 1].payload]
      BY <1>12 DEF BrokerTakes, fileVars, TypeOK
    <2> QED BY <2>1 DEF NeverOpenNeverNamed, TypeOK
  <1>13. CASE PubAck
    <2>1. everOpen' = everOpen /\ retained' = retained /\ out' = Tail(out) /\ Len(out) > 0
      BY <1>13 DEF PubAck, fileVars, brokerVars, TypeOK
    <2>2. \A i \in 1..Len(out') : \E j \in 1..Len(out) : out'[i] = out[j]
      <3> SUFFICES ASSUME NEW i \in 1..Len(out')
                   PROVE  i + 1 \in 1..Len(out) /\ out'[i] = out[i + 1]
        OBVIOUS
      <3> QED BY <2>1, TailIs DEF TypeOK
    <2> QED BY <2>1, <2>2 DEF NeverOpenNeverNamed
  <1> QED
    BY <1>1, <1>2, <1>3, <1>4, <1>5, <1>6, <1>7, <1>8, <1>9, <1>10, <1>11, <1>12,
       <1>13, NextIs

-----------------------------------------------------------------------------
(* Contact. *)

\* The part of Contact that says a client implies a connected loop.
LEMMA ClientStep ==
    ASSUME TypeOK, Contact, [Next]_vars
    PROVE  ~connected' => link' = "none" /\ out' = <<>> /\ cleared' = {}
  <1> SUFFICES ASSUME ~connected' PROVE link' = "none" /\ out' = <<>> /\ cleared' = {}
    OBVIOUS
  <1> USE DEF loopVars, clientVars
  <1>1. CASE Giveup
    BY <1>1 DEF Giveup, SilenceDone, ExitAnnounced, Crash, ConnectNoAck, Forget, Disconnect
  <1>2. CASE ExitSilently
    BY <1>2 DEF ExitSilently, Forget, Contact
  <1>3. CASE ConnectOk
    BY <1>3 DEF ConnectOk
  <1>c. ASSUME connected' = connected PROVE link = "none" /\ out = <<>> /\ cleared = {}
    BY <1>c DEF Contact
  <1>4. CASE Quiet /\ ~ExitSilently
    <2>1. connected' = connected
      BY <1>4 DEF Quiet, Discover, Gather, RunOnceDone, ClearDone, CycleError,
             WatchdogPasses, Sleep, Stop, Restart, Drop, Heal, ClientNotices
    <2>2. out' = out
      BY <1>4, QuietIs
    <2>3. cleared = {} => cleared' = {}
      BY <1>4 DEF Quiet, Discover, Gather, RunOnceDone, ClearDone, CycleError,
             WatchdogPasses, Sleep, Stop, Restart, Drop, Heal, ClientNotices
    <2>4. link = "none" => link' = "none"
      BY <1>4 DEF Quiet, Discover, Gather, RunOnceDone, ClearDone, CycleError,
             WatchdogPasses, Sleep, Stop, Restart, Drop, Heal, ClientNotices
    <2> QED BY <1>c, <2>1, <2>2, <2>3, <2>4
  <1>5. CASE Edits \/ UNCHANGED vars
    BY <1>5, <1>c, EditsIs DEF vars
  <1>6. CASE PublishHost \/ GoSilent \/ AnnounceOffline
    <2>1. connected' = connected /\ link' = link /\ cleared' = cleared
      BY <1>6 DEF PublishHost, GoSilent, AnnounceOffline
    <2>2. link = "none" => out' = out
      BY <1>6 DEF PublishHost, GoSilent, AnnounceOffline, Publish, Believes
    <2> QED BY <1>c, <2>1, <2>2
  <1>7. ASSUME NEW s \in Stations, PublishState(s) \/ ClearStation(s) \/ SilenceStation(s)
        PROVE  link' = "none" /\ out' = <<>> /\ cleared' = {}
    <2>1. connected' = connected /\ link' = link
      BY <1>7 DEF PublishState, ClearStation, SilenceStation
    <2>2. link = "none" => out' = out /\ cleared' = cleared
      BY <1>7 DEF PublishState, ClearStation, SilenceStation, Publish, Believes
    <2> QED BY <1>c, <2>1, <2>2
  <1>8. CASE Reconnect \/ BrokerNotices \/ BrokerTakes \/ PubAck
    <2>1. connected' = connected /\ cleared' = cleared
      BY <1>8 DEF Reconnect, BrokerNotices, BrokerTakes, PubAck
    <2>2. ~connected /\ link = "none"
      BY <1>c, <2>1
    <2> QED BY <1>8, <1>c, <2>1, <2>2 DEF Reconnect, BrokerNotices, BrokerTakes, PubAck
  <1> QED
    BY <1>1, <1>2, <1>3, <1>4, <1>5, <1>6, <1>7, <1>8, NextIs

\* The part of Contact that says contact with the broker implies consent.
LEMMA ConsentStep ==
    ASSUME TypeOK, OpenOnly, Contact, [Next]_vars
    PROVE  /\ pc' = "connect" => ~connected'
           /\ pc' = "connect" \/ connected' \/ session' \/ (\E t \in Topic : retained'[t] # {})
                => everOpen' # {}
  <1> USE DEF fileVars, loopVars, brokerVars
  <1> DEFINE Touched == pc = "connect" \/ connected \/ session
                           \/ (\E t \in Topic : retained[t] # {})
             Quietly == /\ pc' = "connect" => pc = "connect"
                        /\ connected' => connected
                        /\ UNCHANGED <<everOpen, session, retained>>
  <1>t. Touched => everOpen # {}
    BY DEF Contact
  <1>q. Quietly /\ (pc' = "connect" => connected' = connected)
          => /\ pc' = "connect" => ~connected'
             /\ Touched' => everOpen' # {}
    BY <1>t DEF Contact
  <1>1. CASE Discover
    <2>1. UNCHANGED <<everOpen, session, retained, connected>>
          /\ (pc' = "connect" => Publishable # {} /\ ~connected)
      BY <1>1 DEF Discover
    <2> QED BY <2>1, <1>t DEF OpenOnly
  <1>2. CASE Quiet /\ ~Discover
    <2>1. (pc' = "connect" => pc = "connect" /\ connected' = connected)
          /\ (connected' => connected)
      BY <1>2 DEF Quiet, Gather, RunOnceDone, ClearDone, CycleError, WatchdogPasses,
             Sleep, Stop, ExitSilently, Forget, Restart, Drop, Heal, ClientNotices
    <2> QED BY <1>2, <1>q, <2>1, QuietIs
  <1>3. CASE SilenceDone \/ ExitAnnounced \/ Crash
    <2>1. pc' # "connect" /\ ~connected' /\ UNCHANGED <<everOpen, retained>>
      BY <1>3 DEF SilenceDone, ExitAnnounced, Crash, Forget
    <2>2. session' = FALSE \/ session' = session
      BY <1>3 DEF SilenceDone, ExitAnnounced, Crash, Disconnect
    <2> QED BY <2>1, <2>2, <1>t
  <1>4. CASE ConnectNoAck \/ ConnectOk
    <2>1. pc = "connect" /\ pc' = "host" /\ everOpen' = everOpen
      BY <1>4 DEF ConnectNoAck, ConnectOk
    <2> QED BY <2>1, <1>t
  <1>5. CASE Edits
    <2>1. everOpen \subseteq everOpen'
          /\ UNCHANGED <<pc, connected, session, retained>>
      BY <1>5, EditsIs
    <2> QED BY <2>1, <1>t DEF Contact
  <1>6. CASE UNCHANGED vars
    BY <1>6, <1>q DEF vars
  <1>7. CASE PublishHost \/ GoSilent \/ AnnounceOffline
    <2>1. Quietly /\ pc' # "connect"
      BY <1>7 DEF PublishHost, GoSilent, AnnounceOffline
    <2> QED BY <2>1, <1>q
  <1>8. ASSUME NEW s \in Stations, PublishState(s) \/ ClearStation(s) \/ SilenceStation(s)
        PROVE  Quietly /\ connected' = connected
    BY <1>8 DEF PublishState, ClearStation, SilenceStation
  <1>9. CASE Reconnect
    <2>1. connected /\ UNCHANGED <<pc, connected, everOpen>>
      BY <1>9 DEF Reconnect
    <2> QED BY <2>1, <1>t DEF Contact
  <1>10. CASE BrokerNotices
    <2>1. session /\ UNCHANGED <<pc, connected, everOpen>>
      BY <1>10 DEF BrokerNotices
    <2> QED BY <2>1, <1>t DEF Contact
  <1>11. CASE BrokerTakes \/ PubAck
    <2>1. link = "up" /\ UNCHANGED <<pc, connected, everOpen>>
      BY <1>11 DEF BrokerTakes, PubAck
    <2> QED BY <2>1, <1>t DEF Contact
  <1> QED
    BY <1>1, <1>2, <1>3, <1>4, <1>5, <1>6, <1>7, <1>8, <1>9, <1>10, <1>11, <1>q, NextIs
       DEF Giveup

LEMMA ContactStep ==
    ASSUME TypeOK, OpenOnly, Contact, [Next]_vars PROVE Contact'
  BY ClientStep, ConsentStep DEF Contact

-----------------------------------------------------------------------------
(* Delivered. *)

\* Messages added behind those already there leave what was delivered alone.
LEMMA DeliveredBehind ==
    ASSUME TypeOK, NEW t, DeliveredOn(t), taken' = taken, retained'[t] = retained[t],
           \A i \in 1..Len(out) : out'[i] = out[i]
    PROVE  DeliveredOn(t)'
  <1> SUFFICES ASSUME NEW i \in 1..taken, out'[i].topic = t
               PROVE  \/ retained[t] = out'[i].payload
                      \/ \E j \in i + 1..taken : out'[j].topic = t
    BY DEF DeliveredOn
  <1>1. \A j \in 1..taken : out'[j] = out[j]
    BY DEF TypeOK
  <1>2. \A j \in i + 1..taken : j \in 1..taken
    BY DEF TypeOK
  <1> QED BY <1>1, <1>2 DEF DeliveredOn

LEMMA DeliveredNone == ASSUME NEW t, taken' = 0 PROVE DeliveredOn(t)'
  BY DEF DeliveredOn

\* A Last Will is not written over what the broker has taken on this topic.
NoWill(t) == BrokerNotices /\ t = "status" => taken = 0

LEMMA DeliveredOnStep ==
    ASSUME TypeOK, NEW t \in Topic, DeliveredOn(t), NoWill(t), [Next]_vars
    PROVE  DeliveredOn(t)'
  <1>t. "status" \in Topic /\ "host" \in Topic /\ Stations \subseteq Topic
    BY DEF Topic
  <1>1. CASE Quiet
    <2>1. UNCHANGED <<out, retained>> /\ (taken' = taken \/ taken' = 0)
      BY <1>1, QuietIs
    <2> QED BY <2>1, DeliveredNone, DeliveredBehind
  <1>2. CASE Giveup
    BY <1>2, GiveupIs, DeliveredNone
  <1>3. CASE Edits \/ UNCHANGED vars
    <2>1. UNCHANGED <<out, retained, taken>>
      BY <1>3, EditsIs DEF vars, clientVars, brokerVars
    <2> QED BY <2>1, DeliveredBehind
  <1>4. CASE PublishHost
    <2>1. Msg("host", Publishable) \in Message
      BY <1>t, MsgType, PayloadIs, PublishableType
    <2>2. UNCHANGED <<taken, retained>>
          /\ (out' = out \/ out' = Publish(Msg("host", Publishable)))
      BY <1>4 DEF PublishHost, brokerVars
    <2> QED BY <2>1, <2>2, PublishIs, DeliveredBehind
  <1>5. ASSUME NEW s \in Stations, PublishState(s) PROVE DeliveredOn(t)'
    <2>1. Msg(s, {s}) \in Message
      BY <1>t, MsgType, PayloadIs DEF Name
    <2>2. UNCHANGED <<taken, retained>> /\ out' = Publish(Msg(s, {s}))
      BY <1>5 DEF PublishState, brokerVars
    <2> QED BY <2>1, <2>2, PublishIs, DeliveredBehind
  <1>6. ASSUME NEW s \in Stations, ClearStation(s) \/ SilenceStation(s) PROVE DeliveredOn(t)'
    <2>1. UNCHANGED <<taken, retained>> /\ out' = Publish(Tombstone(s))
      BY <1>6 DEF ClearStation, SilenceStation, brokerVars
    <2> QED BY <1>t, <2>1, TombstoneType, PublishIs, DeliveredBehind
  <1>7. CASE GoSilent
    <2>1. UNCHANGED <<taken, retained>>
      BY <1>7 DEF GoSilent, brokerVars
    <2>2. \A i \in 1..Len(out) : out'[i] = out[i]
      <3>1. CASE Believes
        <4>1. out' = Append(Append(out, Tombstone("status")), Tombstone("host"))
          BY <1>7, <3>1, <1>t, ConcatTwo, TombstoneType DEF GoSilent, TypeOK
        <4> QED BY <4>1, <1>t, TombstoneType, AppendIs DEF TypeOK
      <3>2. CASE ~Believes
        BY <1>7, <3>2 DEF GoSilent
      <3> QED BY <3>1, <3>2
    <2> QED BY <2>1, <2>2, DeliveredBehind
  <1>8. CASE AnnounceOffline
    <2>1. Msg("status", {"offline"}) \in Message
      BY <1>t, MsgType, PayloadIs DEF Name
    <2>2. UNCHANGED <<taken, retained>> /\ out' = Publish(Msg("status", {"offline"}))
      BY <1>8 DEF AnnounceOffline, brokerVars
    <2> QED BY <2>1, <2>2, PublishIs, DeliveredBehind
  <1>9. CASE ConnectOk \/ Reconnect
    BY <1>9, DeliveredNone DEF ConnectOk, Reconnect
  <1>10. CASE BrokerNotices
    <2>1. UNCHANGED <<out, taken>>
          /\ retained' = [retained EXCEPT !["status"] = {"offline"}]
      BY <1>10 DEF BrokerNotices, clientVars
    <2>2. CASE t = "status"
      BY <1>10, <2>1, <2>2, DeliveredNone DEF NoWill
    <2>3. CASE t # "status"
      <3>1. retained'[t] = retained[t]
        BY <2>1, <2>3 DEF TypeOK
      <3> QED BY <2>1, <3>1, DeliveredBehind
    <2> QED BY <2>2, <2>3
  <1>11. CASE BrokerTakes
    <2> DEFINE k == taken + 1
    <2>1. /\ out' = out /\ taken' = k /\ k \in 1..Len(out) /\ taken \in Nat
          /\ retained' = [retained EXCEPT ![out[k].topic] = out[k].payload]
      BY <1>11 DEF BrokerTakes, TypeOK
    <2>2. out[k].topic = t => retained'[t] = out[k].payload
      BY <2>1 DEF TypeOK
    <2>3. out[k].topic # t => retained'[t] = retained[t]
      BY <2>1 DEF TypeOK
    <2> HIDE DEF k
    <2> SUFFICES ASSUME NEW i \in 1..k, out[i].topic = t
                 PROVE  \/ retained'[t] = out[i].payload
                        \/ \E j \in i + 1..k : out[j].topic = t
      BY <2>1 DEF DeliveredOn
    <2>5. CASE i = k
      BY <2>2, <2>5
    <2>6. CASE i # k /\ out[k].topic = t
      <3>1. k \in i + 1..k
        BY <2>1, <2>6
      <3> QED BY <2>6, <3>1
    <2>7. CASE i # k /\ out[k].topic # t
      <3>1. i \in 1..taken /\ \A j \in i + 1..taken : j \in i + 1..k
        BY <2>1, <2>7 DEF k
      <3> QED BY <2>3, <2>7, <3>1 DEF DeliveredOn
    <2> QED BY <2>5, <2>6, <2>7
  <1>12. CASE PubAck
    <2>1. /\ retained' = retained /\ out' = Tail(out) /\ Len(out) > 0
          /\ taken' = taken - 1 /\ taken \in 1..Len(out) /\ Len(out) \in Nat
      BY <1>12 DEF PubAck, brokerVars, TypeOK
    <2>2. \A i \in 1..taken' : i + 1 \in 1..taken /\ out'[i] = out[i + 1]
      BY <2>1, TailIs DEF TypeOK
    <2> SUFFICES ASSUME NEW i \in 1..taken', out'[i].topic = t,
                        retained[t] # out'[i].payload
                 PROVE  \E j \in i + 1..taken' : out'[j].topic = t
      BY <2>1 DEF DeliveredOn
    <2>3. PICK j \in i + 2..taken : out[j].topic = t
      BY <2>2 DEF DeliveredOn
    <2>4. i \in Nat \ {0} /\ j \in Nat /\ i + 2 <= j /\ j <= taken /\ taken' = taken - 1
      BY <2>1, <2>3
    <2>5. j - 1 \in i + 1..taken' /\ j - 1 \in 1..taken' /\ (j - 1) + 1 = j
      BY <2>1, <2>4
    <2>6. out'[j - 1] = out[j]
      BY <2>2, <2>5
    <2> QED BY <2>3, <2>5, <2>6
  <1> QED
    BY <1>1, <1>2, <1>3, <1>4, <1>5, <1>6, <1>7, <1>8, <1>9, <1>10, <1>11, <1>12, NextIs

LEMMA DeliveredStep ==
    ASSUME TypeOK, Delivered, [Next]_vars PROVE Delivered'
  BY DeliveredOnStep DEF Delivered, NoWill

-----------------------------------------------------------------------------
(* What a topic settles to. *)

\* A message about another topic changes nothing, behind ...
LEMMA SettlesAppendOther ==
    ASSUME NEW q \in Seq(Message), NEW m \in Message, NEW r, NEW t, NEW p,
           m.topic # t, SettlesIn(q, r, t, p)
    PROVE  SettlesIn(Append(q, m), r, t, p)
  <1> DEFINE a == Append(q, m)
  <1>1. Len(a) = Len(q) + 1 /\ a[Len(q) + 1] = m /\ Len(q) \in Nat
        /\ \A j \in 1..Len(q) : a[j] = q[j]
    BY AppendIs
  <1> HIDE DEF a
  <1>2. \A j \in 1..Len(a) : j \in 1..Len(q) \/ a[j].topic # t
    BY <1>1
  <1>3. CASE \A j \in 1..Len(q) : q[j].topic # t
    <2>1. r[t] = p
      BY <1>3 DEF SettlesIn, Msg
    <2>2. \A j \in 1..Len(a) : a[j].topic # t
      BY <1>1, <1>2, <1>3
    <2> QED BY <2>1, <2>2 DEF SettlesIn, a
  <1>4. CASE ~(\A j \in 1..Len(q) : q[j].topic # t)
    <2>1. PICK k \in 1..Len(q) : /\ q[k] = Msg(t, p)
                                 /\ \A j \in k + 1..Len(q) : q[j].topic # t
      BY <1>4 DEF SettlesIn
    <2>2. k \in 1..Len(a) /\ a[k] = Msg(t, p)
      BY <1>1, <2>1
    <2>3. \A j \in k + 1..Len(a) : a[j].topic # t
      BY <1>1, <1>2, <2>1
    <2> QED BY <2>2, <2>3 DEF SettlesIn, a
  <1> QED BY <1>3, <1>4

\* ... or in front.
LEMMA SettlesPrependOther ==
    ASSUME NEW q \in Seq(Message), NEW m \in Message, NEW r, NEW t, NEW p,
           m.topic # t, SettlesIn(q, r, t, p)
    PROVE  SettlesIn(<<m>> \o q, r, t, p)
  <1> DEFINE a == <<m>> \o q
  <1>1. Len(a) = Len(q) + 1 /\ a[1] = m /\ Len(q) \in Nat
        /\ \A j \in 1..Len(q) : a[j + 1] = q[j]
    BY PrependIs
  <1> HIDE DEF a
  <1>2. \A j \in 1..Len(a) : j = 1 \/ (j - 1 \in 1..Len(q) /\ a[j] = q[j - 1])
    BY <1>1
  <1>3. CASE \A j \in 1..Len(q) : q[j].topic # t
    <2>1. \A j \in 1..Len(a) : a[j].topic # t
      BY <1>1, <1>2, <1>3
    <2>2. r[t] = p
      BY <1>3 DEF SettlesIn, Msg
    <2> QED BY <2>1, <2>2 DEF SettlesIn, a
  <1>4. CASE ~(\A j \in 1..Len(q) : q[j].topic # t)
    <2>1. PICK k \in 1..Len(q) : /\ q[k] = Msg(t, p)
                                 /\ \A j \in k + 1..Len(q) : q[j].topic # t
      BY <1>4 DEF SettlesIn
    <2>2. k + 1 \in 1..Len(a) /\ a[k + 1] = Msg(t, p)
      BY <1>1, <2>1
    <2>3. \A j \in k + 1 + 1..Len(a) : j \in 1..Len(a) /\ j - 1 \in k + 1..Len(q) /\ j # 1
      BY <1>1
    <2>4. \A j \in k + 1 + 1..Len(a) : a[j].topic # t
      BY <1>2, <2>1, <2>3
    <2> QED BY <2>2, <2>4 DEF SettlesIn, a
  <1> QED BY <1>3, <1>4

\* The last message about a topic decides what it settles to.
LEMMA SettlesAppendSame ==
    ASSUME NEW q \in Seq(Message), NEW r, NEW t \in Topic, NEW p \in SUBSET Name
    PROVE  SettlesIn(Append(q, Msg(t, p)), r, t, p)
  <1> DEFINE a == Append(q, Msg(t, p))
  <1>1. Len(a) = Len(q) + 1 /\ a[Len(q) + 1] = Msg(t, p) /\ Len(q) \in Nat
    BY AppendIs, MsgType
  <1> HIDE DEF a
  <1>2. Len(a) \in 1..Len(a) /\ a[Len(a)] = Msg(t, p)
        /\ \A j \in Len(a) + 1..Len(a) : a[j].topic # t
    BY <1>1
  <1> QED BY <1>2 DEF SettlesIn, a

\* Of the messages about a topic one is the last.
LEMMA LastOf ==
    ASSUME NEW q \in Seq(Message), NEW t, NEW k \in 1..Len(q), q[k].topic = t
    PROVE  \E i \in 1..Len(q) : q[i].topic = t /\ \A j \in i + 1..Len(q) : q[j].topic # t
  <1> DEFINE R == {ss \in Nat \X Nat : ss[1] < ss[2]}
             I == {i \in 1..Len(q) : q[i].topic = t}
             T == {Len(q) - i : i \in I}
  <1>0. Len(q) \in Nat /\ I \subseteq 1..Len(q) /\ k \in I
    OBVIOUS
  <1>1. T \subseteq Nat /\ T # {}
    <2> HIDE DEF I
    <2> QED BY <1>0
  <1>2. IsWellFoundedOn(R, Nat)
    BY NatLessThanWellFounded, Zenon DEF OpToRel
  <1>3. PICK n \in T : \A u \in T : <<u, n>> \notin R
    <2> HIDE DEF R, T
    <2> QED BY <1>1, <1>2, WFMin
  <1>4. PICK i \in I : n = Len(q) - i
    <2> HIDE DEF I
    <2> QED BY <1>3
  <1>5. ASSUME NEW j \in i + 1..Len(q), j \in I PROVE FALSE
    <2>1. Len(q) - j \in T /\ Len(q) - j \in Nat /\ n \in Nat
      <3> HIDE DEF I
      <3> QED BY <1>0, <1>1, <1>3, <1>5
    <2>2. ~(Len(q) - j < n)
      BY <1>3, <2>1
    <2>3. i \in 1..Len(q) /\ j \in 1..Len(q)
      BY <1>0, <1>4, <1>5
    <2> QED BY <1>0, <1>4, <2>2, <2>3
  <1>6. \A j \in i + 1..Len(q) : j \in 1..Len(q)
    BY <1>0
  <1>7. \A j \in i + 1..Len(q) : q[j].topic # t
    BY <1>5, <1>6
  <1> QED BY <1>0, <1>4, <1>7

\* What a topic settles to survives everything that leaves its messages and its record
\* alone, ...
LEMMA SettlesSame ==
    ASSUME NEW t, NEW p, Settles(t, p), out' = out, retained'[t] = retained[t]
    PROVE  SettlesIn(out', retained', t, p)
  BY DEF Settles, SettlesIn

LEMMA SettlesPublish ==
    ASSUME TypeOK, NEW t, NEW p, Settles(t, p), NEW m \in Message,
           m.topic # t, out' = Publish(m), retained' = retained
    PROVE  SettlesIn(out', retained', t, p)
  <1>1. CASE Believes
    BY <1>1, SettlesAppendOther DEF Settles, Publish, TypeOK
  <1>2. CASE ~Believes
    BY <1>2 DEF Settles, SettlesIn, Publish
  <1> QED BY <1>1, <1>2

\* ... the delivery of a message, ...
LEMMA SettlesTaken ==
    ASSUME TypeOK, NEW t \in Topic, NEW p, Settles(t, p), BrokerTakes
    PROVE  SettlesIn(out', retained', t, p)
  <1>1. /\ out' = out /\ taken + 1 \in 1..Len(out)
        /\ retained' = [retained EXCEPT ![out[taken + 1].topic] = out[taken + 1].payload]
    BY DEF BrokerTakes, TypeOK
  <1>2. CASE out[taken + 1].topic = t
    BY <1>1, <1>2 DEF Settles, SettlesIn
  <1>3. CASE out[taken + 1].topic # t
    <2>1. retained'[t] = retained[t]
      BY <1>1, <1>3 DEF TypeOK
    <2> QED BY <1>1, <2>1, SettlesSame
  <1> QED BY <1>2, <1>3

\* ... and its acknowledgement, if the broker retains what it has taken.
LEMMA SettlesAcked ==
    ASSUME TypeOK, NEW t \in Topic, NEW p \in SUBSET Name, Settles(t, p), DeliveredOn(t),
           PubAck
    PROVE  SettlesIn(out', retained', t, p)
  <1>1. /\ retained' = retained /\ out' = Tail(out)
        /\ taken \in 1..Len(out) /\ Len(out) \in Nat
    BY DEF PubAck, brokerVars, TypeOK
  <1>2. /\ Len(out') = Len(out) - 1
        /\ \A i \in 1..Len(out') : i + 1 \in 1..Len(out) /\ out'[i] = out[i + 1]
    BY <1>1, TailIs DEF TypeOK
  <1>3. CASE \A i \in 1..Len(out) : out[i].topic # t
    <2>1. retained[t] = p
      BY <1>1, <1>3, MsgType DEF Settles, SettlesIn
    <2>2. \A i \in 1..Len(out') : out'[i].topic # t
      BY <1>2, <1>3
    <2> QED BY <1>1, <2>1, <2>2 DEF SettlesIn
  <1>4. CASE ~(\A i \in 1..Len(out) : out[i].topic # t)
    <2>1. PICK k \in 1..Len(out) : /\ out[k] = Msg(t, p)
                                   /\ \A j \in k + 1..Len(out) : out[j].topic # t
      BY <1>1, <1>4 DEF Settles, SettlesIn
    <2>2. out[k].topic = t /\ out[k].payload = p
      BY <2>1, MsgType
    <2>3. CASE k = 1
      <3>1. retained[t] = p
        <4>1. 1 \in 1..taken /\ \A j \in 1 + 1..taken : j \in k + 1..Len(out)
          BY <1>1, <2>3
        <4> QED BY <2>1, <2>2, <2>3, <4>1 DEF DeliveredOn
      <3>2. \A i \in 1..Len(out') : i + 1 \in k + 1..Len(out)
        BY <1>1, <1>2, <2>3
      <3>3. \A i \in 1..Len(out') : out'[i].topic # t
        BY <1>2, <2>1, <3>2
      <3> QED BY <1>1, <3>1, <3>3 DEF SettlesIn
    <2>4. CASE k # 1
      <3>1. k - 1 \in 1..Len(out') /\ out'[k - 1] = Msg(t, p)
        BY <1>1, <1>2, <2>1, <2>4
      <3>2. \A j \in k - 1 + 1..Len(out') :
              j \in 1..Len(out') /\ j + 1 \in k + 1..Len(out)
        BY <1>1, <1>2
      <3>3. \A j \in k - 1 + 1..Len(out') : out'[j].topic # t
        BY <1>2, <2>1, <3>2
      <3> QED BY <3>1, <3>3 DEF SettlesIn
    <2> QED BY <2>3, <2>4
  <1> QED BY <1>3, <1>4

-----------------------------------------------------------------------------
(* ClearedIsErased. *)

\* One station: what the step does to the messages and the record of its topic.
LEMMA ErasedAppend ==
    ASSUME TypeOK, NEW s \in Stations, Settles(s, {}), NEW m \in Message,
           m.topic # s, out' = Publish(m), retained' = retained
    PROVE  Settles(s, {})'
  BY SettlesPublish DEF Settles, SettlesIn

LEMMA ErasedTopic ==
    ASSUME TypeOK, NEW s \in Stations, Settles(s, {}), out' = out,
           retained'[s] = retained[s]
    PROVE  Settles(s, {})'
  BY DEF Settles, SettlesIn

LEMMA ClearedStep ==
    ASSUME TypeOK, TypeOK', Contact, Delivered, ClearedIsErased, [Next]_vars
    PROVE  ClearedIsErased'
  <1> SUFFICES ASSUME NEW s \in Stations, s \in cleared', s \notin dirty'
               PROVE  Settles(s, {})'
    BY DEF ClearedIsErased, TypeOK
  <1>t. /\ s \in Topic /\ s # "status" /\ s # "host"
        /\ "status" \in Topic /\ "host" \in Topic /\ Stations \subseteq Topic
        /\ {} \in SUBSET Name
    BY DEF Topic
  <1>h. s \in cleared /\ s \notin dirty => Settles(s, {})
    BY DEF ClearedIsErased
  <1>k. UNCHANGED <<cleared, dirty>> => Settles(s, {})
    BY <1>h
  <1>1. CASE Quiet
    <2>1. s \in cleared
      BY <1>1 DEF Quiet, Discover, Gather, RunOnceDone, ClearDone, CycleError,
             WatchdogPasses, Sleep, Stop, ExitSilently, Forget, Restart, Drop, Heal,
             ClientNotices, loopVars
    <2>2. s \notin dirty
      BY <1>1 DEF Quiet, Discover, Gather, RunOnceDone, ClearDone, CycleError,
             WatchdogPasses, Sleep, Stop, ExitSilently, Forget, Restart, Drop, Heal,
             ClientNotices
    <2> QED BY <1>1, <1>h, <2>1, <2>2, QuietIs, ErasedTopic
  <1>2. CASE SilenceDone \/ ExitAnnounced \/ Crash
    BY <1>2 DEF SilenceDone, ExitAnnounced, Crash, Forget
  <1>3. CASE ConnectOk \/ ConnectNoAck
    BY <1>3 DEF ConnectOk, ConnectNoAck, Contact
  <1>4. CASE Edits \/ UNCHANGED vars
    <2>1. UNCHANGED <<out, retained, cleared, dirty>>
      BY <1>4, EditsIs DEF vars, loopVars, clientVars, brokerVars
    <2> QED BY <1>k, <2>1, ErasedTopic
  <1>5. CASE PublishHost
    <2>1. /\ Msg("host", Publishable) \in Message
          /\ Msg("host", Publishable).topic = "host"
      BY <1>t, MsgType, PayloadIs, PublishableType
    <2>2. UNCHANGED <<cleared, dirty, retained>>
          /\ (out' = out \/ out' = Publish(Msg("host", Publishable)))
      BY <1>5 DEF PublishHost, brokerVars
    <2>3. CASE out' = out
      BY <1>k, <2>2, <2>3, ErasedTopic
    <2>4. CASE out' = Publish(Msg("host", Publishable))
      BY <1>k, <1>t, <2>1, <2>2, <2>4, ErasedAppend
    <2> QED BY <2>2, <2>3, <2>4
  <1>6. ASSUME NEW u \in Stations, PublishState(u) PROVE Settles(s, {})'
    <2>1. Msg(u, {u}) \in Message /\ Msg(u, {u}).topic = u
      BY <1>t, MsgType, PayloadIs DEF Name
    <2>2. UNCHANGED <<cleared, retained>> /\ out' = Publish(Msg(u, {u}))
          /\ dirty' = IF Believes THEN dirty \cup {u} ELSE dirty
      BY <1>6 DEF PublishState, brokerVars
    <2>3. CASE Believes
      BY <1>h, <2>1, <2>2, <2>3, ErasedAppend
    <2>4. CASE ~Believes
      BY <1>k, <2>2, <2>4, ErasedTopic DEF Publish
    <2> QED BY <2>3, <2>4
  <1>7. ASSUME NEW u \in Stations, ClearStation(u) PROVE Settles(s, {})'
    <2>1. /\ retained' = retained /\ out' = Publish(Tombstone(u))
          /\ cleared' = IF Believes THEN cleared \cup {u} ELSE cleared
          /\ dirty' = IF Believes THEN dirty \ {u} ELSE dirty
      BY <1>7 DEF ClearStation, brokerVars
    <2>2. CASE Believes /\ s = u
      BY <1>t, <2>1, <2>2, SettlesAppendSame DEF Settles, Publish, Tombstone, TypeOK
    <2>3. CASE Believes /\ s # u
      BY <1>t, <1>h, <2>1, <2>3, TombstoneType, ErasedAppend
    <2>4. CASE ~Believes
      BY <1>k, <2>1, <2>4, ErasedTopic DEF Publish
    <2> QED BY <2>2, <2>3, <2>4
  <1>8. ASSUME NEW u \in Stations, SilenceStation(u) PROVE Settles(s, {})'
    <2>1. UNCHANGED <<cleared, dirty, retained>> /\ out' = Publish(Tombstone(u))
      BY <1>8 DEF SilenceStation, brokerVars
    <2>2. CASE Believes /\ s = u
      BY <1>t, <2>1, <2>2, SettlesAppendSame DEF Settles, Publish, Tombstone, TypeOK
    <2>3. CASE s # u
      BY <1>t, <1>k, <2>1, <2>3, TombstoneType, ErasedAppend
    <2>4. CASE ~Believes
      BY <1>k, <2>1, <2>4, ErasedTopic DEF Publish
    <2> QED BY <2>2, <2>3, <2>4
  <1>9. CASE GoSilent
    <2>1. UNCHANGED <<cleared, dirty, retained>>
      BY <1>9 DEF GoSilent, brokerVars
    <2>2. CASE Believes
      <3> DEFINE a == Append(out, Tombstone("status"))
      <3>1. out' = Append(a, Tombstone("host"))
        BY <1>9, <2>2, <1>t, ConcatTwo, TombstoneType DEF GoSilent, TypeOK
      <3>2. a \in Seq(Message)
        BY <1>t, AppendIs, TombstoneType DEF TypeOK
      <3>3. SettlesIn(a, retained, s, {})
        BY <1>k, <1>t, <2>1, TombstoneType, SettlesAppendOther DEF Settles, TypeOK
      <3> HIDE DEF a
      <3> QED BY <1>t, <2>1, <3>1, <3>2, <3>3, TombstoneType, SettlesAppendOther DEF Settles
    <2>3. CASE ~Believes
      BY <1>9, <1>k, <2>1, <2>3, ErasedTopic DEF GoSilent
    <2> QED BY <2>2, <2>3
  <1>10. CASE AnnounceOffline
    <2>1. /\ Msg("status", {"offline"}) \in Message
          /\ Msg("status", {"offline"}).topic = "status"
      BY <1>t, MsgType, PayloadIs DEF Name
    <2>2. UNCHANGED <<cleared, dirty, retained>>
          /\ out' = Publish(Msg("status", {"offline"}))
      BY <1>10 DEF AnnounceOffline, brokerVars
    <2> QED BY <1>k, <1>t, <2>1, <2>2, ErasedAppend
  <1>11. CASE Reconnect
    <2>1. UNCHANGED <<cleared, dirty>> /\ out' = <<Online>> \o out /\ NewSession
      BY <1>11 DEF Reconnect, loopVars
    <2>2. retained'[s] = retained[s]
      BY <1>t, <2>1 DEF NewSession, TypeOK
    <2>3. SettlesIn(out', retained, s, {})
      BY <1>k, <1>t, <2>1, OnlineType, SettlesPrependOther DEF Settles, TypeOK
    <2> QED BY <2>2, <2>3 DEF Settles, SettlesIn
  <1>12. CASE BrokerNotices
    <2>1. UNCHANGED <<cleared, dirty, out>>
          /\ retained' = [retained EXCEPT !["status"] = {"offline"}]
      BY <1>12 DEF BrokerNotices, loopVars, clientVars
    <2>2. retained'[s] = retained[s]
      BY <1>t, <2>1 DEF TypeOK
    <2> QED BY <1>k, <2>1, <2>2, ErasedTopic
  <1>13. CASE BrokerTakes
    <2>1. UNCHANGED <<cleared, dirty>>
      BY <1>13 DEF BrokerTakes, loopVars
    <2>2. SettlesIn(out', retained', s, {})
      BY <1>k, <1>t, <1>13, <2>1, SettlesTaken
    <2> QED BY <2>2 DEF Settles, SettlesIn
  <1>14. CASE PubAck
    <2>1. UNCHANGED <<cleared, dirty>>
      BY <1>14 DEF PubAck, loopVars
    <2>2. SettlesIn(out', retained', s, {})
      BY <1>k, <1>t, <1>14, <2>1, SettlesAcked DEF Delivered
    <2> QED BY <2>2 DEF Settles, SettlesIn
  <1> QED
    BY <1>1, <1>2, <1>3, <1>4, <1>5, <1>6, <1>7, <1>8, <1>9, <1>10, <1>11, <1>12,
       <1>13, <1>14, NextIs DEF Giveup

-----------------------------------------------------------------------------
(* A quiet cycle. *)

\* Messages about other topics add nothing about this one.
LEMMA PublishOther ==
    ASSUME TypeOK, NEW m \in Message, NEW t, m.topic # t, out' = Publish(m)
    PROVE  \A i \in 1..Len(out') : out'[i].topic = t => i \in 1..Len(out) /\ out'[i] = out[i]
  <1>1. CASE Believes
    <2>1. /\ Len(out) \in Nat /\ Len(out') = Len(out) + 1 /\ out'[Len(out) + 1] = m
          /\ \A i \in 1..Len(out) : out'[i] = out[i]
      BY <1>1, AppendIs DEF Publish, TypeOK
    <2>2. \A i \in 1..Len(out') : i = Len(out) + 1 \/ i \in 1..Len(out)
      BY <2>1
    <2> QED BY <2>1, <2>2
  <1>2. CASE ~Believes
    BY <1>2 DEF Publish
  <1> QED BY <1>1, <1>2

LEMMA HostMessage ==
    ASSUME TypeOK
    PROVE  Msg("host", Publishable) \in Message /\ Msg("host", Publishable).topic = "host"
  BY MsgType, PayloadIs, PublishableType DEF Topic

LEMMA StateMessage ==
    ASSUME NEW s \in Stations
    PROVE  /\ Msg(s, {s}) \in Message /\ Msg(s, {s}).topic = s
           /\ Tombstone(s) \in Message /\ Tombstone(s).topic = s
           /\ s \in Topic /\ {s} \in SUBSET Name /\ s # "status" /\ s # "host"
  <1>1. s \in Topic /\ {s} \in SUBSET Name
    BY DEF Topic, Name
  <1>2. s # "status" /\ s # "host"
    OBVIOUS
  <1> QED BY <1>1, <1>2, MsgType, PayloadIs, TombstoneType

\* What the steps of the cycle hand to the client, all of it behind what is there.
LEMMA CycleSends ==
    ASSUME TypeOK, NEW s \in Stations, PublishHost \/ PublishState(s) \/ ClearStation(s)
    PROVE  /\ \E m \in Message : m.topic # "status" /\ out' \in {out, Publish(m)}
           /\ UNCHANGED <<link, taken, session, retained, connected, quiet, opted_out>>
           /\ pc \in {"host", "publish", "clear"} /\ ~Ending /\ Publishable' = Publishable
  <1>1. CASE PublishHost
    BY <1>1, HostMessage
       DEF PublishHost, fileVars, brokerVars, Ending, Publishable, Topic
  <1>2. CASE PublishState(s)
    BY <1>2, StateMessage DEF PublishState, fileVars, brokerVars, Ending, Publishable
  <1>3. CASE ClearStation(s)
    BY <1>3, StateMessage DEF ClearStation, fileVars, brokerVars, Ending, Publishable
  <1> QED BY <1>1, <1>2, <1>3

\* A loop step leaves an ending alone, unless the process was not connected.
LEMMA QuietEnding ==
    ASSUME Quiet, ~Ending', Contact
    PROVE  \/ ~Ending /\ connected' = connected
           \/ ~connected' /\ out = <<>>
  BY DEF Quiet, Discover, Gather, RunOnceDone, ClearDone, CycleError, WatchdogPasses,
         Sleep, Stop, ExitSilently, Forget, Restart, Drop, Heal, ClientNotices, Ending,
         loopVars, Contact

LEMMA OnlyOnlineStep ==
    ASSUME TypeOK, Contact, OnlyOnline, [Next]_vars PROVE OnlyOnline'
  <1> SUFFICES ASSUME ~Ending', NEW i \in 1..Len(out'), out'[i].topic = "status"
               PROVE  out'[i] = Online
    BY DEF OnlyOnline
  <1>t. Len(out) \in Nat
    BY DEF TypeOK
  <1>1. CASE Quiet
    <2>1. out' = out
      BY <1>1, QuietIs
    <2>2. CASE ~Ending
      BY <2>1, <2>2 DEF OnlyOnline
    <2>3. CASE out = <<>>
      BY <2>1, <2>3
    <2> QED BY <1>1, <2>2, <2>3, QuietEnding
  <1>2. CASE Giveup
    BY <1>2, GiveupIs
  <1>3. CASE Edits \/ UNCHANGED vars \/ BrokerNotices \/ BrokerTakes
    <2>1. out' = out /\ pc' = pc
      BY <1>3, EditsIs DEF vars, loopVars, clientVars, BrokerNotices, BrokerTakes
    <2> QED BY <2>1 DEF OnlyOnline, Ending
  <1>4. ASSUME NEW s \in Stations, PublishHost \/ PublishState(s) \/ ClearStation(s)
        PROVE  out'[i] = Online
    <2>1. PICK m \in Message : m.topic # "status" /\ out' \in {out, Publish(m)}
      BY <1>4, CycleSends
    <2>2. ~Ending
      BY <1>4, CycleSends
    <2>3. i \in 1..Len(out) /\ out'[i] = out[i]
      BY <2>1, PublishOther
    <2> QED BY <2>2, <2>3 DEF OnlyOnline
  <1>5. CASE PublishHost /\ Stations = {}
    <2>1. out' = out /\ pc = "host"
      BY <1>5 DEF PublishHost, Publishable, PublishableIn, TypeOK
    <2> QED BY <2>1 DEF OnlyOnline, Ending
  <1>6. ASSUME NEW s \in Stations, SilenceStation(s) PROVE FALSE
    BY <1>6 DEF SilenceStation, Ending
  <1>7. CASE GoSilent \/ AnnounceOffline
    BY <1>7 DEF GoSilent, AnnounceOffline, Ending
  <1>8. CASE ConnectOk
    BY <1>8 DEF ConnectOk
  <1>9. CASE Reconnect
    <2>1. out' = <<Online>> \o out /\ ~Ending
      BY <1>9 DEF Reconnect, loopVars, Ending
    <2>2. /\ Len(out') = Len(out) + 1 /\ out'[1] = Online
          /\ \A j \in 1..Len(out) : out'[j + 1] = out[j]
      BY <2>1, OnlineType, PrependIs DEF TypeOK
    <2>3. i = 1 \/ (i - 1 \in 1..Len(out) /\ out'[i] = out[i - 1])
      BY <1>t, <2>2
    <2> QED BY <2>1, <2>2, <2>3 DEF OnlyOnline
  <1>10. CASE PubAck
    <2>1. out' = Tail(out) /\ Len(out) > 0 /\ ~Ending
      BY <1>10 DEF PubAck, loopVars, Ending, TypeOK
    <2>2. i + 1 \in 1..Len(out) /\ out'[i] = out[i + 1]
      BY <1>t, <2>1, TailIs DEF TypeOK
    <2> QED BY <2>1, <2>2 DEF OnlyOnline
  <1> QED
    BY <1>1, <1>2, <1>3, <1>4, <1>5, <1>6, <1>7, <1>8, <1>9, <1>10, NextIs

\* The wire that ShownOnline speaks of.
WireHolds == link = "up" \/ (link = "half" /\ session)

LEMMA ShownOnlineStep ==
    ASSUME TypeOK, Contact, OnlyOnline, ShownOnline, [Next]_vars PROVE ShownOnline'
  <1> SUFFICES ASSUME connected', ~Ending', WireHolds'
               PROVE  \/ retained'["status"] = {"online"}
                      \/ \E i \in taken' + 1..Len(out') : out'[i] = Online
    BY DEF ShownOnline, WireHolds
  <1>t. /\ Len(out) \in Nat /\ taken \in 0..Len(out) /\ taken \in Nat
        /\ "status" \in Topic /\ Online.topic = "status" /\ Online.payload = {"online"}
    BY MsgType DEF TypeOK, Topic, Online, Name
  <1>h. connected /\ ~Ending /\ WireHolds =>
            \/ retained["status"] = {"online"}
            \/ \E i \in taken + 1..Len(out) : out[i] = Online
    BY DEF ShownOnline, WireHolds
  <1>1. CASE Quiet
    <2>1. UNCHANGED <<out, session, retained>>
      BY <1>1, QuietIs
    <2>2. connected /\ ~Ending
      BY <1>1 DEF Quiet, Discover, Gather, RunOnceDone, ClearDone, CycleError,
             WatchdogPasses, Sleep, Stop, ExitSilently, Forget, Restart, Drop, Heal,
             ClientNotices, Ending, loopVars
    <2>3. WireHolds /\ taken' = taken
      BY <1>1 DEF Quiet, Discover, Gather, RunOnceDone, ClearDone, CycleError,
             WatchdogPasses, Sleep, Stop, ExitSilently, Forget, Restart, Drop, Heal,
             ClientNotices, WireHolds, clientVars, brokerVars
    <2> QED BY <1>h, <2>1, <2>2, <2>3
  <1>2. CASE Giveup
    BY <1>2 DEF Giveup, SilenceDone, ExitAnnounced, Crash, ConnectNoAck, Disconnect, Forget,
           WireHolds
  <1>3. CASE Edits \/ UNCHANGED vars
    <2>1. UNCHANGED <<out, taken, link, session, retained, pc, connected>>
      BY <1>3, EditsIs DEF vars, loopVars, clientVars, brokerVars
    <2> QED BY <1>h, <2>1 DEF WireHolds, Ending
  <1>4. ASSUME NEW s \in Stations, PublishHost \/ PublishState(s) \/ ClearStation(s)
        PROVE  \/ retained'["status"] = {"online"}
               \/ \E i \in taken' + 1..Len(out') : out'[i] = Online
    <2>1. PICK m \in Message : m.topic # "status" /\ out' \in {out, Publish(m)}
      BY <1>4, CycleSends
    <2>2. UNCHANGED <<link, taken, session, retained, connected>> /\ ~Ending
      BY <1>4, CycleSends
    <2>3. Len(out') \in Nat /\ Len(out) <= Len(out')
          /\ \A i \in 1..Len(out) : out'[i] = out[i]
      <3>1. CASE out' = out
        BY <1>t, <3>1
      <3>2. CASE out' = Publish(m)
        <4>1. Publish(m) \in Seq(Message) /\ Len(out) <= Len(Publish(m))
              /\ \A i \in 1..Len(out) : Publish(m)[i] = out[i]
          BY PublishIs
        <4> QED BY <3>2, <4>1
      <3> QED BY <2>1, <3>1, <3>2
    <2>4. \A i \in taken + 1..Len(out) : i \in taken' + 1..Len(out') /\ out'[i] = out[i]
      BY <1>t, <2>2, <2>3
    <2> QED BY <1>h, <2>2, <2>4 DEF WireHolds
  <1>5. CASE PublishHost /\ Stations = {}
    <2>1. UNCHANGED <<out, link, taken, session, retained, connected>> /\ pc = "host"
      BY <1>5 DEF PublishHost, Publishable, PublishableIn, TypeOK, brokerVars
    <2> QED BY <1>h, <2>1 DEF WireHolds, Ending
  <1>6. ASSUME NEW s \in Stations, SilenceStation(s) PROVE FALSE
    BY <1>6 DEF SilenceStation, Ending
  <1>7. CASE GoSilent \/ AnnounceOffline
    BY <1>7 DEF GoSilent, AnnounceOffline, Ending
  <1>8. CASE ConnectOk \/ Reconnect
    <2>1. taken' = 0 /\ (out' = <<Online>> \/ out' = <<Online>> \o out)
      BY <1>8 DEF ConnectOk, Reconnect
    <2>2. out \in Seq(Message) /\ Online \in Message
      BY OnlineType DEF TypeOK
    <2>3. Len(out') \in Nat /\ Len(out') >= 1 /\ out'[1] = Online
      <3>1. CASE out' = <<Online>>
        BY <3>1
      <3>2. CASE out' = <<Online>> \o out
        BY <1>t, <2>2, <3>2, PrependIs
      <3> QED BY <2>1, <3>1, <3>2
    <2> QED BY <2>1, <2>3
  <1>9. CASE BrokerNotices
    BY <1>9 DEF BrokerNotices, WireHolds, clientVars
  <1>10. CASE BrokerTakes
    <2>1. /\ UNCHANGED <<out, link, session, pc, connected>> /\ taken' = taken + 1
          /\ taken + 1 \in 1..Len(out)
          /\ retained' = [retained EXCEPT ![out[taken + 1].topic] = out[taken + 1].payload]
      <3>1. UNCHANGED <<out, link, session, pc, connected>> /\ taken' = taken + 1
            /\ taken < Len(out)
        BY <1>10 DEF BrokerTakes, loopVars
      <3>2. retained' = [retained EXCEPT ![out[taken + 1].topic] = out[taken + 1].payload]
        BY <1>10 DEF BrokerTakes
      <3>3. taken + 1 \in 1..Len(out)
        BY <1>t, <3>1
      <3> QED BY <3>1, <3>2, <3>3, Zenon
    <2>2. connected /\ ~Ending /\ WireHolds
      BY <2>1 DEF Ending, WireHolds
    <2>3. CASE out[taken + 1].topic = "status"
      <3>1. out[taken + 1] = Online
        BY <2>1, <2>2, <2>3 DEF OnlyOnline
      <3> QED BY <1>t, <2>1, <3>1 DEF TypeOK
    <2>4. CASE out[taken + 1].topic # "status"
      <3>1. retained'["status"] = retained["status"]
        BY <1>t, <2>1, <2>4 DEF TypeOK
      <3>2. \A i \in taken + 1..Len(out) : out[i] = Online => i \in taken' + 1..Len(out')
        BY <1>t, <2>1, <2>4
      <3> QED BY <1>h, <2>1, <2>2, <3>1, <3>2
    <2> QED BY <2>3, <2>4
  <1>11. CASE PubAck
    <2>1. /\ UNCHANGED <<link, session, retained, pc, connected>> /\ taken' = taken - 1
          /\ out' = Tail(out) /\ taken > 0
      BY <1>11 DEF PubAck, loopVars, brokerVars
    <2>2. Len(out') = Len(out) - 1 /\ \A j \in 1..Len(out) - 1 : out'[j] = out[j + 1]
      BY <1>t, <2>1, TailIs DEF TypeOK
    <2>3. \A i \in taken + 1..Len(out) :
             i - 1 \in taken' + 1..Len(out') /\ out'[i - 1] = out[i]
      BY <1>t, <2>1, <2>2
    <2> QED BY <1>h, <2>1, <2>3 DEF Ending, WireHolds
  <1> QED
    BY <1>1, <1>2, <1>3, <1>4, <1>5, <1>6, <1>7, <1>8, <1>9, <1>10, <1>11, NextIs

LEMMA SameConsentStep ==
    ASSUME TypeOK, SameConsent, [Next]_vars PROVE SameConsent'
  <1>a. ASSUME UNCHANGED <<fileVars, pc, opted_out, batch>>, quiet' => quiet
        PROVE  SameConsent'
    BY <1>a DEF SameConsent, Publishable, fileVars
  <1>b. ASSUME ~quiet', pc' # "clear" \/ UNCHANGED <<pc, opted_out, batch>>
        PROVE  SameConsent'
    BY <1>b DEF SameConsent
  <1>c. ASSUME pc' \notin {"connect", "host", "gather", "publish", "clear", "watchdog"}
        PROVE  SameConsent'
    BY <1>c DEF SameConsent
  <1>d. ASSUME UNCHANGED <<fileVars, opted_out, quiet>>, pc' # "clear",
               pc \in {"connect", "host", "gather", "publish", "clear", "watchdog"}
        PROVE  SameConsent'
    BY <1>d DEF SameConsent, Publishable, fileVars
  <1>1. CASE Discover
    <2>1. /\ UNCHANGED fileVars /\ opted_out' = Stations \ Publishable
          /\ pc' = IF Publishable # {}
                   THEN IF connected THEN "host" ELSE "connect"
                   ELSE IF connected THEN "silent" ELSE "sleep"
      BY <1>1 DEF Discover
    <2> QED BY <2>1 DEF SameConsent, Publishable, fileVars
  <1>2. CASE Gather \/ ClearDone
    BY <1>2, <1>d DEF Gather, ClearDone
  <1>3. CASE RunOnceDone
    BY <1>3 DEF RunOnceDone, SameConsent, Publishable, fileVars
  <1>4. CASE WatchdogPasses \/ Sleep \/ Restart \/ ExitSilently
    BY <1>4, <1>c DEF WatchdogPasses, Sleep, Restart, ExitSilently, Forget
  <1>5. CASE CycleError \/ Stop
    BY <1>5, <1>b DEF CycleError, Stop
  <1>6. CASE Drop \/ Heal \/ ClientNotices
    BY <1>6, <1>a DEF Drop, Heal, ClientNotices, loopVars
  <1>7. CASE SilenceDone \/ ExitAnnounced \/ Crash
    BY <1>7, <1>c DEF SilenceDone, ExitAnnounced, Crash, Forget
  <1>8. CASE ConnectNoAck \/ ConnectOk
    BY <1>8, <1>d DEF ConnectNoAck, ConnectOk
  <1>9. CASE Edits
    <2>1. UNCHANGED loopVars /\ ~quiet'
      BY <1>9, EditsIs DEF Edits, SetWeblog, Garble, Mend
    <2> QED BY <2>1, <1>b DEF loopVars
  <1>10. CASE UNCHANGED vars
    BY <1>10, <1>a DEF vars, loopVars
  <1>11. CASE PublishHost
    BY <1>11, <1>d DEF PublishHost
  <1>12. CASE GoSilent \/ AnnounceOffline
    BY <1>12, <1>c DEF GoSilent, AnnounceOffline
  <1>13. ASSUME NEW s \in Stations, PublishState(s) PROVE SameConsent'
    BY <1>13, <1>d DEF PublishState
  <1>14. ASSUME NEW s \in Stations, ClearStation(s) PROVE SameConsent'
    <2>1. /\ UNCHANGED <<fileVars, pc, opted_out, quiet>> /\ batch' \subseteq batch
          /\ pc = "clear"
      BY <1>14 DEF ClearStation
    <2> QED BY <2>1 DEF SameConsent, Publishable, fileVars
  <1>15. ASSUME NEW s \in Stations, SilenceStation(s) PROVE SameConsent'
    BY <1>15, <1>c DEF SilenceStation
  <1>16. CASE Reconnect \/ BrokerNotices \/ BrokerTakes \/ PubAck
    BY <1>16, <1>a DEF Reconnect, BrokerNotices, BrokerTakes, PubAck, loopVars
  <1> QED
    BY <1>1, <1>2, <1>3, <1>4, <1>5, <1>6, <1>7, <1>8, <1>9, <1>10, <1>11, <1>12,
       <1>13, <1>14, <1>15, <1>16, NextIs DEF Quiet, Giveup

\* The part of the cycle behind the host record.
Later == {"gather", "publish", "clear", "watchdog", "sleep"}

\* How a quiet cycle with a client gets there, and on from there.
LEMMA CycleMoves ==
    ASSUME TypeOK, Contact, [Next]_vars, quiet', Believes', pc' \in Later
    PROVE  /\ quiet /\ Believes /\ Publishable' = Publishable
           /\ \/ PublishHost \/ Gather \/ RunOnceDone \/ ClearDone \/ WatchdogPasses
              \/ \E s \in Stations : PublishState(s) \/ ClearStation(s)
              \/ /\ UNCHANGED <<pc, batch>>
                 /\ \/ BrokerTakes \/ PubAck
                    \/ /\ out' = out
                       /\ \A t \in Topic : t # "status" => retained'[t] = retained[t]
  <1> USE DEF Later
  <1>1. CASE PublishHost \/ Gather \/ RunOnceDone \/ ClearDone \/ WatchdogPasses
    BY <1>1 DEF PublishHost, Gather, RunOnceDone, ClearDone, WatchdogPasses, Believes,
           clientVars, Publishable, fileVars
  <1>2. ASSUME NEW s \in Stations, PublishState(s) \/ ClearStation(s)
        PROVE  quiet /\ Believes /\ Publishable' = Publishable
    BY <1>2 DEF PublishState, ClearStation, Believes, Publishable, fileVars
  <1>3. ASSUME NEW s \in Stations, SilenceStation(s) PROVE FALSE
    BY <1>3 DEF SilenceStation
  <1>4. CASE Discover
    <2>1. ~connected /\ link' = link
      BY <1>4 DEF Discover, clientVars
    <2> QED BY <2>1 DEF Contact, Believes
  <1>5. CASE CycleError \/ Sleep \/ Stop \/ ExitSilently \/ Restart \/ Drop
    BY <1>5 DEF CycleError, Sleep, Stop, ExitSilently, Forget, Restart, Drop
  <1>6. CASE ClientNotices \/ Giveup
    BY <1>6 DEF ClientNotices, Giveup, SilenceDone, ExitAnnounced, Crash, ConnectNoAck,
           Disconnect, Believes
  <1>7. CASE Edits
    BY <1>7 DEF Edits, SetWeblog, Garble, Mend
  <1>8. CASE GoSilent \/ AnnounceOffline \/ ConnectOk \/ Reconnect
    BY <1>8 DEF GoSilent, AnnounceOffline, ConnectOk, Reconnect
  <1>9. CASE Heal \/ UNCHANGED vars
    BY <1>9 DEF Heal, vars, loopVars, clientVars, brokerVars, Believes, Publishable,
           fileVars
  <1>10. CASE BrokerNotices
    <2>1. \A t \in Topic : t # "status" => retained'[t] = retained[t]
      BY <1>10 DEF BrokerNotices, TypeOK
    <2> QED BY <1>10, <2>1 DEF BrokerNotices, loopVars, clientVars, Believes, Publishable,
               fileVars
  <1>11. CASE BrokerTakes \/ PubAck
    BY <1>11 DEF BrokerTakes, PubAck, loopVars, Believes, Publishable, fileVars
  <1> QED
    BY <1>1, <1>2, <1>3, <1>4, <1>5, <1>6, <1>7, <1>8, <1>9, <1>10, <1>11, NextIs
       DEF Quiet

\* Behind the host record a topic keeps what it settles to until its own record is written.
LEMMA StaysSettled ==
    ASSUME TypeOK, Contact, Delivered, [Next]_vars, quiet', Believes', pc' \in Later,
           NEW t \in Topic, t # "status", NEW p \in SUBSET Name, Settles(t, p),
           ~PublishHost, ~PublishState(t), ~ClearStation(t)
    PROVE  SettlesIn(out', retained', t, p)
  <1>1. CASE Gather \/ RunOnceDone \/ ClearDone \/ WatchdogPasses
    BY <1>1, SettlesSame DEF Gather, RunOnceDone, ClearDone, WatchdogPasses, clientVars,
           brokerVars
  <1>2. ASSUME NEW s \in Stations, s # t, PublishState(s) \/ ClearStation(s)
        PROVE  SettlesIn(out', retained', t, p)
    <2>1. retained' = retained
          /\ (out' = Publish(Msg(s, {s})) \/ out' = Publish(Tombstone(s)))
      BY <1>2 DEF PublishState, ClearStation, brokerVars
    <2> QED BY <1>2, <2>1, StateMessage, SettlesPublish
  <1>3. CASE BrokerTakes
    BY <1>3, SettlesTaken
  <1>4. CASE PubAck
    BY <1>4, SettlesAcked DEF Delivered
  <1>5. CASE out' = out /\ \A u \in Topic : u # "status" => retained'[u] = retained[u]
    BY <1>5, SettlesSame
  <1> QED BY <1>1, <1>2, <1>3, <1>4, <1>5, CycleMoves

LEMMA HostIsNamedStep ==
    ASSUME TypeOK, Contact, Delivered, SameConsent, HostIsNamed, [Next]_vars
    PROVE  HostIsNamed'
  <1> SUFFICES ASSUME quiet', Believes', pc' \in Later
               PROVE  SettlesIn(out', retained', "host", Publishable')
    BY DEF HostIsNamed, Settles, Later
  <1>t. "host" \in Topic /\ Publishable \in SUBSET Name
    BY PublishableType DEF Topic
  <1>1. quiet /\ Believes /\ Publishable' = Publishable
    BY CycleMoves
  <1>2. CASE PublishHost
    <2>1. pc = "host" /\ retained' = retained
          /\ out' = IF Publishable # {} THEN Publish(Msg("host", Publishable)) ELSE out
      BY <1>2 DEF PublishHost, brokerVars
    <2>2. Publishable # {}
      BY <1>1, <2>1 DEF SameConsent
    <2> QED BY <1>1, <1>t, <2>1, <2>2, SettlesAppendSame DEF Publish, TypeOK
  <1>3. CASE ~PublishHost
    <2>1. pc \in Later
      BY <1>3, CycleMoves DEF Gather, RunOnceDone, ClearDone, WatchdogPasses, PublishState,
             ClearStation, Later
    <2>2. Settles("host", Publishable)
      BY <1>1, <2>1 DEF HostIsNamed, Later
    <2>3. ~PublishState("host") /\ ~ClearStation("host")
      BY DEF PublishState, ClearStation, TypeOK
    <2> QED BY <1>1, <1>3, <1>t, <2>2, <2>3, StaysSettled
  <1> QED BY <1>2, <1>3

LEMMA StationsAreKeptStep ==
    ASSUME TypeOK, Contact, Delivered, SameConsent, StationsAreKept, [Next]_vars
    PROVE  StationsAreKept'
  <1> SUFFICES ASSUME quiet', Believes', pc' \in {"publish", "clear", "watchdog", "sleep"},
                      NEW s \in Publishable'
               PROVE  \/ pc' = "publish" /\ s \in batch'
                      \/ SettlesIn(out', retained', s, {s})
    BY DEF StationsAreKept, Settles
  <1>1. pc' \in Later /\ ~PublishHost
    BY DEF Later, PublishHost
  <1>2. quiet /\ Believes /\ Publishable' = Publishable /\ s \in Stations
    BY <1>1, CycleMoves, PublishableType
  <1>t. s \in Topic /\ {s} \in SUBSET Name /\ s # "status"
    BY <1>2, StateMessage
  <1>3. CASE Gather
    BY <1>2, <1>3 DEF Gather
  <1>4. CASE PublishState(s)
    <2>1. retained' = retained /\ out' = Publish(Msg(s, {s}))
      BY <1>4 DEF PublishState, brokerVars
    <2> QED BY <1>2, <1>t, <2>1, SettlesAppendSame DEF Publish, TypeOK
  <1>5. ClearStation(s) => FALSE
    BY <1>2 DEF ClearStation, SameConsent
  <1>6. CASE ~Gather /\ ~PublishState(s)
    <2>1. pc \in {"publish", "clear", "watchdog", "sleep"}
      BY <1>1, <1>6, CycleMoves DEF RunOnceDone, ClearDone, WatchdogPasses, PublishState,
             ClearStation
    <2>2. (pc = "publish" /\ s \in batch) \/ Settles(s, {s})
      BY <1>2, <2>1 DEF StationsAreKept
    <2>3. CASE Settles(s, {s})
      BY <1>1, <1>5, <1>6, <1>t, <2>3, StaysSettled
    <2>4. CASE pc = "publish" /\ s \in batch
      BY <1>1, <1>6, <2>4, CycleMoves DEF RunOnceDone, ClearDone, WatchdogPasses,
             PublishState, ClearStation, BrokerTakes, PubAck, loopVars
    <2> QED BY <2>2, <2>3, <2>4
  <1> QED BY <1>3, <1>4, <1>6

LEMMA QuietInvInit == Init => QuietInv
  <1> SUFFICES ASSUME Init PROVE QuietInv
    OBVIOUS
  <1>1. OnlyOnline /\ ShownOnline
    BY DEF Init, OnlyOnline, ShownOnline
  <1>2. SameConsent /\ HostIsNamed /\ StationsAreKept
    BY DEF Init, SameConsent, HostIsNamed, StationsAreKept
  <1> QED BY <1>1, <1>2 DEF QuietInv

LEMMA QuietInvStep == LoopInv /\ QuietInv /\ [Next]_vars => QuietInv'
  BY OnlyOnlineStep, ShownOnlineStep, SameConsentStep, HostIsNamedStep, StationsAreKeptStep
     DEF LoopInv, QuietInv

LEMMA QuietInvShows ==
    ASSUME LoopInv, QuietInv PROVE QuietCyclePublishes
  <1> SUFFICES ASSUME pc = "sleep", quiet, connected, link = "up"
               PROVE  /\ Settles("status", {"online"})
                      /\ Settles("host", Publishable)
                      /\ \A s \in Publishable : Settles(s, {s})
    BY DEF QuietCyclePublishes
  <1>1. Settles("host", Publishable)
    BY DEF QuietInv, HostIsNamed, Believes
  <1>2. \A s \in Publishable : Settles(s, {s})
    BY DEF QuietInv, StationsAreKept, Believes
  <1>3. out \in Seq(Message) /\ Len(out) \in Nat /\ taken \in Nat
    BY DEF LoopInv, TypeOK
  <1>4. \A i \in 1..Len(out) : out[i].topic = "status" => out[i] = Online
    BY DEF QuietInv, OnlyOnline, Ending
  <1>5. Online = Msg("status", {"online"}) /\ Online.topic = "status"
    BY OnlineType DEF Online
  <1>6. CASE \A i \in 1..Len(out) : out[i].topic # "status"
    <2>1. ~(\E i \in taken + 1..Len(out) : out[i] = Online)
      BY <1>3, <1>5, <1>6
    <2>2. retained["status"] = {"online"}
      BY <2>1 DEF QuietInv, ShownOnline, Ending
    <2> QED BY <1>1, <1>2, <1>6, <2>2 DEF Settles, SettlesIn
  <1>7. CASE \E i \in 1..Len(out) : out[i].topic = "status"
    <2>1. PICK i \in 1..Len(out) : /\ out[i].topic = "status"
                                   /\ \A j \in i + 1..Len(out) : out[j].topic # "status"
      BY <1>3, <1>7, LastOf
    <2>2. out[i] = Msg("status", {"online"})
      BY <1>4, <1>5, <2>1
    <2> QED BY <1>1, <1>2, <2>1, <2>2 DEF Settles, SettlesIn
  <1> QED BY <1>6, <1>7

-----------------------------------------------------------------------------
(* The end. *)

\* Faults are only ever counted up, each by its own step.
LEMMA FaultsCount ==
    ASSUME TypeOK, [Next]_vars
    PROVE  /\ \A k \in FaultKind : faults'[k] \in Nat /\ faults'[k] >= faults[k]
           /\ Drop \/ ConnectNoAck => faults'["drop"] > 0
           /\ Stop => faults'["stop"] > 0
           /\ Crash => faults'["crash"] > 0
  <1>t. /\ FaultKind = {"drop", "crash", "stop", "error"}
        /\ \A k \in FaultKind : faults[k] \in Nat
    BY DEF FaultKind, TypeOK
  <1>f. ASSUME NEW kind \in FaultKind, Fault(kind)
        PROVE  /\ faults'[kind] = faults[kind] + 1
               /\ \A k \in FaultKind \ {kind} : faults'[k] = faults[k]
    BY <1>f DEF Fault, TypeOK
  <1>1. CASE Drop \/ ConnectNoAck
    <2>1. Fault("drop") /\ ~Stop /\ ~Crash
      BY <1>1 DEF Drop, ConnectNoAck, Stop, Crash, Forget, loopVars
    <2> QED BY <1>t, <1>f, <2>1
  <1>2. CASE Stop
    <2>1. Fault("stop") /\ ~Drop /\ ~ConnectNoAck /\ ~Crash
      BY <1>2 DEF Drop, ConnectNoAck, Stop, Crash, Forget, loopVars
    <2> QED BY <1>t, <1>f, <2>1
  <1>3. CASE Crash
    <2>1. Fault("crash") /\ ~Drop /\ ~ConnectNoAck /\ ~Stop
      BY <1>3 DEF Drop, ConnectNoAck, Stop, Crash, Forget, loopVars
    <2> QED BY <1>t, <1>f, <2>1
  <1>4. CASE CycleError
    <2>1. Fault("error") /\ ~Drop /\ ~ConnectNoAck /\ ~Stop /\ ~Crash
      BY <1>4 DEF CycleError, Drop, ConnectNoAck, Stop, Crash, Forget, loopVars
    <2> QED BY <1>t, <1>f, <2>1
  <1>5. CASE ~Drop /\ ~ConnectNoAck /\ ~Stop /\ ~Crash /\ ~CycleError
    <2>1. faults' = faults
      BY <1>5 DEF Next, LoopStep, NetworkStep, Environment, vars, Discover, ConnectOk,
             PublishHost, Gather, PublishState, ClearStation, SilenceStation, RunOnceDone,
             ClearDone, WatchdogPasses, GoSilent, SilenceDone, Sleep, ExitSilently,
             AnnounceOffline, ExitAnnounced, Restart, Heal, ClientNotices, BrokerNotices,
             Reconnect, BrokerTakes, PubAck, SetWeblog, Garble, Mend
    <2> QED BY <1>t, <1>5, <2>1
  <1> QED BY <1>1, <1>2, <1>3, <1>4, <1>5

LEMMA DropsCount ==
    ASSUME TypeOK, [Next]_vars, faults'["drop"] = 0
    PROVE  faults["drop"] = 0 /\ ~Drop /\ ~ConnectNoAck
  <1>1. "drop" \in FaultKind /\ faults["drop"] \in Nat
    BY DEF FaultKind, TypeOK
  <1> QED BY <1>1, FaultsCount

LEMMA WiredStep ==
    ASSUME TypeOK, Contact, Wired, [Next]_vars PROVE Wired'
  <1> USE DEF loopVars, clientVars, brokerVars
  <1>1. link' = "up" => session'
    <2>1. CASE Quiet \/ Giveup \/ UNCHANGED vars
      BY <2>1 DEF Quiet, Giveup, Discover, Gather, RunOnceDone, ClearDone, CycleError,
             WatchdogPasses, Sleep, Stop, ExitSilently, Forget, Restart, Drop, Heal,
             ClientNotices, SilenceDone, ExitAnnounced, Crash, ConnectNoAck, Disconnect,
             Wired, vars
    <2>2. CASE Edits
      BY <2>2, EditsIs DEF Wired
    <2>3. ASSUME NEW s \in Stations, PublishState(s) \/ ClearStation(s) \/ SilenceStation(s)
          PROVE  link' = "up" => session'
      BY <2>3 DEF PublishState, ClearStation, SilenceStation, Wired
    <2>4. CASE PublishHost \/ GoSilent \/ AnnounceOffline
      BY <2>4 DEF PublishHost, GoSilent, AnnounceOffline, Wired
    <2>5. CASE ConnectOk \/ Reconnect
      BY <2>5 DEF ConnectOk, Reconnect, NewSession
    <2>6. CASE BrokerNotices \/ BrokerTakes \/ PubAck
      BY <2>6 DEF BrokerNotices, BrokerTakes, PubAck, Wired
    <2> QED BY <2>1, <2>2, <2>3, <2>4, <2>5, <2>6, NextIs
  <1>2. pc' \in {"silent", "silence", "disconnect"} => connected'
    <2>1. CASE Quiet \/ Giveup \/ UNCHANGED vars
      BY <2>1 DEF Quiet, Giveup, Discover, Gather, RunOnceDone, ClearDone, CycleError,
             WatchdogPasses, Sleep, Stop, ExitSilently, Forget, Restart, Drop, Heal,
             ClientNotices, SilenceDone, ExitAnnounced, Crash, ConnectNoAck, Disconnect,
             Wired, vars
    <2>2. CASE Edits
      BY <2>2, EditsIs DEF Wired
    <2>3. ASSUME NEW s \in Stations, PublishState(s) \/ ClearStation(s) \/ SilenceStation(s)
          PROVE  pc' \in {"silent", "silence", "disconnect"} => connected'
      BY <2>3 DEF PublishState, ClearStation, SilenceStation, Wired
    <2>4. CASE PublishHost \/ GoSilent \/ AnnounceOffline
      BY <2>4 DEF PublishHost, GoSilent, AnnounceOffline, Wired
    <2>5. CASE ConnectOk \/ Reconnect \/ BrokerNotices \/ BrokerTakes \/ PubAck
      BY <2>5 DEF ConnectOk, Reconnect, BrokerNotices, BrokerTakes, PubAck, Wired
    <2> QED BY <2>1, <2>2, <2>3, <2>4, <2>5, NextIs
  <1>3. faults'["drop"] = 0 => (connected' <=> link' = "up")
    <2> SUFFICES ASSUME faults'["drop"] = 0 PROVE connected' <=> link' = "up"
      OBVIOUS
    <2>0. (connected <=> link = "up") /\ ~Drop /\ ~ConnectNoAck
      BY DropsCount DEF Wired
    <2>1. CASE Quiet \/ Giveup \/ UNCHANGED vars
      <3>1. CASE Heal \/ ClientNotices
        BY <2>0, <3>1 DEF Heal, ClientNotices, Contact
      <3>2. CASE Giveup
        BY <2>0, <3>2 DEF Giveup, SilenceDone, ExitAnnounced, Forget, Crash, Disconnect
      <3>3. CASE ExitSilently
        BY <2>0, <3>3 DEF ExitSilently, Forget
      <3>4. CASE (Quiet /\ ~Heal /\ ~ClientNotices /\ ~ExitSilently) \/ UNCHANGED vars
        <4>1. connected' = connected /\ link' = link
          BY <2>0, <3>4 DEF Quiet, Discover, Gather, RunOnceDone, ClearDone, CycleError,
                 WatchdogPasses, Sleep, Stop, Restart, vars
        <4> QED BY <2>0, <4>1
      <3> QED BY <2>1, <3>1, <3>2, <3>3, <3>4
    <2>2. CASE Edits
      BY <2>0, <2>2, EditsIs
    <2>3. ASSUME NEW s \in Stations, PublishState(s) \/ ClearStation(s) \/ SilenceStation(s)
          PROVE  connected' <=> link' = "up"
      BY <2>0, <2>3 DEF PublishState, ClearStation, SilenceStation
    <2>4. CASE PublishHost \/ GoSilent \/ AnnounceOffline
      BY <2>0, <2>4 DEF PublishHost, GoSilent, AnnounceOffline
    <2>5. CASE ConnectOk \/ Reconnect \/ BrokerNotices \/ BrokerTakes \/ PubAck
      BY <2>0, <2>5 DEF ConnectOk, Reconnect, BrokerNotices, BrokerTakes, PubAck
    <2> QED BY <2>1, <2>2, <2>3, <2>4, <2>5, NextIs
  <1> QED BY <1>1, <1>2, <1>3 DEF Wired

\* While the last words wait for their flush, nothing else is said.
LEMMA EndMoves ==
    ASSUME TypeOK, Contact, Wired, [Next]_vars, faults'["drop"] = 0,
           pc' \in {"silence", "disconnect"}
    PROVE  /\ Believes
           /\ \/ GoSilent \/ AnnounceOffline
              \/ pc' = pc /\ \/ \E s \in Stations : SilenceStation(s)
                             \/ batch' = batch /\ (BrokerTakes \/ PubAck)
                             \/ UNCHANGED <<batch, out, retained>>
  <1>0. faults["drop"] = 0 /\ ~Drop /\ ~ConnectNoAck /\ (connected <=> link = "up")
    BY DropsCount DEF Wired
  <1>1. CASE Quiet \/ Giveup
    BY <1>0, <1>1 DEF Quiet, Giveup, Discover, Gather, RunOnceDone, ClearDone, CycleError,
           WatchdogPasses, Sleep, Stop, ExitSilently, Forget, Restart, Heal, Contact,
           ClientNotices, SilenceDone, ExitAnnounced, Crash, Wired, loopVars
  <1>2. CASE Edits \/ UNCHANGED vars
    <2>1. UNCHANGED <<pc, batch, out, retained>>
      BY <1>2, EditsIs DEF vars, loopVars, clientVars, brokerVars
    <2> QED BY <1>0, <2>1 DEF Wired, Believes
  <1>3. ASSUME NEW s \in Stations, PublishState(s) \/ ClearStation(s) PROVE FALSE
    BY <1>3 DEF PublishState, ClearStation
  <1>4. ASSUME NEW s \in Stations, SilenceStation(s) PROVE Believes /\ pc' = pc
    BY <1>0, <1>4 DEF SilenceStation, Wired, Believes
  <1>5. CASE PublishHost \/ ConnectOk
    BY <1>5 DEF PublishHost, ConnectOk
  <1>6. CASE GoSilent \/ AnnounceOffline
    BY <1>0, <1>6 DEF GoSilent, AnnounceOffline, Wired, Believes
  <1>7. CASE Reconnect
    BY <1>0, <1>7 DEF Reconnect
  <1>8. CASE BrokerNotices
    BY <1>0, <1>8 DEF BrokerNotices, Wired, loopVars
  <1>9. CASE BrokerTakes \/ PubAck
    BY <1>9 DEF BrokerTakes, PubAck, loopVars, Believes
  <1> QED BY <1>1, <1>2, <1>3, <1>4, <1>5, <1>6, <1>7, <1>8, <1>9, NextIs

\* A last word stays the last word.
LEMMA EndStays ==
    ASSUME TypeOK, [Next]_vars, NEW t \in Topic, NEW p \in SUBSET Name,
           Settles(t, p), DeliveredOn(t),
           \/ BrokerTakes \/ PubAck \/ UNCHANGED <<out, retained>>
           \/ \E s \in Stations \ {t} : SilenceStation(s)
    PROVE  SettlesIn(out', retained', t, p)
  <1>1. ASSUME NEW s \in Stations \ {t}, SilenceStation(s)
        PROVE  SettlesIn(out', retained', t, p)
    <2>1. retained' = retained /\ out' = Publish(Tombstone(s))
      BY <1>1 DEF SilenceStation, brokerVars
    <2> QED BY <1>1, <2>1, StateMessage, SettlesPublish
  <1>2. CASE BrokerTakes
    BY <1>2, SettlesTaken
  <1>3. CASE PubAck
    BY <1>3, SettlesAcked
  <1>4. CASE UNCHANGED <<out, retained>>
    BY <1>4, SettlesSame
  <1> QED BY <1>1, <1>2, <1>3, <1>4

LEMMA LastWordsStep ==
    ASSUME TypeOK, Contact, Delivered, Wired, LastWords, [Next]_vars PROVE LastWords'
  <1> SUFFICES ASSUME faults'["drop"] = 0
               PROVE  /\ DeliveredOn("status")'
                      /\ pc' = "disconnect" =>
                            SettlesIn(out', retained', "status", {"offline"})
                      /\ pc' = "silence" =>
                            /\ SettlesIn(out', retained', "status", {})
                            /\ SettlesIn(out', retained', "host", {})
                            /\ \A s \in Stations \ batch' : SettlesIn(out', retained', s, {})
    BY DEF LastWords, Settles
  <1>0. faults["drop"] = 0 /\ (connected <=> link = "up") /\ LastWords
    BY DropsCount DEF Wired
  <1>t. /\ "status" \in Topic /\ "host" \in Topic /\ Stations \subseteq Topic
        /\ {} \in SUBSET Name /\ {"offline"} \in SUBSET Name
        /\ "status" \notin Stations /\ "host" \notin Stations
    BY DEF Topic, Name
  <1>d. \A t \in Topic : DeliveredOn(t)
    BY <1>0 DEF LastWords, Delivered
  <1>1. DeliveredOn("status")'
    <2>1. NoWill("status")
      <3> SUFFICES ASSUME BrokerNotices PROVE taken = 0
        BY DEF NoWill
      <3>1. out = <<>>
        BY <1>0 DEF BrokerNotices, Contact
      <3> QED BY <3>1 DEF TypeOK
    <2> QED BY <1>d, <1>t, <2>1, DeliveredOnStep
  <1>2. ASSUME pc' = "disconnect" PROVE SettlesIn(out', retained', "status", {"offline"})
    <2>1. CASE AnnounceOffline
      <3>1. retained' = retained /\ out' = Append(out, Msg("status", {"offline"}))
        BY <1>2, <2>1, EndMoves DEF AnnounceOffline, brokerVars, Publish
      <3> QED BY <1>t, <3>1, SettlesAppendSame DEF TypeOK
    <2>2. CASE ~AnnounceOffline
      <3>1. pc = "disconnect" /\ (BrokerTakes \/ PubAck \/ UNCHANGED <<out, retained>>)
        BY <1>2, <2>2, EndMoves DEF GoSilent, SilenceStation
      <3>2. Settles("status", {"offline"})
        BY <1>0, <3>1 DEF LastWords
      <3> QED BY <1>d, <1>t, <3>1, <3>2, EndStays
    <2> QED BY <2>1, <2>2
  <1>3. ASSUME pc' = "silence"
        PROVE  /\ SettlesIn(out', retained', "status", {})
               /\ SettlesIn(out', retained', "host", {})
               /\ \A s \in Stations \ batch' : SettlesIn(out', retained', s, {})
    <2>1. CASE GoSilent
      <3> DEFINE a == Append(out, Tombstone("status"))
      <3>1. retained' = retained /\ batch' = Stations
            /\ out' = out \o <<Tombstone("status"), Tombstone("host")>>
        BY <1>3, <2>1, EndMoves DEF GoSilent, brokerVars
      <3>2. a \in Seq(Message) /\ out' = Append(a, Tombstone("host"))
        BY <1>t, <3>1, ConcatTwo, AppendIs, TombstoneType DEF TypeOK
      <3>3. SettlesIn(a, retained, "status", {})
        BY <1>t, SettlesAppendSame DEF Tombstone, TypeOK
      <3> HIDE DEF a
      <3>m. /\ Tombstone("host") \in Message /\ Tombstone("host").topic # "status"
            /\ Tombstone("host") = Msg("host", {})
        BY <1>t, TombstoneType DEF Tombstone
      <3>4. SettlesIn(out', retained', "status", {})
        <4>1. SettlesIn(Append(a, Tombstone("host")), retained, "status", {})
          BY <3>2, <3>3, <3>m, SettlesAppendOther
        <4> QED BY <3>1, <3>2, <4>1
      <3>5. SettlesIn(out', retained', "host", {})
        <4>1. SettlesIn(Append(a, Msg("host", {})), retained, "host", {})
          BY <1>t, <3>2, SettlesAppendSame
        <4> QED BY <3>1, <3>2, <3>m, <4>1
      <3> QED BY <3>1, <3>4, <3>5
    <2>2. CASE ~GoSilent
      <3>0. pc = "silence"
        BY <1>3, <2>2, EndMoves DEF AnnounceOffline
      <3>1. \/ \E s \in Stations : SilenceStation(s)
            \/ batch' = batch /\ (BrokerTakes \/ PubAck \/ UNCHANGED <<out, retained>>)
        BY <1>3, <2>2, EndMoves DEF AnnounceOffline
      <3>2. /\ Settles("status", {}) /\ Settles("host", {})
            /\ \A s \in Stations \ batch : Settles(s, {})
        BY <1>0, <3>0 DEF LastWords
      <3>3. SettlesIn(out', retained', "status", {}) /\ SettlesIn(out', retained', "host", {})
        BY <1>d, <1>t, <3>1, <3>2, EndStays
      <3>4. ASSUME NEW s \in Stations \ batch' PROVE SettlesIn(out', retained', s, {})
        <4>1. CASE SilenceStation(s)
          <5>1. retained' = retained /\ out' = Append(out, Tombstone(s))
            BY <1>3, <4>1, EndMoves DEF SilenceStation, brokerVars, Publish
          <5> QED BY <1>t, <5>1, SettlesAppendSame DEF Tombstone, TypeOK
        <4>2. CASE ~SilenceStation(s)
          <5>1. s \in Stations \ batch
            BY <3>1, <3>4, <4>2 DEF SilenceStation
          <5>2. \/ BrokerTakes \/ PubAck \/ UNCHANGED <<out, retained>>
                \/ \E u \in Stations \ {s} : SilenceStation(u)
            BY <3>1, <4>2
          <5>3. s \in Topic /\ Settles(s, {}) /\ DeliveredOn(s)
            BY <1>d, <1>t, <3>2, <5>1
          <5> QED BY <1>t, <5>2, <5>3, EndStays
        <4> QED BY <4>1, <4>2
      <3> QED BY <3>3, <3>4
    <2> QED BY <2>1, <2>2
  <1> QED BY <1>1, <1>2, <1>3

\* What a flush leaves on the broker.
LEMMA FlushedTo ==
    ASSUME TypeOK, NEW t \in Topic, NEW p \in SUBSET Name, Settles(t, p), DeliveredOn(t),
           taken = Len(out)
    PROVE  retained[t] = p
  <1>1. CASE \A i \in 1..Len(out) : out[i].topic # t
    BY <1>1, MsgType DEF Settles, SettlesIn
  <1>2. CASE ~(\A i \in 1..Len(out) : out[i].topic # t)
    <2>1. PICK k \in 1..Len(out) : /\ out[k] = Msg(t, p)
                                   /\ \A j \in k + 1..Len(out) : out[j].topic # t
      BY <1>2 DEF Settles, SettlesIn
    <2>2. out[k].topic = t /\ out[k].payload = p
      BY <2>1, MsgType
    <2> QED BY <2>1, <2>2 DEF DeliveredOn
  <1> QED BY <1>1, <1>2

\* What can touch the session, the records and the loop's flag.
LEMMA SessionMoves ==
    ASSUME TypeOK, [Next]_vars
    PROVE  \/ SilenceDone \/ ExitAnnounced \/ ConnectOk \/ Reconnect \/ BrokerNotices
           \/ BrokerTakes
           \/ /\ UNCHANGED <<session, retained>>
              /\ ConnectNoAck \/ Crash \/ ExitSilently \/ connected' = connected
  <1>1. CASE Quiet /\ ~ExitSilently
    BY <1>1 DEF Quiet, Discover, Gather, RunOnceDone, ClearDone, CycleError, WatchdogPasses,
           Sleep, Stop, Restart, Drop, Heal, ClientNotices, loopVars, brokerVars
  <1>2. CASE ConnectNoAck \/ Crash \/ ExitSilently
    BY <1>2 DEF ConnectNoAck, Crash, ExitSilently, brokerVars
  <1>3. CASE Edits \/ UNCHANGED vars
    BY <1>3, EditsIs DEF vars, loopVars, brokerVars
  <1>4. ASSUME NEW s \in Stations, PublishState(s) \/ ClearStation(s) \/ SilenceStation(s)
        PROVE  UNCHANGED <<session, retained>> /\ connected' = connected
    BY <1>4 DEF PublishState, ClearStation, SilenceStation, brokerVars
  <1>5. CASE PublishHost \/ GoSilent \/ AnnounceOffline \/ PubAck
    BY <1>5 DEF PublishHost, GoSilent, AnnounceOffline, PubAck, loopVars, brokerVars
  <1> QED BY <1>1, <1>2, <1>3, <1>4, <1>5, NextIs DEF Giveup

\* How a process comes to stop, and to be gone.
LEMMA PcMoves ==
    ASSUME TypeOK, [Next]_vars
    PROVE  /\ pc' \in {"stopping", "disconnect"} => Stop \/ pc \in {"stopping", "disconnect"}
           /\ pc' = "off" => Crash \/ pc \in {"off", "stopping", "disconnect"}
  <1>1. CASE Quiet
    BY <1>1 DEF Quiet, Discover, Gather, RunOnceDone, ClearDone, CycleError, WatchdogPasses,
           Sleep, Stop, ExitSilently, Forget, Restart, Drop, Heal, ClientNotices, loopVars
  <1>2. CASE Giveup
    BY <1>2 DEF Giveup, SilenceDone, ExitAnnounced, Crash, Forget, ConnectNoAck
  <1>3. CASE Edits \/ UNCHANGED vars
    BY <1>3, EditsIs DEF vars, loopVars
  <1>4. ASSUME NEW s \in Stations, PublishState(s) \/ ClearStation(s) \/ SilenceStation(s)
        PROVE  pc' = pc
    BY <1>4 DEF PublishState, ClearStation, SilenceStation
  <1>5. CASE PublishHost \/ GoSilent \/ AnnounceOffline \/ ConnectOk
    BY <1>5 DEF PublishHost, GoSilent, AnnounceOffline, ConnectOk
  <1>6. CASE Reconnect \/ BrokerNotices \/ BrokerTakes \/ PubAck
    BY <1>6 DEF Reconnect, BrokerNotices, BrokerTakes, PubAck, loopVars
  <1> QED BY <1>1, <1>2, <1>3, <1>4, <1>5, <1>6, NextIs

LEMMA NoTraceStep ==
    ASSUME TypeOK, Contact, Delivered, Wired, LastWords, NoTrace, [Next]_vars
    PROVE  NoTrace'
  <1>t. /\ "status" \in Topic /\ {} \in SUBSET Name /\ {"offline"} \in SUBSET Name
        /\ {"drop", "crash", "stop"} \subseteq FaultKind
        /\ \A k \in FaultKind : faults[k] \in Nat
    BY DEF Topic, Name, FaultKind, TypeOK
  <1>g. \A k \in FaultKind : faults'[k] \in Nat /\ faults'[k] >= faults[k]
    BY FaultsCount
  <1>1. pc' \in {"stopping", "disconnect"} => faults'["stop"] > 0
    BY <1>t, <1>g, PcMoves, FaultsCount DEF NoTrace
  <1>2. pc' = "off" => faults'["stop"] + faults'["crash"] > 0
    <2> SUFFICES ASSUME pc' = "off" PROVE faults'["stop"] + faults'["crash"] > 0
      OBVIOUS
    <2>1. CASE Crash
      BY <1>t, <1>g, <2>1, FaultsCount
    <2>2. CASE pc \in {"off", "stopping", "disconnect"}
      <3>1. faults["stop"] + faults["crash"] > 0
        BY <1>t, <2>2 DEF NoTrace
      <3> QED BY <1>t, <1>g, <3>1
    <2> QED BY <2>1, <2>2, PcMoves
  <1>3. ASSUME faults'["drop"] = 0
        PROVE  /\ faults["drop"] = 0 /\ ~ConnectNoAck /\ (connected <=> link = "up")
               /\ \A t \in Topic : DeliveredOn(t)
    <2>1. faults["drop"] = 0 /\ ~ConnectNoAck
      BY <1>3, DropsCount
    <2> QED BY <2>1 DEF Wired, LastWords, Delivered
  \* What the two flushes before a disconnect leave.
  <1>4. ASSUME faults'["drop"] = 0, SilenceDone PROVE \A t \in Topic : retained'[t] = {}
    <2>1. /\ pc = "silence" /\ batch = {} /\ retained' = retained
          /\ link = "up" => taken = Len(out)
      BY <1>4 DEF SilenceDone, Disconnect
    <2>2. taken = Len(out)
      BY <1>3, <1>4, <2>1 DEF Wired
    <2>3. \A t \in Topic : Settles(t, {})
      BY <1>3, <1>4, <2>1 DEF LastWords, Topic
    <2> QED BY <1>3, <1>4, <1>t, <2>1, <2>2, <2>3, FlushedTo
  <1>5. ASSUME faults'["drop"] = 0, ExitAnnounced PROVE retained'["status"] = {"offline"}
    <2>1. pc = "disconnect" /\ retained' = retained /\ (link = "up" => taken = Len(out))
      BY <1>5 DEF ExitAnnounced, Disconnect
    <2>2. taken = Len(out) /\ Settles("status", {"offline"})
      BY <1>3, <1>5, <2>1 DEF Wired, LastWords
    <2> QED BY <1>3, <1>5, <1>t, <2>1, <2>2, FlushedTo
  <1>6. ASSUME faults'["drop"] = 0, ~session' PROVE retained'["status"] # {"online"}
    <2>1. CASE SilenceDone
      BY <1>4, <1>6, <1>t, <2>1
    <2>2. CASE ExitAnnounced
      BY <1>5, <1>6, <2>2
    <2>3. CASE ConnectOk \/ Reconnect
      BY <1>6, <2>3 DEF ConnectOk, Reconnect, NewSession
    <2>4. CASE BrokerNotices
      BY <1>t, <2>4 DEF BrokerNotices, TypeOK
    <2>5. CASE BrokerTakes
      BY <1>6, <2>5 DEF BrokerTakes, Wired
    <2>6. CASE UNCHANGED <<session, retained>>
      BY <1>3, <1>6, <2>6 DEF NoTrace
    <2> QED BY <2>1, <2>2, <2>3, <2>4, <2>5, <2>6, SessionMoves
  <1>7. ASSUME faults'["drop"] = 0, faults'["crash"] = 0, faults'["stop"] = 0, ~connected'
        PROVE  ~session' /\ \A t \in Topic : retained'[t] = {}
    <2>1. faults["crash"] = 0 /\ faults["stop"] = 0 /\ ~Crash
      BY <1>7, <1>t, <1>g, FaultsCount
    <2>2. pc \notin {"stopping", "disconnect"}
      BY <2>1 DEF NoTrace
    <2>3. ~connected => ~session /\ \A t \in Topic : retained[t] = {}
      BY <1>3, <1>7, <2>1 DEF NoTrace
    <2>4. CASE SilenceDone
      <3>1. connected
        BY <2>4 DEF SilenceDone, Wired
      <3>2. session' = FALSE
        BY <1>3, <1>7, <2>4, <3>1 DEF SilenceDone, Disconnect
      <3> QED BY <1>4, <1>7, <2>4, <3>2
    <2>5. ~ExitAnnounced /\ ~ExitSilently
      BY <2>2 DEF ExitAnnounced, ExitSilently
    <2>6. ~ConnectOk /\ ~Reconnect
      BY <1>7 DEF ConnectOk, Reconnect, loopVars
    <2>7. ~BrokerNotices /\ ~BrokerTakes
      <3>1. SUFFICES ASSUME BrokerNotices \/ BrokerTakes PROVE FALSE
        OBVIOUS
      <3>2. ~connected
        BY <1>7, <3>1 DEF BrokerNotices, BrokerTakes, loopVars
      <3> QED BY <1>3, <1>7, <2>3, <3>1, <3>2 DEF BrokerNotices, BrokerTakes
    <2>8. CASE UNCHANGED <<session, retained>> /\ connected' = connected
      BY <1>7, <2>3, <2>8
    <2> QED BY <1>3, <1>7, <2>1, <2>4, <2>5, <2>6, <2>7, <2>8, SessionMoves
  <1> QED BY <1>1, <1>2, <1>6, <1>7 DEF NoTrace

LEMMA EndInvInit == Init => EndInv
  <1> SUFFICES ASSUME Init PROVE EndInv
    OBVIOUS
  <1>1. Wired
    BY DEF Init, Wired
  <1>2. LastWords
    BY DEF Init, LastWords, DeliveredOn
  <1>3. NoTrace
    BY DEF Init, NoTrace, Topic
  <1> QED BY <1>1, <1>2, <1>3 DEF EndInv

LEMMA EndInvStep == LoopInv /\ EndInv /\ [Next]_vars => EndInv'
  BY WiredStep, LastWordsStep, NoTraceStep DEF LoopInv, EndInv

-----------------------------------------------------------------------------
(* The theorems. *)

LEMMA LoopInvInit == Init => LoopInv
  <1> SUFFICES ASSUME Init PROVE LoopInv
    OBVIOUS
  <1>1. TypeOK
    BY TypeInit
  <1>2. OpenOnly
    BY DEF Init, OpenOnly, Publishable, PublishableIn
  <1>3. NeverOpenNeverNamed
    BY DEF Init, NeverOpenNeverNamed
  <1>4. Contact
    BY DEF Init, Contact
  <1>5. Delivered /\ ClearedIsErased
    BY DEF Init, Delivered, DeliveredOn, ClearedIsErased
  <1> QED BY <1>1, <1>2, <1>3, <1>4, <1>5 DEF LoopInv

LEMMA LoopInvStep == LoopInv /\ [Next]_vars => LoopInv'
  BY TypeStep, OpenOnlyStep, NamedStep, ContactStep, DeliveredStep, ClearedStep
     DEF LoopInv

LEMMA LoopInvariant == Spec => []LoopInv
  BY LoopInvInit, LoopInvStep, PTL DEF Spec

\* A station that never looked publishable is named by no payload, on the broker or
\* on its way there: not by run_once's records, and not by the host record.
THEOREM NeverNamed == Spec => []NeverOpenNeverNamed
  <1>1. LoopInv => NeverOpenNeverNamed
    BY DEF LoopInv
  <1> QED BY <1>1, LoopInvariant, PTL

\* A host none of whose stations ever looked publishable never opens a session and
\* leaves no record: run_loop connects only after its first consenting discovery.
THEOREM NoContact == Spec => []NeverOpenNoContact
  <1>1. LoopInv => NeverOpenNoContact
    BY DEF LoopInv, Contact, NeverOpenNoContact
  <1> QED BY <1>1, LoopInvariant, PTL

\* A station run_loop keeps in `cleared`, and did not publish since, is erased on the
\* broker or its tombstone is the last word in flight, across every reconnection.
THEOREM Erased == Spec => []ClearedIsErased
  <1>1. LoopInv => ClearedIsErased
    BY DEF LoopInv
  <1> QED BY <1>1, LoopInvariant, PTL

\* A cycle that nothing disturbs ends with the host shown online, the host record naming
\* exactly the stations that consent, and a record of each of them, however the messages
\* and acknowledgements of the cycles before it, and the Last Wills, came in between.
THEOREM QuietCyclesPublish == Spec => []QuietCyclePublishes
  <1>1. Spec => [](LoopInv /\ QuietInv)
    <2>1. Init => LoopInv /\ QuietInv
      BY LoopInvInit, QuietInvInit
    <2>2. LoopInv /\ QuietInv /\ [Next]_vars => (LoopInv /\ QuietInv)'
      BY LoopInvStep, QuietInvStep
    <2> QED BY <2>1, <2>2, PTL DEF Spec
  <1>2. LoopInv /\ QuietInv => QuietCyclePublishes
    BY QuietInvShows
  <1> QED BY <1>1, <1>2, PTL

\* As long as the wire holds, go_silent and disconnect leave the broker as they promise:
\* no session without its last word on the status topic, and nothing at all of a host that
\* has gone silent, whenever consent came and went during the cycle.
THEOREM EndsAreComplete == Spec => []EndIsComplete
  <1>1. Spec => [](LoopInv /\ EndInv)
    <2>1. Init => LoopInv /\ EndInv
      BY LoopInvInit, EndInvInit
    <2>2. LoopInv /\ EndInv /\ [Next]_vars => (LoopInv /\ EndInv)'
      BY LoopInvStep, EndInvStep
    <2> QED BY <2>1, <2>2, PTL DEF Spec
  <1>2. EndInv => EndIsComplete
    BY DEF EndInv, NoTrace, EndIsComplete
  <1> QED BY <1>1, <1>2, PTL

=============================================================================
