-------------------------- MODULE MqttClientProofs --------------------------
(***************************************************************************)
(* Proofs about the shared MQTT client: its invariants, for any topics.    *)
(***************************************************************************)
EXTENDS MqttClient, TLAPS

(* The thread that builds a client has torn down the one before.           *)
BuildsAlone == conn \in {"build", "connecting"} => ~Looping

(* A topic being unsubscribed has left the table.                          *)
LeavingHasLeft == \A t \in Topics :
    caller[t] \in {"unsubCheck", "unsubSend"} => t \notin handlers

(* A topic with a handler is subscribed in a session the client knows of,  *)
(* unless the callback of that session has yet to reach it.                *)
Reached(t) ==
    \/ t \in subs
    \/ callback \in {"entered", "connected"}
    \/ callback = "resubscribing" /\ t \in resub
TopicsReached == connected /\ link /\ HasClient =>
    \A t \in handlers : caller[t] = "idle" => Reached(t)

Inv == TypeOK /\ BuildsAlone /\ LeavingHasLeft /\ TopicsReached

LEMMA InitInv == Init => Inv
BY DEF Init, Inv, TypeOK, BuildsAlone, LeavingHasLeft, TopicsReached, Clients, ConnStages,
       CallerStages, Looping

-----------------------------------------------------------------------------
(* The connecting thread. *)
LEMMA ConnectingStep == Inv /\ (Start \/ ConnectingThread) => Inv'
<1> SUFFICES ASSUME Inv, Start \/ ConnectingThread PROVE Inv'
  OBVIOUS
<1> USE DEF Inv, BuildsAlone, LeavingHasLeft, TopicsReached, Reached, Looping, HasClient,
            sessionVars, loopVars, topicVars
<1>1. CASE Start
  BY <1>1 DEF Start, TypeOK, ConnStages
<1>2. CASE Detach
  BY <1>2 DEF Detach, Take, TypeOK, ConnStages, Clients
<1>3. CASE TearDownOld
  <2>1. TypeOK'
    BY <1>3 DEF TearDownOld, Teardown, TypeOK, ConnStages, Clients, CallerStages
  <2>2. BuildsAlone' /\ LeavingHasLeft' /\ TopicsReached'
    BY <1>3 DEF TearDownOld, Teardown, TypeOK
  <2> QED BY <2>1, <2>2
<1>4. CASE Build
  BY <1>4 DEF Build, TypeOK, ConnStages, Clients
<1>5. CASE ConnectRaises \/ Awaited \/ Backoff
  BY <1>5 DEF ConnectRaises, Awaited, Backoff, TypeOK, ConnStages
<1>6. CASE ConnectOpens
  BY <1>6 DEF ConnectOpens, TypeOK, ConnStages, Clients
<1>7. CASE SignalSeen
  BY <1>7 DEF SignalSeen, TypeOK, ConnStages
<1>8. CASE Exit
  BY <1>8 DEF Exit, TypeOK, ConnStages
<1> QED BY <1>1, <1>2, <1>3, <1>4, <1>5, <1>6, <1>7, <1>8 DEF ConnectingThread

(* The network loop. *)
LEMMA LoopStep ==
  Inv /\ (Connack \/ ConnackRefused \/ SetConnected \/ SnapshotTopics \/ Resubscribe \/ LinkLost) => Inv'
<1> SUFFICES ASSUME Inv,
                    Connack \/ ConnackRefused \/ SetConnected \/ SnapshotTopics \/ Resubscribe \/ LinkLost
             PROVE  Inv'
  OBVIOUS
<1> USE DEF Inv, BuildsAlone, LeavingHasLeft, TopicsReached, Reached, Looping, HasClient,
            sessionVars, loopVars, topicVars, Listening
<1>1. CASE Connack
  BY <1>1 DEF Connack, TypeOK
<1>2. CASE ConnackRefused \/ LinkLost
  BY <1>2 DEF ConnackRefused, LinkLost, TypeOK
<1>3. CASE SetConnected
  BY <1>3 DEF SetConnected, TypeOK
<1>4. CASE SnapshotTopics
  BY <1>4 DEF SnapshotTopics, TypeOK
<1>5. CASE Resubscribe
  <2>1. CASE \E t \in resub : /\ resub' = resub \ {t} /\ subs' = subs \cup {t}
                              /\ UNCHANGED callback
    BY <1>5, <2>1 DEF Resubscribe, TypeOK
  <2>2. CASE resub = {} /\ callback' = "none" /\ UNCHANGED <<resub, subs>>
    BY <1>5, <2>2 DEF Resubscribe, TypeOK
  <2> QED BY <1>5, <2>1, <2>2 DEF Resubscribe
<1> QED BY <1>1, <1>2, <1>3, <1>4, <1>5

(* The callers of subscribe and unsubscribe. *)
LEMMA CallerStep ==
  ASSUME Inv, NEW t \in Topics, Subscribe(t) \/ Unsubscribe(t) \/ CheckClient(t) \/ Send(t)
  PROVE  Inv'
<1> USE DEF Inv, BuildsAlone, LeavingHasLeft, TopicsReached, Reached, Looping, HasClient,
            sessionVars, loopVars, topicVars
<1>1. CASE Subscribe(t)
  BY <1>1 DEF Subscribe, TypeOK, CallerStages
<1>2. CASE Unsubscribe(t)
  BY <1>2 DEF Unsubscribe, TypeOK, CallerStages
<1>3. CASE CheckClient(t)
  BY <1>3 DEF CheckClient, TypeOK, CallerStages
<1>4. CASE Send(t)
  BY <1>4 DEF Send, TypeOK, CallerStages
<1> QED BY <1>1, <1>2, <1>3, <1>4

(* stop() and the broker. *)
LEMMA StopStep ==
  Inv /\ (StopBegins \/ StopDetaches \/ StopTearsDown \/ BrokerChanges) => Inv'
<1> SUFFICES ASSUME Inv, StopBegins \/ StopDetaches \/ StopTearsDown \/ BrokerChanges
             PROVE  Inv'
  OBVIOUS
<1> USE DEF Inv, BuildsAlone, LeavingHasLeft, TopicsReached, Reached, Looping, HasClient,
            sessionVars, loopVars, topicVars
<1>1. CASE StopBegins \/ BrokerChanges
  BY <1>1 DEF StopBegins, BrokerChanges, TypeOK
<1>2. CASE StopDetaches
  BY <1>2 DEF StopDetaches, Take, TypeOK, Clients
<1>3. CASE StopTearsDown
  <2>1. CASE Looping /\ Teardown
    <3>1. TypeOK'
      BY <1>3, <2>1 DEF StopTearsDown, Teardown, TypeOK, Clients, CallerStages
    <3>2. BuildsAlone' /\ LeavingHasLeft' /\ TopicsReached'
      BY <1>3, <2>1 DEF StopTearsDown, Teardown, TypeOK
    <3> QED BY <3>1, <3>2
  <2>2. CASE ~Looping /\ UNCHANGED <<sessionVars, client, connected, loopVars, topicVars>>
    BY <1>3, <2>2 DEF StopTearsDown, TypeOK
  <2> QED BY <1>3, <2>1, <2>2 DEF StopTearsDown
<1> QED BY <1>1, <1>2, <1>3

LEMMA StepInv == Inv /\ [Next]_vars => Inv'
<1>1. Inv /\ UNCHANGED vars => Inv'
  BY DEF Inv, TypeOK, BuildsAlone, LeavingHasLeft, TopicsReached, Reached, Looping, HasClient,
         vars, sessionVars, loopVars, topicVars
<1> QED BY <1>1, ConnectingStep, LoopStep, CallerStep, StopStep DEF Next

-----------------------------------------------------------------------------
(* Every variable keeps its type, and there is a session or a callback     *)
(* only as long as the client has a network loop, for any topics.          *)
THEOREM TypeCorrect == Spec => []TypeOK
<1>1. Inv => TypeOK
  BY DEF Inv
<1> QED BY <1>1, InitInv, StepInv, PTL DEF Spec

(* A connected client whose callbacks and callers are through is           *)
(* subscribed to every topic with a handler, for any topics.               *)
THEOREM Subscribed == Spec => []TopicsSubscribed
<1>1. Inv => TopicsSubscribed
  BY DEF Inv, TopicsReached, Reached, TopicsSubscribed
<1> QED BY <1>1, InitInv, StepInv, PTL DEF Spec
=============================================================================
