----------------------------- MODULE MqttClient -----------------------------
(***************************************************************************)
(* The MQTT client shared by the bridge and the telemetry service          *)
(* (shared/mqtt_client.py, class LightMQTTClient).                         *)
(*                                                                         *)
(* Three kinds of threads meet in it: the connecting thread (start() runs  *)
(* the first _connect, the reconnect thread every later one), the network  *)
(* loop of the current paho client, which runs the callbacks one at a      *)
(* time, and the threads that subscribe and unsubscribe.  The generation   *)
(* counters _reconnect_generation and _reconnect_seen_generation are only  *)
(* ever compared for equality, so signal stands for their difference.      *)
(***************************************************************************)
EXTENDS Naturals

CONSTANT Topics

VARIABLES broker,      \* how the broker takes connections (environment)
          link,        \* the current paho client has a session (environment)
          subs,        \* topics of that session, at the broker (environment)
          client,      \* the last paho client built and not torn down
          connected,   \* _mqtt_connected
          signal,      \* _reconnect_generation # _reconnect_seen_generation
          conn,        \* where the connecting thread is
          callback,    \* where the network loop is in _on_connect
          resub,       \* _resubscribe_all: topics still to subscribe
          handlers,    \* the topics of _message_handlers
          caller,      \* where the thread that (un)subscribes to a topic is
          stop         \* progress of stop()

sessionVars == <<broker, link, subs>>
loopVars    == <<callback, resub>>
topicVars   == <<handlers, caller>>
vars == <<sessionVars, client, connected, signal, conn, loopVars, topicVars, stop>>

(* "built" and "loop" are in _client, without and with a network loop;     *)
(* "taken" and "takenLoop" have been removed from it to be torn down.      *)
Clients == {"none", "built", "loop", "taken", "takenLoop"}
HasClient == client \in {"built", "loop"}
Looping   == client \in {"loop", "takenLoop"}

ConnStages == {"off", "detach", "teardown", "build", "connecting", "awaiting", "failed",
               "waiting", "exited"}
CallerStages == {"idle", "subCheck", "subSend", "unsubCheck", "unsubSend"}

TypeOK ==
    /\ broker \in {"up", "refusing", "down"} /\ link \in BOOLEAN /\ subs \subseteq Topics
    /\ client \in Clients
    /\ connected \in BOOLEAN /\ signal \in BOOLEAN
    /\ conn \in ConnStages
    /\ callback \in {"none", "entered", "connected", "resubscribing"}
    /\ callback # "none" \/ link => Looping
    /\ resub \subseteq Topics
    /\ handlers \subseteq Topics
    /\ caller \in [Topics -> CallerStages]
    /\ stop \in {"running", "shutdown", "teardown", "stopped"}

Init ==
    /\ broker \in {"up", "down"} /\ link = FALSE /\ subs = {}
    /\ client = "none" /\ connected = FALSE /\ signal = FALSE
    /\ conn = "off"
    /\ callback = "none" /\ resub = {}
    /\ handlers = {} /\ caller = [t \in Topics |-> "idle"]
    /\ stop = "running"

Shutdown == stop # "running"

-----------------------------------------------------------------------------
(* The connecting thread: start, _connect and _reconnect_loop. *)

Start ==
    /\ conn = "off" /\ conn' = "detach"
    /\ ~Shutdown
    /\ UNCHANGED <<sessionVars, client, connected, signal, loopVars, topicVars, stop>>

Take == client' = CASE client = "built" -> "taken"
                    [] client = "loop" -> "takenLoop"
                    [] OTHER -> client

Detach ==
    /\ conn = "detach"
    /\ IF Shutdown THEN conn' = "failed" /\ UNCHANGED client
                   ELSE conn' = "teardown" /\ Take
    /\ UNCHANGED <<sessionVars, connected, signal, loopVars, topicVars, stop>>

(* Mistake: loop_stop() does not wait. *)
TeardownAtOnce ==
    /\ client' = "none"
    /\ link' = FALSE /\ subs' = {}
    /\ connected' = (connected /\ client # "takenLoop")
    /\ caller' = [t \in Topics |-> IF caller[t] \in {"subSend", "unsubSend"}
                                   THEN "idle" ELSE caller[t]]
    /\ UNCHANGED <<broker, loopVars, handlers>>

(* disconnect() ends the session cleanly, which clears _mqtt_connected     *)
(* through _on_disconnect; loop_stop() waits for a callback under way.     *)
(* A call still made on a client torn down has no effect.                  *)
Teardown ==
    /\ callback = "none"
    /\ client' = "none"
    /\ link' = FALSE /\ subs' = {}
    /\ connected' = (connected /\ client # "takenLoop")
    /\ caller' = [t \in Topics |-> IF caller[t] \in {"subSend", "unsubSend"}
                                   THEN "idle" ELSE caller[t]]
    /\ UNCHANGED <<broker, loopVars, handlers>>

TearDownOld ==
    /\ conn = "teardown" /\ conn' = "build"
    /\ Teardown
    /\ UNCHANGED <<signal, stop>>

(* That a client cannot be built (line 446) is left out: the attempt fails *)
(* without a network loop, as in ConnectRaises.                            *)
Build ==
    /\ conn = "build"
    /\ IF Shutdown THEN conn' = "failed" /\ UNCHANGED client
                   ELSE conn' = "connecting" /\ client' = "built"
    /\ UNCHANGED <<sessionVars, connected, signal, loopVars, topicVars, stop>>

(* client.connect() raises: the client never gets a network loop. *)
ConnectRaises ==
    /\ conn = "connecting" /\ broker = "down"
    /\ conn' = "failed"
    /\ UNCHANGED <<sessionVars, client, connected, signal, loopVars, topicVars, stop>>

ConnectOpens ==
    /\ conn = "connecting" /\ broker # "down"
    /\ conn' = "awaiting"
    /\ client' = IF client = "built" THEN "loop" ELSE "takenLoop"
    /\ UNCHANGED <<sessionVars, connected, signal, loopVars, topicVars, stop>>

(* Mistake: the signals of the attempt are taken as answered by it. *)
AwaitedClearing ==
    /\ conn = "awaiting"
    /\ conn' = IF connected THEN "waiting" ELSE "failed"
    /\ signal' = FALSE
    /\ UNCHANGED <<sessionVars, client, connected, loopVars, topicVars, stop>>

(* The wait for _on_connect ends in time or not; only a failure waits      *)
(* before looking at the signal again.                                     *)
Awaited ==
    /\ conn = "awaiting"
    /\ conn' = IF connected THEN "waiting" ELSE "failed"
    /\ UNCHANGED <<sessionVars, client, connected, signal, loopVars, topicVars, stop>>

Backoff ==
    /\ conn = "failed" /\ conn' = "waiting"
    /\ UNCHANGED <<sessionVars, client, connected, signal, loopVars, topicVars, stop>>

SignalSeen ==
    /\ conn = "waiting" /\ signal /\ ~Shutdown
    /\ signal' = FALSE
    /\ conn' = IF connected THEN "waiting" ELSE "detach"
    /\ UNCHANGED <<sessionVars, client, connected, loopVars, topicVars, stop>>

(* Mistake: the wait for a signal does not look at the shutdown event. *)
ExitUnstarted ==
    /\ conn = "off" /\ Shutdown
    /\ conn' = "exited"
    /\ UNCHANGED <<sessionVars, client, connected, signal, loopVars, topicVars, stop>>

Exit ==
    /\ conn \in {"off", "waiting"} /\ Shutdown
    /\ conn' = "exited"
    /\ UNCHANGED <<sessionVars, client, connected, signal, loopVars, topicVars, stop>>

ConnectingThread == \/ Detach \/ TearDownOld \/ Build \/ ConnectRaises \/ ConnectOpens \/ Awaited
                    \/ Backoff \/ SignalSeen \/ Exit

-----------------------------------------------------------------------------
(* The network loop of the client; it reconnects by itself as long as it   *)
(* runs and disconnect() has not been called.                              *)

Listening == /\ Looping /\ callback = "none"
             /\ conn # "teardown" /\ stop # "teardown"

Connack ==
    /\ Listening /\ broker = "up" /\ ~link
    /\ link' = TRUE /\ subs' = {}
    /\ callback' = "entered"
    /\ UNCHANGED <<broker, client, connected, signal, conn, resub, topicVars, stop>>

(* _on_connect with a failure code. *)
ConnackRefused ==
    /\ Listening /\ broker = "refusing" /\ ~link
    /\ connected' = FALSE /\ signal' = TRUE
    /\ UNCHANGED <<sessionVars, client, conn, loopVars, topicVars, stop>>

(* Mistake: the event is left to the connecting thread to set. *)
SetNothing ==
    /\ callback = "entered" /\ callback' = "connected"
    /\ UNCHANGED <<sessionVars, client, connected, signal, conn, resub, topicVars, stop>>

(* _on_connect: first the event, then the snapshot of the topics. *)
SetConnected ==
    /\ callback = "entered" /\ callback' = "connected"
    /\ connected' = TRUE
    /\ UNCHANGED <<sessionVars, client, signal, conn, resub, topicVars, stop>>

(* Mistake: the broker is trusted to remember the subscriptions. *)
SnapshotNothing ==
    /\ callback = "connected" /\ callback' = "resubscribing"
    /\ resub' = {}
    /\ UNCHANGED <<sessionVars, client, connected, signal, conn, topicVars, stop>>

SnapshotTopics ==
    /\ callback = "connected" /\ callback' = "resubscribing"
    /\ resub' = IF HasClient /\ connected THEN handlers ELSE {}
    /\ UNCHANGED <<sessionVars, client, connected, signal, conn, topicVars, stop>>

(* A subscribe() on a client with a session is taken to succeed; the code  *)
(* logs a failure (line 300) and leaves the topic out of the session.      *)
Resubscribe ==
    /\ callback = "resubscribing"
    /\ \/ \E t \in resub : /\ resub' = resub \ {t}
                           /\ subs' = subs \cup {t}
                           /\ UNCHANGED callback
       \/ /\ resub = {}
          /\ callback' = "none"
          /\ UNCHANGED <<resub, subs>>
    /\ UNCHANGED <<broker, link, client, connected, signal, conn, topicVars, stop>>

(* The session is lost: _on_disconnect with a failure code. *)
LinkLost ==
    /\ Listening /\ link
    /\ link' = FALSE /\ subs' = {}
    /\ connected' = FALSE /\ signal' = TRUE
    /\ UNCHANGED <<broker, client, conn, loopVars, topicVars, stop>>

NetworkLoop == \/ Connack \/ ConnackRefused \/ SetConnected \/ SnapshotTopics
               \/ Resubscribe \/ (broker # "up" /\ LinkLost)

-----------------------------------------------------------------------------
(* subscribe and unsubscribe: the table first, then the current client. *)

Subscribe(t) ==
    /\ caller[t] = "idle" /\ t \notin handlers
    /\ handlers' = handlers \cup {t}
    /\ caller' = [caller EXCEPT ![t] = "subCheck"]
    /\ UNCHANGED <<sessionVars, client, connected, signal, conn, loopVars, stop>>

Unsubscribe(t) ==
    /\ caller[t] = "idle" /\ t \in handlers
    /\ handlers' = handlers \ {t}
    /\ caller' = [caller EXCEPT ![t] = "unsubCheck"]
    /\ UNCHANGED <<sessionVars, client, connected, signal, conn, loopVars, stop>>

(* The client is read under the lock and is_connected after it. *)
CheckClient(t) ==
    /\ caller[t] \in {"subCheck", "unsubCheck"}
    /\ caller' = [caller EXCEPT ![t] =
                    IF ~HasClient \/ ~connected THEN "idle"
                    ELSE IF @ = "subCheck" THEN "subSend" ELSE "unsubSend"]
    /\ UNCHANGED <<sessionVars, client, connected, signal, conn, loopVars, handlers, stop>>

Send(t) ==
    /\ \/ caller[t] = "subSend" /\ subs' = IF link THEN subs \cup {t} ELSE subs
       \/ caller[t] = "unsubSend" /\ subs' = subs \ {t}
    /\ caller' = [caller EXCEPT ![t] = "idle"]
    /\ UNCHANGED <<broker, link, client, connected, signal, conn, loopVars, handlers, stop>>

-----------------------------------------------------------------------------
(* stop(): wakes and joins the reconnect thread, then tears down. *)

StopBegins ==
    /\ stop = "running" /\ stop' = "shutdown"
    /\ UNCHANGED <<sessionVars, client, connected, signal, conn, loopVars, topicVars>>

(* The join is given up when the thread is stuck in client.connect().      *)
StopDetaches ==
    /\ stop = "shutdown" /\ stop' = "teardown"
    /\ conn \in {"exited", "connecting"}
    /\ Take
    /\ connected' = FALSE
    /\ UNCHANGED <<sessionVars, signal, conn, loopVars, topicVars>>

(* disconnect() on a client that has not opened its connection is in vain. *)
StopTearsDown ==
    /\ stop = "teardown" /\ stop' = "stopped"
    /\ \/ Looping /\ Teardown
       \/ ~Looping /\ UNCHANGED <<sessionVars, client, connected, loopVars, topicVars>>
    /\ UNCHANGED <<signal, conn>>

(* The broker goes away, comes back, refuses the credentials. *)
BrokerChanges ==
    /\ broker' \in {"up", "refusing", "down"} \ {broker}
    /\ UNCHANGED <<link, subs, client, connected, signal, conn, loopVars, topicVars, stop>>

Next == \/ Start \/ ConnectingThread
        \/ Connack \/ ConnackRefused \/ SetConnected \/ SnapshotTopics \/ Resubscribe
        \/ LinkLost
        \/ \E t \in Topics : Subscribe(t) \/ Unsubscribe(t) \/ CheckClient(t) \/ Send(t)
        \/ StopBegins \/ StopDetaches \/ StopTearsDown
        \/ BrokerChanges

(* The connecting thread, the network loop and stop() run; the loop sooner *)
(* or later notices a broker that is gone.                                 *)
Fairness == /\ WF_vars(ConnectingThread)
            /\ WF_vars(NetworkLoop)
            /\ WF_vars(StopDetaches \/ StopTearsDown)
            /\ WF_vars(Start)

Spec == Init /\ [][Next]_vars /\ Fairness

-----------------------------------------------------------------------------
(* Once connected, with no callback and no caller of the topic under way,  *)
(* the session is subscribed to every topic that has a handler: a topic    *)
(* added while the client reconnects is not lost between the snapshot of   *)
(* the topics and the check of is_connected.  (No subscribe() fails.)      *)
TopicsSubscribed ==
    connected /\ link /\ HasClient /\ callback = "none" =>
        \A t \in handlers : caller[t] = "idle" => t \in subs

(* A signal raised by a lost or refused session is never lost: the thread  *)
(* tries to connect again, or finds the client connected, or is stopped.   *)
SignalIsActedOn ==
    signal ~> Shutdown \/ connected \/ conn = "detach"

(* As long as the client keeps getting a network loop it gets its session  *)
(* back from a broker that stays up.                                       *)
LoopingClientReconnects ==
    <>[](broker = "up" /\ ~Shutdown) /\ []<>Looping => []<>connected

(* stop() ends, however far a connection attempt under way has come.       *)
StopEnds == stop = "shutdown" ~> stop = "stopped"

-----------------------------------------------------------------------------
(* What the code's documentation says and the code does not do.            *)

(* mqtt_client.py:59: "MQTT client with automatic reconnection".           *)
Reconnects ==
    <>[](broker = "up" /\ ~Shutdown) => <>connected
=============================================================================
