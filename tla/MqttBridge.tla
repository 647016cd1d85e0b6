----------------------------- MODULE MqttBridge -----------------------------
(***************************************************************************)
(* frontend/mqtt-bridge/mqtt_broker_bridge.py: a process with one MQTT     *)
(* client on the broker of the space and one on the remote broker.  Each   *)
(* client has a network thread that runs its callbacks; a message that     *)
(* comes in on one side is published on the other.  Two flags, one per     *)
(* side, are to keep it from coming back.                                  *)
(*                                                                         *)
(* The brokers are external.  As MQTT 3.1.1 has it they deliver a client's *)
(* own messages to its subscription too, and hand on the retain flag only  *)
(* with what they had retained when the client subscribed.  One topic.     *)
(***************************************************************************)
EXTENDS Naturals, Sequences, FiniteSets

CONSTANTS
  Messages,       \* what the clients of the brokers publish, each once
  MaxSubscribes   \* connections of the bridge after its start, a bound

ASSUME BridgeAssumption == MaxSubscribes \in Nat /\ "none" \notin Messages

Sides == {"local", "remote"}
Other(s) == IF s = "local" THEN "remote" ELSE "local"
None == "none"

VARIABLES
  connected,     \* is the bridge's client connected to the broker of a side?
  inbox,         \* deliveries to that client
  outbox,        \* what it has still to send to its broker
  handling,      \* what its callback is forwarding
  forward_from,  \* forward_from_local, forward_from_remote
  retained,      \* the retained message of a broker
  origin,        \* the side a message was published on (history)
  subscribes     \* how often a client has subscribed again (bound, history)

brokerVars == <<retained, origin>>
vars == <<connected, inbox, outbox, handling, forward_from, brokerVars, subscribes>>

Packets == [msg : Messages, retain : BOOLEAN]
Idle == [msg |-> None, retain |-> FALSE]

Init ==
  /\ connected = [s \in Sides |-> TRUE]
  /\ inbox = [s \in Sides |-> <<>>] /\ outbox = [s \in Sides |-> <<>>]
  /\ handling = [s \in Sides |-> Idle]
  /\ forward_from = [s \in Sides |-> TRUE]
  /\ retained = [s \in Sides |-> None]
  /\ origin = [m \in Messages |-> None]
  /\ subscribes = 0

(***************************************************************************)
(* The brokers.                                                            *)
(***************************************************************************)
BrokerPublish(s, p) ==
  /\ retained' = IF p.retain THEN [retained EXCEPT ![s] = p.msg] ELSE retained
  /\ inbox' = IF connected[s]
              THEN [inbox EXCEPT ![s] = Append(@, [p EXCEPT !.retain = FALSE])]
              ELSE inbox

\* Another client of the broker publishes.
ClientPublish(s, m, retain) ==
  /\ origin[m] = None
  /\ origin' = [origin EXCEPT ![m] = s]
  /\ BrokerPublish(s, [msg |-> m, retain |-> retain])
  /\ UNCHANGED <<connected, outbox, handling, forward_from, subscribes>>

\* The connection breaks.  What was delivered is lost, what was to be sent is
\* lost or, at QoS 1, kept for the next connection.
Disconnect(s) ==
  /\ connected[s]
  /\ connected' = [connected EXCEPT ![s] = FALSE]
  /\ inbox' = [inbox EXCEPT ![s] = <<>>]
  /\ outbox' \in {outbox, [outbox EXCEPT ![s] = <<>>]}
  /\ UNCHANGED <<handling, forward_from, brokerVars, subscribes>>

(***************************************************************************)
(* The bridge.                                                             *)
(***************************************************************************)

\* _on_*_connect() subscribes, and the broker delivers what it retains.
Subscribe(s) ==
  /\ ~connected[s] /\ subscribes < MaxSubscribes
  /\ connected' = [connected EXCEPT ![s] = TRUE]
  /\ inbox' = IF retained[s] = None THEN inbox
              ELSE [inbox EXCEPT ![s] = <<[msg |-> retained[s], retain |-> TRUE]>>]
  /\ subscribes' = subscribes + 1
  /\ UNCHANGED <<outbox, handling, forward_from, brokerVars>>

\* The start of _on_*_message().
Ignore(s) ==
  /\ handling[s] = Idle /\ inbox[s] # <<>>
  /\ ~forward_from[s] \/ ~connected[Other(s)]
  /\ inbox' = [inbox EXCEPT ![s] = Tail(@)]
  /\ UNCHANGED <<connected, outbox, handling, forward_from, brokerVars, subscribes>>

Forward(s) ==
  /\ handling[s] = Idle /\ inbox[s] # <<>>
  /\ forward_from[s] /\ connected[Other(s)]
  /\ inbox' = [inbox EXCEPT ![s] = Tail(@)]
  /\ handling' = [handling EXCEPT ![s] = Head(inbox[s])]
  /\ forward_from' = [forward_from EXCEPT ![Other(s)] = FALSE]
  /\ UNCHANGED <<connected, outbox, brokerVars, subscribes>>

\* Mutated forms: published on both clients; the wrong flag is restored.
Targets_both(s) == Sides
Unmuted_own(s) == s

\* What publish() sends and where, and whose flag is restored afterwards.
Published(s) == handling[s]
Targets(s) == {Other(s)}
Unmuted(s) == Other(s)

\* publish() only queues the message; the flag is then restored at once.
Publish(s) ==
  /\ handling[s] # Idle
  /\ outbox' = [t \in Sides |-> IF t \in Targets(s) THEN Append(outbox[t], Published(s))
                                                     ELSE outbox[t]]
  /\ forward_from' = [forward_from EXCEPT ![Unmuted(s)] = TRUE]
  /\ handling' = [handling EXCEPT ![s] = Idle]
  /\ UNCHANGED <<connected, inbox, brokerVars, subscribes>>

\* The client sends what publish() has queued.
Transmit(s) ==
  /\ connected[s] /\ outbox[s] # <<>>
  /\ outbox' = [outbox EXCEPT ![s] = Tail(@)]
  /\ BrokerPublish(s, Head(outbox[s]))
  /\ UNCHANGED <<connected, handling, forward_from, origin, subscribes>>

Callbacks(s) == Ignore(s) \/ Forward(s) \/ Publish(s)

Next ==
  \E s \in Sides :
    \/ \E m \in Messages, retain \in BOOLEAN : ClientPublish(s, m, retain)
    \/ Disconnect(s) \/ Subscribe(s)
    \/ Callbacks(s) \/ Transmit(s)

\* The network threads run.
Fairness == \A s \in Sides : WF_vars(Callbacks(s)) /\ WF_vars(Transmit(s))

Spec == Init /\ [][Next]_vars
FairSpec == Spec /\ Fairness
-----------------------------------------------------------------------------
TypeOK ==
  /\ connected \in [Sides -> BOOLEAN] /\ forward_from \in [Sides -> BOOLEAN]
  /\ inbox \in [Sides -> Seq(Packets)] /\ outbox \in [Sides -> Seq(Packets)]
  /\ handling \in [Sides -> Packets \cup {Idle}]
  /\ retained \in [Sides -> Messages \cup {None}]
  /\ origin \in [Messages -> Sides \cup {None}]
  /\ subscribes \in 0..MaxSubscribes

\* The copies of a message in a queue, in the hands of one client of the bridge,
\* and of both.
in_queue(q, m) == Cardinality({i \in DOMAIN q : q[i].msg = m})
in_hand(s, m) ==
  in_queue(inbox[s], m) + in_queue(outbox[s], m) + (IF handling[s].msg = m THEN 1 ELSE 0)
copies(m) == in_hand("local", m) + in_hand("remote", m)

\* The loops of the bridge carry messages round but do not multiply them: a
\* message is under way at most once, and once more for each time a client has
\* subscribed and was given what its broker retained.
NoAmplification == \A m \in Messages : copies(m) <= 1 + subscribes

\* Neither side stays muted: every flag is set again, however the callbacks of
\* the two threads overlap.
MuteEnds == \A s \in Sides : []<>forward_from[s]

\* "Messages are not re-forwarded if they came from the other broker."
NotReforwarded ==
  \A s \in Sides : handling[s] # Idle => origin[handling[s].msg] = s
=============================================================================
