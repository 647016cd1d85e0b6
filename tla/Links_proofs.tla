---------------------------- MODULE Links_proofs ----------------------------
(***************************************************************************)
(* The two links that carry messages, the bridge and the reader's line.    *)
(*                                                                         *)
(* The bridge does not multiply messages, for any number of messages and   *)
(* of reconnections: a step that takes a message from a queue puts it at   *)
(* most in one other; only a subscription adds one.                        *)
(*                                                                         *)
(* The reader's line does not multiply cards, for any number of swipes and *)
(* any length of it: the cards on it are in the order of their swipes.     *)
(***************************************************************************)
EXTENDS MqttBridge, ReaderLink, FiniteSetTheorems, TLAPS

-----------------------------------------------------------------------------
(* The bridge. *)

\* What nobody has published is nowhere.
UnpublishedNowhere ==
  \A m \in Messages : origin[m] = None =>
    copies(m) = 0 /\ \A s \in Sides : retained[s] # m

Inv == TypeOK /\ UnpublishedNowhere /\ NoAmplification

(***************************************************************************)
(* Counting in a queue.                                                    *)
(***************************************************************************)
one(p, m) == IF p.msg = m THEN 1 ELSE 0

LEMMA CountIsFinite ==
  ASSUME NEW q \in Seq(Packets), NEW m
  PROVE  /\ IsFiniteSet({i \in DOMAIN q : q[i].msg = m})
         /\ in_queue(q, m) \in Nat
<1>1. DOMAIN q = 1..Len(q) /\ Len(q) \in Nat
  OBVIOUS
<1>2. IsFiniteSet(1..Len(q))
  BY <1>1, FS_Interval
<1>3. IsFiniteSet({i \in DOMAIN q : q[i].msg = m})
  BY <1>1, <1>2, FS_Subset
<1> QED BY <1>3, FS_CardinalityType DEF in_queue

LEMMA CountEmpty == \A m : in_queue(<<>>, m) = 0
<1> SUFFICES ASSUME NEW m PROVE in_queue(<<>>, m) = 0
  OBVIOUS
<1>1. {i \in DOMAIN <<>> : <<>>[i].msg = m} = {}
  OBVIOUS
<1> QED BY <1>1, FS_EmptySet DEF in_queue

LEMMA CountAppend ==
  ASSUME NEW q \in Seq(Packets), NEW p \in Packets, NEW m
  PROVE  in_queue(Append(q, p), m) = in_queue(q, m) + one(p, m)
<1> DEFINE before == {i \in DOMAIN q : q[i].msg = m}
           after == {i \in DOMAIN Append(q, p) : Append(q, p)[i].msg = m}
           n == Len(q) + 1
<1>1. /\ DOMAIN q = 1..Len(q) /\ Len(q) \in Nat /\ DOMAIN Append(q, p) = 1..n
      /\ Append(q, p)[n] = p /\ \A i \in 1..Len(q) : Append(q, p)[i] = q[i]
  OBVIOUS
<1>2. IsFiniteSet(before) /\ n \notin before
  <2>1. IsFiniteSet(before)
    BY CountIsFinite
  <2>2. n \notin 1..Len(q)
    BY <1>1
  <2>3. n \notin before
    BY <1>1, <2>2
  <2> QED BY <2>1, <2>3
<1>3. CASE p.msg = m
  <2>1. after = before \cup {n}
    <3>1. \A i \in 1..n : i \in 1..Len(q) \/ i = n
      BY <1>1
    <3>2. \A i : i \in after <=> i \in before \cup {n}
      BY <1>1, <1>3, <3>1
    <3> HIDE DEF after, before
    <3> QED BY <3>2
  <2>2. in_queue(q, m) \in Nat /\ Cardinality(before \cup {n}) = Cardinality(before) + 1
    <3> HIDE DEF before
    <3>1. Cardinality(before \cup {n}) = Cardinality(before) + 1
      BY <1>2, FS_AddElement
    <3> QED BY <3>1, CountIsFinite
  <2> QED BY <1>3, <2>1, <2>2 DEF in_queue, one
<1>4. CASE p.msg # m
  <2>1. after = before
    <3>1. \A i \in 1..n : i \in 1..Len(q) \/ i = n
      BY <1>1
    <3>2. \A i : i \in after <=> i \in before
      BY <1>1, <1>4, <3>1
    <3> HIDE DEF after, before
    <3> QED BY <3>2
  <2>2. in_queue(q, m) \in Nat
    BY CountIsFinite
  <2>3. in_queue(q, m) + 0 = in_queue(q, m)
    BY <2>2
  <2> QED BY <1>4, <2>1, <2>3 DEF in_queue, one
<1> QED BY <1>3, <1>4

LEMMA CountTail ==
  ASSUME NEW q \in Seq(Packets), q # <<>>, NEW m
  PROVE  /\ Head(q) \in Packets /\ Tail(q) \in Seq(Packets)
         /\ in_queue(q, m) = in_queue(Tail(q), m) + one(Head(q), m)
<1> DEFINE t == Tail(q)
           before == {i \in DOMAIN q : q[i].msg = m}
           after == {i \in DOMAIN t : t[i].msg = m}
           f == [i \in after |-> i + 1]
<1>1. /\ Head(q) \in Packets /\ t \in Seq(Packets) /\ Head(q) = q[1]
      /\ Len(q) \in Nat \ {0} /\ DOMAIN q = 1..Len(q) /\ DOMAIN t = 1..(Len(q) - 1)
      /\ \A i \in 1..(Len(q) - 1) : t[i] = q[i + 1]
  OBVIOUS
<1>2. IsFiniteSet(before) /\ IsFiniteSet(after)
  BY <1>1, CountIsFinite
<1>3. f \in Bijection(after, before \ {1})
  <2>1. \A i \in after : i + 1 \in before \ {1}
    BY <1>1
  <2>2. \A j \in before \ {1} : j - 1 \in after /\ f[j - 1] = j
    BY <1>1
  <2>3. \A i, j \in after : f[i] = f[j] => i = j
    BY <1>1
  <2> QED BY <2>1, <2>2, <2>3 DEF Bijection, Injection, IsInjective, Surjection
<1>4. Cardinality(before \ {1}) = Cardinality(after)
  <2> HIDE DEF before, after, f
  <2> QED BY <1>2, <1>3, FS_Bijection DEF ExistsBijection
<1>5. 1 \in before <=> Head(q).msg = m
  BY <1>1
<1>6. Cardinality(before) = Cardinality(after) + one(Head(q), m)
  <2> HIDE DEF before, after
  <2>1. Cardinality(before) \in Nat /\ Cardinality(after) \in Nat
    BY <1>2, FS_CardinalityType
  <2>2. Cardinality(before \ {1}) =
          IF 1 \in before THEN Cardinality(before) - 1 ELSE Cardinality(before)
    BY <1>2, FS_RemoveElement
  <2> QED BY <1>4, <1>5, <2>1, <2>2 DEF one
<1> QED BY <1>1, <1>6 DEF in_queue

(***************************************************************************)
(* What one step does to the copies.                                       *)
(***************************************************************************)
LEMMA OtherSide ==
  \A s \in Sides : Other(s) \in Sides /\ Other(s) # s /\ Sides = {s, Other(s)}
BY DEF Sides, Other

LEMMA NoneIsNoMessage == None \notin Messages /\ Idle.msg = None
BY BridgeAssumption DEF None, Idle

\* The terms of the count are numbers, and it does not matter which side is
\* named first.
CountsAreNat ==
  \A m \in Messages :
    /\ \A s \in Sides : /\ in_queue(inbox[s], m) \in Nat
                        /\ in_queue(outbox[s], m) \in Nat
                        /\ in_hand(s, m) \in Nat
                        /\ copies(m) = in_hand(s, m) + in_hand(Other(s), m)
    /\ copies(m) \in Nat

LEMMA Counts == TypeOK => CountsAreNat
<1> SUFFICES ASSUME TypeOK, NEW m \in Messages
             PROVE  /\ \A s \in Sides :
                         /\ in_queue(inbox[s], m) \in Nat /\ in_queue(outbox[s], m) \in Nat
                         /\ in_hand(s, m) \in Nat
                         /\ copies(m) = in_hand(s, m) + in_hand(Other(s), m)
                    /\ copies(m) \in Nat
  BY DEF CountsAreNat
<1>1. \A s \in Sides : in_queue(inbox[s], m) \in Nat /\ in_queue(outbox[s], m) \in Nat
  BY CountIsFinite DEF TypeOK
<1>2. \A s \in Sides : in_hand(s, m) \in Nat
  BY <1>1 DEF in_hand
<1>3. "local" \in Sides /\ "remote" \in Sides
  BY DEF Sides
<1>4. \A s \in Sides : copies(m) = in_hand(s, m) + in_hand(Other(s), m)
  BY <1>2, <1>3 DEF copies, Sides, Other
<1>5. copies(m) \in Nat
  BY <1>2, <1>3 DEF copies
<1> QED BY <1>1, <1>2, <1>4, <1>5

\* A step that leaves no more copies, takes no publication back and retains
\* only what is published keeps the invariant.
LEMMA NoMoreCopies ==
  ASSUME Inv, TypeOK', subscribes' \in Nat, subscribes' >= subscribes,
         \A m \in Messages : copies(m)' <= copies(m),
         \A m \in Messages : origin'[m] = None => origin[m] = None,
         \A m \in Messages, s \in Sides :
           retained'[s] = m => retained[s] = m \/ origin[m] # None
  PROVE  Inv'
<1>1. \A m \in Messages : copies(m) \in Nat /\ copies(m)' \in Nat
  <2>1. CountsAreNat
    BY Counts DEF Inv
  <2>2. CountsAreNat'
    BY Counts, PTL
  <2> QED BY <2>1, <2>2 DEF CountsAreNat
<1>2. NoAmplification'
  <2> SUFFICES ASSUME NEW m \in Messages PROVE copies(m)' <= 1 + subscribes'
    BY DEF NoAmplification
  <2>1. copies(m) <= 1 + subscribes /\ subscribes \in Nat
    BY DEF Inv, NoAmplification, TypeOK
  <2> QED BY <1>1, <2>1
<1>3. UnpublishedNowhere'
  <2> SUFFICES ASSUME NEW m \in Messages, origin'[m] = None
               PROVE  copies(m)' = 0 /\ \A s \in Sides : retained'[s] # m
    BY DEF UnpublishedNowhere
  <2>1. copies(m) = 0 /\ \A s \in Sides : retained[s] # m
    BY DEF Inv, UnpublishedNowhere
  <2>2. copies(m)' <= copies(m)
    OBVIOUS
  <2> QED BY <1>1, <2>1, <2>2
<1> QED BY <1>2, <1>3 DEF Inv

LEMMA ClientPublishKeeps ==
  ASSUME Inv, NEW s \in Sides, NEW m \in Messages, NEW retain \in BOOLEAN,
         ClientPublish(s, m, retain)
  PROVE  Inv'
<1> DEFINE p == [msg |-> m, retain |-> retain]
           d == [p EXCEPT !.retain = FALSE]
<1>1. p \in Packets /\ d \in Packets /\ d.msg = m
  BY DEF Packets
<1>2. TypeOK'
  BY <1>1 DEF Inv, TypeOK, ClientPublish, BrokerPublish
<1>3. CountsAreNat /\ CountsAreNat'
  BY <1>2, Counts, PTL DEF Inv
<1>4. \A n \in Messages : copies(n)' <= copies(n) + one(d, n)
  <2> SUFFICES ASSUME NEW n \in Messages PROVE copies(n)' <= copies(n) + one(d, n)
    OBVIOUS
  <2>1. in_queue(inbox'[s], n) <= in_queue(inbox[s], n) + one(d, n)
    <3>1. inbox'[s] = inbox[s] \/ inbox'[s] = Append(inbox[s], d)
      BY DEF ClientPublish, BrokerPublish, Inv, TypeOK
    <3>2. inbox[s] \in Seq(Packets)
      BY DEF Inv, TypeOK
    <3>3. in_queue(Append(inbox[s], d), n) = in_queue(inbox[s], n) + one(d, n)
      <4> HIDE DEF d
      <4> QED BY <1>1, <3>2, CountAppend
    <3>4. in_queue(inbox[s], n) \in Nat /\ one(d, n) \in Nat
      BY <1>3 DEF CountsAreNat, one
    <3>5. CASE inbox'[s] = inbox[s]
      BY <3>4, <3>5
    <3>6. CASE inbox'[s] = Append(inbox[s], d)
      BY <3>3, <3>4, <3>6
    <3> QED BY <3>1, <3>5, <3>6
  <2>2. in_hand(s, n)' <= in_hand(s, n) + one(d, n)
    BY <1>3, <2>1 DEF ClientPublish, in_hand, CountsAreNat, one
  <2>3. in_hand(Other(s), n)' = in_hand(Other(s), n)
    BY OtherSide DEF ClientPublish, BrokerPublish, in_hand, Inv, TypeOK
  <2> QED BY <1>3, <2>2, <2>3, OtherSide DEF CountsAreNat, one
<1>5. NoAmplification'
  <2> SUFFICES ASSUME NEW n \in Messages PROVE copies(n)' <= 1 + subscribes'
    BY DEF NoAmplification
  <2>1. n = m => copies(n) = 0
    BY DEF Inv, UnpublishedNowhere, ClientPublish
  <2>2. copies(n) <= 1 + subscribes /\ subscribes \in Nat /\ subscribes' = subscribes
    BY DEF Inv, NoAmplification, TypeOK, ClientPublish
  <2>3. n # m => one(d, n) = 0
    BY <1>1 DEF one
  <2>4. one(d, n) \in 0..1
    BY DEF one
  <2> QED BY <1>3, <1>4, <2>1, <2>2, <2>3, <2>4 DEF CountsAreNat
<1>6. UnpublishedNowhere'
  <2> SUFFICES ASSUME NEW n \in Messages, origin'[n] = None
               PROVE  copies(n)' = 0 /\ \A t \in Sides : retained'[t] # n
    BY DEF UnpublishedNowhere
  <2>1. n # m /\ origin[n] = None
    BY DEF ClientPublish, Inv, TypeOK, Sides, None
  <2>2. copies(n) = 0 /\ \A t \in Sides : retained[t] # n
    BY <2>1 DEF Inv, UnpublishedNowhere
  <2>3. one(d, n) = 0
    BY <1>1, <2>1 DEF one
  <2>4. copies(n)' = 0
    BY <1>3, <1>4, <2>2, <2>3 DEF CountsAreNat
  <2>5. \A t \in Sides : retained'[t] # n
    BY <2>1, <2>2 DEF ClientPublish, BrokerPublish, Inv, TypeOK
  <2> QED BY <2>4, <2>5
<1> QED BY <1>2, <1>5, <1>6 DEF Inv

LEMMA DisconnectKeeps ==
  ASSUME Inv, NEW s \in Sides, Disconnect(s)
  PROVE  Inv'
<1>1. TypeOK'
  <2>1. connected' \in [Sides -> BOOLEAN] /\ inbox' \in [Sides -> Seq(Packets)]
    BY DEF Inv, TypeOK, Disconnect
  <2>2. outbox' \in [Sides -> Seq(Packets)]
    <3>1. <<>> \in Seq(Packets) /\ outbox \in [Sides -> Seq(Packets)]
      BY DEF Inv, TypeOK
    <3>2. outbox' = outbox \/ outbox' = [outbox EXCEPT ![s] = <<>>]
      BY DEF Disconnect
    <3> QED BY <3>1, <3>2
  <2> QED BY <2>1, <2>2 DEF Inv, TypeOK, Disconnect, brokerVars
<1>2. CountsAreNat /\ CountsAreNat'
  BY <1>1, Counts, PTL DEF Inv
<1>3. \A n \in Messages : copies(n)' <= copies(n)
  <2> SUFFICES ASSUME NEW n \in Messages PROVE copies(n)' <= copies(n)
    OBVIOUS
  <2>1. inbox'[s] = <<>> /\ (outbox'[s] = outbox[s] \/ outbox'[s] = <<>>)
    BY DEF Disconnect, Inv, TypeOK
  <2>2. in_hand(s, n)' <= in_hand(s, n)
    BY <1>2, <2>1, CountEmpty DEF Disconnect, in_hand, CountsAreNat
  <2>3. in_hand(Other(s), n)' = in_hand(Other(s), n)
    BY OtherSide DEF Disconnect, in_hand, Inv, TypeOK
  <2> QED BY <1>2, <2>2, <2>3, OtherSide DEF CountsAreNat
<1>4. subscribes' \in Nat /\ subscribes' >= subscribes
  BY DEF Inv, TypeOK, Disconnect
<1> QED BY <1>1, <1>3, <1>4, NoMoreCopies DEF Disconnect, brokerVars

LEMMA SubscribeKeeps ==
  ASSUME Inv, NEW s \in Sides, Subscribe(s)
  PROVE  Inv'
<1> DEFINE p == [msg |-> retained[s], retain |-> TRUE]
<1>1. retained[s] # None => p \in Packets
  BY DEF Inv, TypeOK, Packets
<1>2. subscribes \in Nat /\ subscribes' = subscribes + 1 /\ subscribes' \in 0..MaxSubscribes
  BY BridgeAssumption DEF Inv, TypeOK, Subscribe
<1>3. TypeOK'
  BY <1>1, <1>2 DEF Inv, TypeOK, Subscribe, brokerVars
<1>4. CountsAreNat /\ CountsAreNat'
  BY <1>3, Counts, PTL DEF Inv
<1>5. \A n \in Messages : copies(n)' <= copies(n) + one(p, n)
  <2> SUFFICES ASSUME NEW n \in Messages PROVE copies(n)' <= copies(n) + one(p, n)
    OBVIOUS
  <2>1. inbox'[s] = inbox[s] \/ (retained[s] # None /\ inbox'[s] = <<p>>)
    BY DEF Subscribe, Inv, TypeOK
  <2>2. inbox'[s] = <<p>> /\ p \in Packets => in_queue(inbox'[s], n) = one(p, n)
    <3>1. <<>> \in Seq(Packets) /\ <<p>> = Append(<<>>, p)
      OBVIOUS
    <3>2. one(p, n) \in Nat
      BY DEF one
    <3>3. ASSUME p \in Packets PROVE in_queue(<<p>>, n) = one(p, n)
      <4> HIDE DEF p
      <4>1. in_queue(Append(<<>>, p), n) = in_queue(<<>>, n) + one(p, n)
        BY <3>1, <3>3, CountAppend
      <4> QED BY <3>1, <3>2, <4>1, CountEmpty
    <3> HIDE DEF p
    <3> QED BY <3>3
  <2>3. in_hand(s, n)' <= in_hand(s, n) + one(p, n)
    BY <1>1, <1>4, <2>1, <2>2 DEF Subscribe, in_hand, CountsAreNat, one
  <2>4. in_hand(Other(s), n)' = in_hand(Other(s), n)
    BY OtherSide DEF Subscribe, in_hand, Inv, TypeOK
  <2> QED BY <1>4, <2>3, <2>4, OtherSide DEF CountsAreNat, one
<1>6. NoAmplification'
  <2> SUFFICES ASSUME NEW n \in Messages PROVE copies(n)' <= 1 + subscribes'
    BY DEF NoAmplification
  <2>1. copies(n) <= 1 + subscribes
    BY DEF Inv, NoAmplification
  <2>2. one(p, n) \in 0..1
    BY DEF one
  <2> QED BY <1>2, <1>4, <1>5, <2>1, <2>2 DEF CountsAreNat
<1>7. UnpublishedNowhere'
  <2> SUFFICES ASSUME NEW n \in Messages, origin'[n] = None
               PROVE  copies(n)' = 0 /\ \A t \in Sides : retained'[t] # n
    BY DEF UnpublishedNowhere
  <2>1. copies(n) = 0 /\ \A t \in Sides : retained[t] # n
    BY DEF Inv, UnpublishedNowhere, Subscribe, brokerVars
  <2>2. one(p, n) = 0
    BY <2>1 DEF one
  <2> QED BY <1>4, <1>5, <2>1, <2>2 DEF CountsAreNat, Subscribe, brokerVars
<1> QED BY <1>3, <1>6, <1>7 DEF Inv

LEMMA IgnoreKeeps ==
  ASSUME Inv, NEW s \in Sides, Ignore(s)
  PROVE  Inv'
<1>1. inbox[s] \in Seq(Packets) /\ inbox[s] # <<>> /\ inbox'[s] = Tail(inbox[s])
  BY DEF Inv, TypeOK, Ignore
<1>2. TypeOK'
  <2>1. Tail(inbox[s]) \in Seq(Packets)
    BY <1>1, CountTail
  <2> QED BY <2>1 DEF Inv, TypeOK, Ignore, brokerVars
<1>3. CountsAreNat /\ CountsAreNat'
  BY <1>2, Counts, PTL DEF Inv
<1>4. \A n \in Messages : copies(n)' <= copies(n)
  <2> SUFFICES ASSUME NEW n \in Messages PROVE copies(n)' <= copies(n)
    OBVIOUS
  <2>1. in_queue(inbox[s], n) = in_queue(inbox'[s], n) + one(Head(inbox[s]), n)
    BY <1>1, CountTail
  <2>2. in_hand(s, n)' <= in_hand(s, n)
    BY <1>3, <2>1 DEF Ignore, in_hand, CountsAreNat, one
  <2>3. in_hand(Other(s), n)' = in_hand(Other(s), n)
    BY OtherSide DEF Ignore, in_hand, Inv, TypeOK
  <2> QED BY <1>3, <2>2, <2>3, OtherSide DEF CountsAreNat
<1>5. subscribes' \in Nat /\ subscribes' >= subscribes
  BY DEF Inv, TypeOK, Ignore
<1> QED BY <1>2, <1>4, <1>5, NoMoreCopies DEF Ignore, brokerVars

LEMMA ForwardKeeps ==
  ASSUME Inv, NEW s \in Sides, Forward(s)
  PROVE  Inv'
<1>1. inbox[s] \in Seq(Packets) /\ inbox[s] # <<>> /\ inbox'[s] = Tail(inbox[s])
  BY DEF Inv, TypeOK, Forward
<1>2. handling[s].msg = None /\ handling'[s] = Head(inbox[s])
  BY NoneIsNoMessage DEF Inv, TypeOK, Forward
<1>3. TypeOK'
  <2>1. Tail(inbox[s]) \in Seq(Packets) /\ Head(inbox[s]) \in Packets
    BY <1>1, CountTail
  <2> QED BY <2>1 DEF Inv, TypeOK, Forward, brokerVars
<1>4. CountsAreNat /\ CountsAreNat'
  BY <1>3, Counts, PTL DEF Inv
<1>5. \A n \in Messages : copies(n)' <= copies(n)
  <2> SUFFICES ASSUME NEW n \in Messages PROVE copies(n)' <= copies(n)
    OBVIOUS
  <2>1. in_queue(inbox[s], n) = in_queue(inbox'[s], n) + one(Head(inbox[s]), n)
    BY <1>1, CountTail
  <2>2. handling[s].msg # n
    BY <1>2, NoneIsNoMessage
  <2>3. in_hand(s, n)' <= in_hand(s, n)
    BY <1>2, <1>4, <2>1, <2>2 DEF Forward, in_hand, CountsAreNat, one
  <2>4. in_hand(Other(s), n)' = in_hand(Other(s), n)
    BY OtherSide DEF Forward, in_hand, Inv, TypeOK
  <2> QED BY <1>4, <2>3, <2>4, OtherSide DEF CountsAreNat
<1>6. subscribes' \in Nat /\ subscribes' >= subscribes
  BY DEF Inv, TypeOK, Forward
<1> QED BY <1>3, <1>5, <1>6, NoMoreCopies DEF Forward, brokerVars

\* publish() passes the copy on from the hands of one client to the other's.
LEMMA PublishKeeps ==
  ASSUME Inv, NEW s \in Sides, Publish(s)
  PROVE  Inv'
<1> DEFINE o == Other(s)
           p == handling[s]
<1>1. o \in Sides /\ o # s /\ Sides = {s, o} /\ p \in Packets
  BY OtherSide DEF Inv, TypeOK, Publish
<1>2. /\ outbox'[s] = outbox[s] /\ outbox'[o] = Append(outbox[o], p)
      /\ handling'[s] = Idle /\ handling'[o] = handling[o]
  BY <1>1 DEF Inv, TypeOK, Publish, Targets, Published
<1>3. TypeOK'
  <2>1. outbox' \in [Sides -> Seq(Packets)]
    BY <1>1 DEF Inv, TypeOK, Publish, Targets, Published
  <2> QED BY <1>1, <2>1 DEF Inv, TypeOK, Publish, Unmuted, brokerVars
<1>4. CountsAreNat /\ CountsAreNat'
  BY <1>3, Counts, PTL DEF Inv
<1>5. \A n \in Messages : copies(n)' <= copies(n)
  <2> SUFFICES ASSUME NEW n \in Messages PROVE copies(n)' <= copies(n)
    OBVIOUS
  <2>1. outbox[o] \in Seq(Packets)
    BY <1>1 DEF Inv, TypeOK
  <2>2. in_queue(outbox'[o], n) = in_queue(outbox[o], n) + one(p, n)
    <3> HIDE DEF p, o
    <3> QED BY <1>1, <1>2, <2>1, CountAppend
  <2>3. handling'[s].msg # n
    BY <1>2, NoneIsNoMessage
  <2>4. in_hand(s, n) = in_hand(s, n)' + one(p, n)
    BY <1>2, <1>4, <2>3 DEF Publish, in_hand, CountsAreNat, one
  <2>5. in_hand(o, n)' = in_hand(o, n) + one(p, n)
    BY <1>1, <1>2, <1>4, <2>2 DEF Publish, in_hand, CountsAreNat, one
  <2> QED BY <1>1, <1>4, <2>4, <2>5 DEF CountsAreNat, one
<1>6. subscribes' \in Nat /\ subscribes' >= subscribes
  BY DEF Inv, TypeOK, Publish
<1> QED BY <1>3, <1>5, <1>6, NoMoreCopies DEF Publish, brokerVars

\* What is sent leaves the queue of the client and comes back to it, or not.
LEMMA TransmitKeeps ==
  ASSUME Inv, NEW s \in Sides, Transmit(s)
  PROVE  Inv'
<1> DEFINE p == Head(outbox[s])
           d == [p EXCEPT !.retain = FALSE]
<1>1. outbox[s] \in Seq(Packets) /\ outbox[s] # <<>> /\ outbox'[s] = Tail(outbox[s])
  BY DEF Inv, TypeOK, Transmit
<1>2. p \in Packets /\ Tail(outbox[s]) \in Seq(Packets)
  BY <1>1, CountTail
<1>3. d \in Packets /\ d.msg = p.msg
  BY <1>2 DEF Packets
<1>4. inbox'[s] = Append(inbox[s], d)
  BY DEF Inv, TypeOK, Transmit, BrokerPublish
<1>5. TypeOK'
  <2> HIDE DEF p
  <2>1. inbox' \in [Sides -> Seq(Packets)]
    BY <1>3 DEF Inv, TypeOK, Transmit, BrokerPublish, p
  <2>2. outbox' \in [Sides -> Seq(Packets)]
    BY <1>2 DEF Inv, TypeOK, Transmit
  <2>3. p.msg \in Messages
    BY <1>2 DEF Packets
  <2>4. retained' \in [Sides -> Messages \cup {None}]
    BY <2>3 DEF Inv, TypeOK, Transmit, BrokerPublish, p
  <2> QED BY <2>1, <2>2, <2>4 DEF Inv, TypeOK, Transmit
<1>6. CountsAreNat /\ CountsAreNat'
  BY <1>5, Counts, PTL DEF Inv
<1>7. \A n \in Messages :
        in_queue(outbox[s], n) = in_queue(outbox'[s], n) + one(p, n)
  BY <1>1, CountTail
<1>8. \A n \in Messages : copies(n)' <= copies(n)
  <2> SUFFICES ASSUME NEW n \in Messages PROVE copies(n)' <= copies(n)
    OBVIOUS
  <2>1. inbox[s] \in Seq(Packets) /\ one(d, n) = one(p, n)
    BY <1>3 DEF Inv, TypeOK, one
  <2>2. in_queue(inbox'[s], n) = in_queue(inbox[s], n) + one(p, n)
    <3> HIDE DEF p, d
    <3> QED BY <1>3, <1>4, <2>1, CountAppend
  <2>3. in_hand(s, n)' = in_hand(s, n)
    BY <1>6, <1>7, <2>2 DEF Transmit, in_hand, CountsAreNat, one
  <2>4. in_hand(Other(s), n)' = in_hand(Other(s), n)
    BY OtherSide DEF Transmit, BrokerPublish, in_hand, Inv, TypeOK
  <2> QED BY <1>6, <2>3, <2>4, OtherSide DEF CountsAreNat
<1>9. \A n \in Messages, t \in Sides :
        retained'[t] = n => retained[t] = n \/ origin[n] # None
  <2> SUFFICES ASSUME NEW n \in Messages, NEW t \in Sides, retained'[t] = n, retained[t] # n
               PROVE  origin[n] # None
    OBVIOUS
  <2>1. p.msg = n
    BY DEF Transmit, BrokerPublish, Inv, TypeOK
  <2>2. in_queue(outbox[s], n) # 0
    <3> HIDE DEF p
    <3> QED BY <1>6, <1>7, <2>1 DEF CountsAreNat, one
  <2>3. copies(n) # 0
    BY <1>6, <2>2, OtherSide DEF CountsAreNat, in_hand
  <2> QED BY <2>3 DEF Inv, UnpublishedNowhere
<1>10. subscribes' \in Nat /\ subscribes' >= subscribes
  BY DEF Inv, TypeOK, Transmit
<1> QED BY <1>5, <1>8, <1>9, <1>10, NoMoreCopies DEF Transmit

LEMMA StartsEmpty == Init => Inv
<1> SUFFICES ASSUME Init PROVE Inv
  OBVIOUS
<1>1. TypeOK
  BY BridgeAssumption DEF Init, TypeOK, Idle
<1>2. \A m \in Messages : copies(m) = 0
  BY CountEmpty, NoneIsNoMessage DEF Init, copies, in_hand, Sides
<1>3. \A m \in Messages, s \in Sides : retained[s] # m
  BY NoneIsNoMessage DEF Init
<1>4. subscribes = 0
  BY DEF Init
<1> QED BY <1>1, <1>2, <1>3, <1>4 DEF Inv, UnpublishedNowhere, NoAmplification

LEMMA Stutters == Inv /\ UNCHANGED vars => Inv'
<1> SUFFICES ASSUME Inv, UNCHANGED vars PROVE Inv'
  OBVIOUS
<1>1. TypeOK'
  BY DEF Inv, TypeOK, vars, brokerVars
<1>2. \A m : copies(m)' = copies(m)
  BY DEF copies, in_hand, vars
<1> QED BY <1>1, <1>2 DEF Inv, UnpublishedNowhere, NoAmplification, vars, brokerVars

LEMMA Invariance == Spec => []Inv
<1>1. Inv /\ [Next]_vars => Inv'
  <2> SUFFICES ASSUME Inv, Next PROVE Inv'
    BY Stutters
  <2> PICK s \in Sides : \/ \E m \in Messages, retain \in BOOLEAN : ClientPublish(s, m, retain)
                         \/ Disconnect(s) \/ Subscribe(s)
                         \/ Callbacks(s) \/ Transmit(s)
    BY DEF Next
  <2>1. CASE \E m \in Messages, retain \in BOOLEAN : ClientPublish(s, m, retain)
    BY <2>1, ClientPublishKeeps
  <2>2. CASE Disconnect(s)
    BY <2>2, DisconnectKeeps
  <2>3. CASE Subscribe(s)
    BY <2>3, SubscribeKeeps
  <2>4. CASE Ignore(s)
    BY <2>4, IgnoreKeeps
  <2>5. CASE Forward(s)
    BY <2>5, ForwardKeeps
  <2>6. CASE Publish(s)
    BY <2>6, PublishKeeps
  <2>7. CASE Transmit(s)
    BY <2>7, TransmitKeeps
  <2> QED BY <2>1, <2>2, <2>3, <2>4, <2>5, <2>6, <2>7 DEF Callbacks
<1> QED BY <1>1, StartsEmpty, PTL DEF Spec

\* The variables keep their types, and no step subscribes beyond the bound.
THEOREM TypeCorrect == Spec => []TypeOK
BY Invariance, PTL DEF Inv

\* The two callbacks that forward each other's messages never hold more copies
\* of a message than one and one for each subscription made since the start.
THEOREM NeverAmplifies == Spec => []NoAmplification
BY Invariance, PTL DEF Inv

-----------------------------------------------------------------------------
(* The reader's line. *)

\* Answers are in the order of the swipes: none is newer than the last swipe, and
\* none as new as the card the reader keeps.
AnswersAreOlder ==
  \A i \in DOMAIN to_host :
    to_host[i] <= swipes /\ (last_cardid # NoCard => to_host[i] < last_cardid)

LinkInv == LinkTypeOK /\ AnswersAreOlder

\* Short sequences, and what is left of a sequence without its head.
LEMMA Shorts ==
  ASSUME NEW S
  PROVE  /\ <<>> \in Seq(S) /\ Len(<<>>) = 0
         /\ \A x \in S : <<x>> \in Seq(S) /\ Len(<<x>>) = 1
OBVIOUS

LEMMA Tails ==
  ASSUME NEW S, NEW s \in Seq(S), s # <<>>
  PROVE  /\ Tail(s) \in Seq(S) /\ Len(Tail(s)) = Len(s) - 1
         /\ Len(s) > 1 => Tail(s) # <<>>
<1>1. Tail(s) \in Seq(S) /\ Len(Tail(s)) = Len(s) - 1
  OBVIOUS
<1>2. Len(<<>>) = 0
  BY Shorts
<1>3. Len(s) > 1 => Len(Tail(s)) # 0
  BY <1>1
<1> QED BY <1>1, <1>2, <1>3

\* The fragments of an answer and of a command fit on the line.
LEMMA FragmentsFit ==
  /\ \A s \in {<<>>, <<Rest>>} : s \in Seq(Answers) /\ Len(s) <= MaxWire
  /\ \A s \in {<<>>, <<"part">>} : s \in Seq(Commands) /\ Len(s) <= MaxWire
<1>1. Rest \in Answers
  BY DEF Answers
<1>2. "part" \in Commands
  BY DEF Commands
<1> QED BY <1>1, <1>2, Shorts, LinkAssumption

USE DEF NoCard, OK, Rest, Answers, Cards, Patterns, Commands, Delivery!NoCard

\* What the two channels may hold after a step.
LEMMA Sent ==
  ASSUME LinkTypeOK, NEW cmd \in Commands, Send(cmd)
  PROVE  to_reader' \in Seq(Commands) /\ Len(to_reader') <= MaxWire
BY LinkAssumption DEF LinkTypeOK, Send

LEMMA Answered ==
  ASSUME LinkTypeOK, NEW a \in Answers, Answer(a)
  PROVE  /\ to_host' \in Seq(Answers) /\ Len(to_host') <= MaxWire
         /\ \A i \in DOMAIN to_host' :
              to_host'[i] = a \/ \E j \in DOMAIN to_host : to_host'[i] = to_host[j]
<1>1. to_host \in Seq(Answers) /\ Len(to_host) \in Nat /\ Len(to_host) <= MaxWire
  BY DEF LinkTypeOK
<1>2. CASE to_host' = to_host
  BY <1>1, <1>2
<1>3. CASE to_host' = Append(to_host, a) /\ Len(to_host) < MaxWire
  <2>1. to_host' \in Seq(Answers) /\ Len(to_host') = Len(to_host) + 1
    BY <1>1, <1>3
  <2>2. \A i \in 1..Len(to_host) + 1 :
          Append(to_host, a)[i] = IF i = Len(to_host) + 1 THEN a ELSE to_host[i]
    BY <1>1
  <2> QED BY <1>1, <1>3, <2>1, <2>2, LinkAssumption
<1> QED BY <1>2, <1>3 DEF Answer

\* Steps of CardDelivery.
LEMMA Loses ==
  ASSUME cards_in_transit' \subseteq cards_in_transit,
         card_id' \in {card_id, NoCard}, swipes' = swipes
  PROVE  Delivery!Next
BY DEF Delivery!Next, Delivery!Lose

Quiet == UNCHANGED <<to_host, swipes, last_cardid, card_id>>

LEMMA QuietStutters ==
  ASSUME Quiet
  PROVE  UNCHANGED Delivery!deliveryVars /\ (AnswersAreOlder => AnswersAreOlder')
BY DEF Quiet, cards_in_transit, Delivery!deliveryVars, AnswersAreOlder

StepOK == LinkInv' /\ [Delivery!Next]_Delivery!deliveryVars

\* The controller.
LEMMA ControllerStep ==
  ASSUME LinkInv,
         \/ CtlLocked \/ CtlUnlock \/ CtlWarn \/ CtlLock
         \/ CtlTakeCard
  PROVE  StepOK
<1> USE DEF Controller, readerVars
<1>1. CASE CtlLocked \/ CtlUnlock \/ CtlWarn \/ CtlLock
  <2>1. Quiet
    BY <1>1 DEF Quiet, CtlLocked, CtlUnlock, CtlWarn, CtlLock,
      Client!AskReady, Client!Unlock, Client!Warn, Client!Relock
  <2>2. LinkTypeOK'
    BY <1>1 DEF LinkInv, LinkTypeOK, CtlLocked, CtlUnlock, CtlWarn,
      CtlLock,
      Client!AskReady, Client!Unlock, Client!Warn, Client!Relock
  <2> QED BY <2>1, <2>2, QuietStutters DEF LinkInv, StepOK
<1>2. CASE CtlTakeCard
  <2>1. card_id' = NoCard /\ UNCHANGED <<to_host, swipes, last_cardid>>
    BY <1>2 DEF CtlTakeCard, Client!TakeCard
  <2>2. LinkTypeOK'
    BY <1>2 DEF LinkInv, LinkTypeOK, CtlTakeCard, Client!TakeCard
  <2>3. AnswersAreOlder' /\ cards_in_transit' = cards_in_transit
    BY <2>1 DEF LinkInv, AnswersAreOlder, cards_in_transit
  <2> QED BY <2>1, <2>2, <2>3, Loses DEF LinkInv, StepOK
<1> QED BY <1>1, <1>2

\* The reader thread of the frontend.
LEMMA ThreadStep ==
  ASSUME LinkInv, Poll \/ Exchange \/ HostBoot
  PROVE  StepOK
<1> USE DEF readerVars
<1>1. Quiet
  BY DEF Quiet, Poll, Exchange, HostBoot
<1>2. to_reader' \in Seq(Commands) /\ Len(to_reader') <= MaxWire
  <2>1. CASE Poll
    BY <2>1, Sent DEF LinkInv, Poll
  <2>2. CASE Exchange
    <3>1. CASE UNCHANGED to_reader
      BY <3>1 DEF LinkInv, LinkTypeOK
    <3>2. CASE Send(pattern) /\ pattern # "none"
      <4>1. pattern \in Commands
        BY <3>2 DEF LinkInv, LinkTypeOK
      <4> QED BY <3>2, <4>1, Sent DEF LinkInv
    <3> QED BY <2>2, <3>1, <3>2 DEF Exchange
  <2>3. CASE HostBoot
    BY <2>3 DEF LinkInv, LinkTypeOK, HostBoot
  <2> QED BY <2>1, <2>2, <2>3
<1>3. LinkTypeOK'
  BY <1>2 DEF LinkInv, LinkTypeOK, Poll, Exchange, HostBoot
<1> QED BY <1>1, <1>3, QuietStutters DEF LinkInv, StepOK

\* A card that is read is older than the one that may be left at the reader.
LEMMA ReadStep ==
  ASSUME LinkInv, Read
  PROVE  StepOK
<1>1. UNCHANGED <<swipes, last_cardid>> /\ swipes \in Nat /\ last_cardid \in 0..swipes
  BY DEF LinkInv, LinkTypeOK, Read, readerVars
<1>2. to_host \in Seq(Answers)
  BY DEF LinkInv, LinkTypeOK
<1>3. CASE to_host' = <<>> /\ got_card(to_host) /\ card_id' = to_host[1]
  <2>1. DOMAIN to_host = {1} /\ to_host[1] \in Cards
    BY <1>2, <1>3 DEF got_card
  <2>2. cards_in_transit' = {c \in Cards : c = last_cardid}
    BY <1>1, <1>3 DEF cards_in_transit
  <2>3. to_host[1] \in cards_in_transit
    BY <2>1 DEF cards_in_transit
  <2>4. \A c \in cards_in_transit' : c \in cards_in_transit /\ c > card_id'
    BY <1>1, <1>3, <2>1, <2>2 DEF LinkInv, AnswersAreOlder, cards_in_transit
  <2>5. Delivery!Deliver
    BY <1>1, <1>3, <2>3, <2>4 DEF Delivery!Deliver
  <2>6. LinkTypeOK'
    BY <1>3, <2>1, LinkAssumption DEF LinkInv, LinkTypeOK, Read, readerVars
  <2>7. AnswersAreOlder'
    BY <1>3 DEF AnswersAreOlder
  <2> QED BY <2>5, <2>6, <2>7 DEF LinkInv, StepOK, Delivery!Next
<1>4. CASE to_host' \in {<<>>, <<Rest>>} /\ UNCHANGED card_id
  <2>1. cards_in_transit' \subseteq cards_in_transit
    BY <1>1, <1>4 DEF cards_in_transit
  <2>2. LinkTypeOK'
    <3>1. to_host' \in Seq(Answers) /\ Len(to_host') <= MaxWire
      BY <1>4, FragmentsFit
    <3> QED BY <1>4, <3>1 DEF LinkInv, LinkTypeOK, Read, readerVars
  <2>3. AnswersAreOlder'
    BY <1>1, <1>4 DEF AnswersAreOlder
  <2> QED BY <1>1, <1>4, <2>1, <2>2, <2>3, Loses DEF LinkInv, StepOK
<1> QED BY <1>3, <1>4 DEF Read

LEMMA HostDownStep ==
  ASSUME LinkInv, HostDown
  PROVE  StepOK
<1>1. to_host' = <<>> /\ card_id' = NoCard /\ UNCHANGED <<swipes, last_cardid>>
  BY DEF HostDown, readerVars
<1>2. to_reader' \in Seq(Commands) /\ Len(to_reader') <= MaxWire
  BY DEF LinkInv, LinkTypeOK, HostDown
<1>3. to_host' \in Seq(Answers) /\ Len(to_host') <= MaxWire
  BY <1>1, FragmentsFit
<1>4. LinkTypeOK'
  BY <1>1, <1>2, <1>3 DEF LinkInv, LinkTypeOK, HostDown, readerVars
<1>5. cards_in_transit' \subseteq cards_in_transit /\ AnswersAreOlder'
  BY <1>1 DEF cards_in_transit, AnswersAreOlder
<1> QED BY <1>1, <1>4, <1>5, Loses DEF LinkInv, StepOK

\* The reader serves a command.
LEMMA ServeStep ==
  ASSUME LinkInv, Serve
  PROVE  StepOK
<1> USE DEF hostVars, lamp_now
<1>1. /\ to_reader' \in Seq(Commands) /\ Len(to_reader') <= MaxWire
      /\ UNCHANGED <<swipes, card_id>>
  <2>1. UNCHANGED <<swipes, card_id>>
    BY DEF Serve, ServePoll, ServePattern, ServeRest
  <2>2. to_reader \in Seq(Commands) /\ Len(to_reader) \in Nat /\ Len(to_reader) <= MaxWire
    BY DEF LinkInv, LinkTypeOK
  <2>3. CASE to_reader # <<>> /\ to_reader' = Tail(to_reader)
    BY <2>1, <2>2, <2>3, Tails, LinkAssumption
  <2>4. CASE Len(to_reader) > 1 /\ to_reader' = Tail(Tail(to_reader))
    <3>1. to_reader # <<>>
      BY <2>2, <2>4
    <3>2. Tail(to_reader) # <<>>
      BY <2>2, <2>4, <3>1, Tails
    <3> QED BY <2>1, <2>2, <2>4, <3>1, <3>2, Tails, LinkAssumption
  <2> QED BY <2>3, <2>4
          DEF Serve, ServePoll, ServePattern, ServeRest
<1>2. swipes \in Nat /\ last_cardid \in 0..swipes /\ swipes <= MaxSwipes
  BY DEF LinkInv, LinkTypeOK
<1>3. CASE ServePoll
  <2>1. Answer(last_cardid) /\ last_cardid' = 0
    BY <1>3 DEF ServePoll, get_card, cardid_left
  <2>2. last_cardid \in Answers
    BY <1>2, LinkAssumption DEF LinkInv, LinkTypeOK
  <2>3. /\ to_host' \in Seq(Answers) /\ Len(to_host') <= MaxWire
        /\ \A i \in DOMAIN to_host' :
             to_host'[i] = last_cardid \/ \E j \in DOMAIN to_host : to_host'[i] = to_host[j]
    BY <2>1, <2>2, Answered DEF LinkInv
  <2>4. LinkTypeOK'
    <3>1. /\ UNCHANGED <<mode, host_up, hpc, pattern, last_pattern>>
          /\ lamp' \in Patterns \cup {"idle", "no_reply"} /\ no_reply' = FALSE
      BY <1>3 DEF LinkInv, LinkTypeOK, ServePoll
    <3>2. /\ mode' \in {"locked", "unlocked"} /\ host_up' \in BOOLEAN
          /\ hpc' \in {"poll", "read", "pattern"}
          /\ card_id' \in Cards \cup {NoCard}
          /\ pattern' \in Patterns \cup {"none"}
          /\ last_pattern' \in Patterns \cup {"none"}
      BY <1>1, <3>1 DEF LinkInv, LinkTypeOK
    <3>3. swipes' \in 0..MaxSwipes /\ last_cardid' \in 0..swipes'
      BY <1>1, <1>2, <2>1 DEF LinkInv, LinkTypeOK
    <3> QED BY <1>1, <2>3, <3>1, <3>2, <3>3 DEF LinkTypeOK
  <2>5. AnswersAreOlder'
    BY <1>1, <1>2, <2>1, <2>3 DEF LinkInv, AnswersAreOlder
  <2>6. cards_in_transit' \subseteq cards_in_transit
    BY <2>1, <2>3 DEF cards_in_transit
  <2> QED BY <1>1, <2>4, <2>5, <2>6, Loses DEF LinkInv, StepOK
<1>4. CASE ServePattern \/ ServeRest
  <2>1. PICK a \in {OK, Rest} : Answer(a) /\ UNCHANGED last_cardid
    BY <1>4 DEF ServePattern, ServeRest
  <2>2. /\ to_host' \in Seq(Answers) /\ Len(to_host') <= MaxWire
        /\ \A i \in DOMAIN to_host' :
             to_host'[i] = a \/ \E j \in DOMAIN to_host : to_host'[i] = to_host[j]
    BY <2>1, Answered DEF LinkInv
  <2>3. LinkTypeOK'
    <3>1. /\ UNCHANGED <<mode, host_up, hpc, pattern, last_pattern>>
          /\ lamp' \in Patterns \cup {"idle", "no_reply"} /\ no_reply' \in BOOLEAN
      BY <1>4 DEF LinkInv, LinkTypeOK, ServePattern, ServeRest
    <3> QED BY <1>1, <1>2, <2>1, <2>2, <3>1 DEF LinkInv, LinkTypeOK
  <2>4. AnswersAreOlder'
    BY <1>1, <1>2, <2>1, <2>2 DEF LinkInv, AnswersAreOlder
  <2>5. cards_in_transit' \subseteq cards_in_transit
    BY <2>1, <2>2 DEF cards_in_transit
  <2> QED BY <1>1, <2>3, <2>4, <2>5, Loses DEF LinkInv, StepOK
<1> QED BY <1>3, <1>4 DEF Serve

\* A swipe is newer than everything there is.
LEMMA SwipeStep ==
  ASSUME LinkInv, RfidRead
  PROVE  StepOK
<1>1. /\ swipes \in Nat /\ swipes' = swipes + 1 /\ last_cardid' = swipes + 1
      /\ swipes + 1 <= MaxSwipes /\ UNCHANGED <<to_host, card_id>>
  BY LinkAssumption DEF LinkInv, LinkTypeOK, RfidRead, hostVars
<1>2. LinkTypeOK'
  BY <1>1, LinkAssumption DEF LinkInv, LinkTypeOK, RfidRead, hostVars
<1>3. AnswersAreOlder'
  <2>1. \A i \in DOMAIN to_host : to_host[i] \in Int
    BY DEF LinkInv, LinkTypeOK
  <2> QED BY <1>1, <2>1 DEF LinkInv, AnswersAreOlder
<1> DEFINE rest == {c \in Cards : \E i \in DOMAIN to_host : to_host[i] = c}
<1>4. rest \in SUBSET cards_in_transit
  BY DEF cards_in_transit
<1>5. swipes' \in Cards
  BY <1>1, LinkAssumption
<1>6. cards_in_transit' = rest \cup {swipes'}
  BY <1>1, <1>5 DEF cards_in_transit
<1> QED BY <1>1, <1>2, <1>3, <1>4, <1>6
        DEF LinkInv, StepOK, Delivery!Next, Delivery!Swipe

\* What happens at the reader alone.
LEMMA ReaderStep ==
  ASSUME LinkInv,
         Silence \/ PatternDone \/ ReaderRestart
  PROVE  StepOK
<1> USE DEF hostVars
<1>1. CASE Silence \/ PatternDone
  <2>1. Quiet
    BY <1>1 DEF Quiet, Silence, PatternDone
  <2>2. LinkTypeOK'
    BY <1>1 DEF LinkInv, LinkTypeOK, Silence, PatternDone
  <2> QED BY <2>1, <2>2, QuietStutters DEF LinkInv, StepOK
<1>2. CASE ReaderRestart
  <2>1. last_cardid' = 0 /\ UNCHANGED <<to_host, swipes, card_id>>
    BY <1>2 DEF ReaderRestart
  <2>2. to_reader' \in Seq(Commands) /\ Len(to_reader') <= MaxWire
    <3>1. to_reader' \in {<<>>, <<"part">>}
      BY <1>2 DEF ReaderRestart
    <3> QED BY <3>1, FragmentsFit
  <2>3. swipes \in Nat
    BY DEF LinkInv, LinkTypeOK
  <2>4. LinkTypeOK'
    <3>1. /\ UNCHANGED <<mode, host_up, hpc, pattern, last_pattern>>
          /\ lamp' = "idle" /\ no_reply' = FALSE
      BY <1>2 DEF ReaderRestart
    <3>2. /\ mode' \in {"locked", "unlocked"} /\ host_up' \in BOOLEAN
          /\ hpc' \in {"poll", "read", "pattern"}
          /\ card_id' \in Cards \cup {NoCard}
          /\ pattern' \in Patterns \cup {"none"}
          /\ last_pattern' \in Patterns \cup {"none"}
      BY <2>1, <3>1 DEF LinkInv, LinkTypeOK
    <3>3. /\ to_host' \in Seq(Answers) /\ Len(to_host') <= MaxWire
          /\ swipes' \in 0..MaxSwipes /\ last_cardid' \in 0..swipes'
      BY <2>1, <2>3 DEF LinkInv, LinkTypeOK
    <3> QED BY <2>2, <3>1, <3>2, <3>3 DEF LinkTypeOK
  <2>5. AnswersAreOlder' /\ cards_in_transit' \subseteq cards_in_transit
    BY <2>1 DEF LinkInv, AnswersAreOlder, cards_in_transit
  <2> QED BY <2>1, <2>4, <2>5, Loses DEF LinkInv, StepOK
<1> QED BY <1>1, <1>2

LEMMA LinkStarts ==
  ASSUME LinkInit
  PROVE  LinkInv /\ Delivery!Init
<1> USE DEF LinkInit
<1>1. LinkTypeOK
  <2>1. /\ to_reader \in Seq(Commands) /\ to_host \in Seq(Answers)
        /\ Len(to_reader) <= MaxWire /\ Len(to_host) <= MaxWire
    BY FragmentsFit
  <2>2. swipes \in 0..MaxSwipes /\ last_cardid \in 0..swipes
    BY LinkAssumption
  <2>3. /\ mode \in {"locked", "unlocked"} /\ host_up \in BOOLEAN
        /\ hpc \in {"poll", "read", "pattern"}
        /\ card_id \in Cards \cup {NoCard}
        /\ pattern \in Patterns \cup {"none"}
        /\ last_pattern \in Patterns \cup {"none"}
        /\ lamp \in Patterns \cup {"idle", "no_reply"} /\ no_reply \in BOOLEAN
    OBVIOUS
  <2> HIDE DEF LinkInit
  <2> QED BY <2>1, <2>2, <2>3 DEF LinkTypeOK
<1>2. AnswersAreOlder /\ cards_in_transit = {}
  BY DEF AnswersAreOlder, cards_in_transit
<1> QED BY <1>1, <1>2 DEF LinkInv, Delivery!Init

LEMMA LinkStep ==
  ASSUME LinkInv, [LinkNext]_linkVars
  PROVE  StepOK
<1>1. CASE UNCHANGED linkVars
  <2>1. Quiet /\ LinkTypeOK'
    BY <1>1 DEF Quiet, LinkInv, LinkTypeOK, linkVars, hostVars, readerVars
  <2> QED BY <2>1, QuietStutters DEF LinkInv, StepOK
<1>2. CASE LinkNext
  BY <1>2, ControllerStep, ThreadStep, ReadStep, HostDownStep, ServeStep, SwipeStep, ReaderStep
  DEF LinkNext, HostThread
<1> QED BY <1>1, <1>2

\* The types of the line hold for any number of swipes and any length of it.
THEOREM LinkTypeCorrect == LinkSpec => []LinkTypeOK
<1>1. LinkInit => LinkInv
  BY LinkStarts
<1>2. LinkInv /\ [LinkNext]_linkVars => LinkInv'
  BY LinkStep DEF StepOK
<1>3. LinkInv => LinkTypeOK
  BY DEF LinkInv
<1> QED BY <1>1, <1>2, <1>3, PTL DEF LinkSpec

\* However the answers are delayed, run together, cut or lost, no swipe reaches
\* the controller twice or after a later one.
THEOREM CardsDeliveredOnce == LinkSpec => DeliversCardsOnce
<1>1. LinkInit => LinkInv /\ Delivery!Init
  BY LinkStarts
<1>2. LinkInv /\ [LinkNext]_linkVars =>
        LinkInv' /\ [Delivery!Next]_Delivery!deliveryVars
  BY LinkStep DEF StepOK
<1> QED BY <1>1, <1>2, PTL DEF LinkSpec, DeliversCardsOnce, Delivery!Spec
=============================================================================
