------------------------ MODULE NotificationsProofs ------------------------
(***************************************************************************)
(* Notifications for any users, streams and numbers of messages, whatever  *)
(* is lost, closed or restarted: a stream is sent its user's notifications *)
(* in order, and none is left out between two others unless it was lost.   *)
(***************************************************************************)
EXTENDS Notifications, SequenceTheorems, TLAPS

(* Messages between sendNotification and the table of streams. *)
Way == Range(inbox) \cup Range(commands)

Increasing(q) ==
    \A i, j \in 1..Len(q) : i < j /\ q[i][1] = q[j][1] => q[i][2] < q[j][2]

(* Nothing overtakes on the way: what is behind was sent later. *)
WayInOrder ==
    /\ Increasing(inbox) /\ Increasing(commands)
    /\ \A a \in Range(inbox), b \in Range(commands) : a[1] = b[1] => a[2] < b[2]
    /\ \A m \in Way : m[2] <= published[m[1]]

(* Nothing sent after a message on the way is forgotten. *)
WayComplete ==
    \A m \in Way : \A n \in (m[2] + 1)..published[m[1]] : <<m[1], n>> \in lost \cup Way

(* A stream has been sent less than what is on its way, and what it has not been
   sent since its last message is on its way or lost. *)
StreamOK(s) ==
    /\ \A i \in 1..Len(received[s]) :
         /\ received[s][i][1] = OwnerOf[s] /\ received[s][i][2] <= published[OwnerOf[s]]
         /\ \A m \in Way : m[1] = OwnerOf[s] => received[s][i][2] < m[2]
    /\ received[s] # <<>> /\ s \notin closed =>
         /\ connections[s] = 1
         /\ \A n \in (received[s][Len(received[s])][2] + 1)..published[OwnerOf[s]] :
              <<OwnerOf[s], n>> \in lost \cup Way
    /\ phase[s] = "new" => received[s] = <<>> /\ connections[s] = 0 /\ s \notin closed

IInv ==
    /\ TypeOK /\ WayInOrder /\ WayComplete /\ OwnInOrder /\ NoGaps
    /\ \A s \in Streams : StreamOK(s)

-----------------------------------------------------------------------------
(* Queues of messages. *)

LEMMA AppendFacts ==
    ASSUME NEW q \in Seq(Message), NEW e \in Message
    PROVE  /\ Append(q, e) \in Seq(Message) /\ Range(Append(q, e)) = Range(q) \cup {e}
           /\ Increasing(q) /\ (\A m \in Range(q) : m[1] = e[1] => m[2] < e[2]) =>
                Increasing(Append(q, e))
<1>1. /\ Append(q, e) \in Seq(Message) /\ Len(Append(q, e)) = Len(q) + 1 /\ Len(q) \in Nat
      /\ \A i \in 1..Len(q) : Append(q, e)[i] = q[i]
      /\ Append(q, e)[Len(q) + 1] = e
  BY AppendProperties, LenProperties
<1>2. \A i : i \in 1..Len(Append(q, e)) <=> i \in 1..Len(q) \/ i = Len(q) + 1
  BY <1>1
<1>3. /\ DOMAIN q = 1..Len(q) /\ DOMAIN Append(q, e) = 1..Len(Append(q, e))
  BY <1>1, LenProperties
<1>4. Range(Append(q, e)) = Range(q) \cup {e}
  BY <1>1, <1>2, <1>3 DEF Range
<1>5. ASSUME Increasing(q), \A m \in Range(q) : m[1] = e[1] => m[2] < e[2]
      PROVE  Increasing(Append(q, e))
  <2>1. \A i \in 1..Len(q) : q[i] \in Range(q)
    BY <1>3 DEF Range
  <2>. QED  BY <1>1, <1>2, <1>5, <2>1 DEF Increasing
<1>. QED  BY <1>1, <1>4, <1>5

LEMMA TailFacts ==
    ASSUME NEW q \in Seq(Message), q # <<>>
    PROVE  /\ Tail(q) \in Seq(Message) /\ Head(q) \in Message
           /\ Range(q) = Range(Tail(q)) \cup {Head(q)}
           /\ Increasing(q) =>
                /\ Increasing(Tail(q))
                /\ \A m \in Range(Tail(q)) : m[1] = Head(q)[1] => Head(q)[2] < m[2]
<1>1. /\ Tail(q) \in Seq(Message) /\ Len(Tail(q)) = Len(q) - 1 /\ Len(q) \in Nat \ {0}
      /\ \A i \in 1..Len(Tail(q)) : Tail(q)[i] = q[i + 1]
      /\ Head(q) = q[1] /\ Head(q) \in Message
  OBVIOUS
<1>2. /\ DOMAIN q = 1..Len(q) /\ DOMAIN Tail(q) = 1..Len(Tail(q))
  BY <1>1, LenProperties
<1>3. \A i \in 1..Len(q) : i = 1 \/ (i - 1 \in 1..Len(Tail(q)) /\ q[i] = Tail(q)[i - 1])
  BY <1>1
<1>4. \A i \in 1..Len(Tail(q)) : i + 1 \in 1..Len(q)
  BY <1>1
<1>5. Range(q) = Range(Tail(q)) \cup {Head(q)}
  <2>1. Range(q) \subseteq Range(Tail(q)) \cup {Head(q)}
    <3> SUFFICES ASSUME NEW m \in Range(q) PROVE m \in Range(Tail(q)) \cup {Head(q)}
      OBVIOUS
    <3>1. PICK i \in 1..Len(q) : m = q[i]
      BY <1>2 DEF Range
    <3>2. CASE i = 1
      BY <1>1, <3>1, <3>2
    <3>3. CASE i - 1 \in 1..Len(Tail(q)) /\ q[i] = Tail(q)[i - 1]
      BY <1>2, <3>1, <3>3 DEF Range
    <3>. QED  BY <1>3, <3>2, <3>3
  <2>2. Range(Tail(q)) \cup {Head(q)} \subseteq Range(q)
    BY <1>1, <1>2, <1>4 DEF Range
  <2>. QED  BY <2>1, <2>2
<1>6. ASSUME Increasing(q)
      PROVE  /\ Increasing(Tail(q))
             /\ \A m \in Range(Tail(q)) : m[1] = Head(q)[1] => Head(q)[2] < m[2]
  <2>1. Increasing(Tail(q))
    BY <1>1, <1>4, <1>6 DEF Increasing
  <2>2. \A i \in 1..Len(Tail(q)) : Tail(q)[i][1] = Head(q)[1] => Head(q)[2] < Tail(q)[i][2]
    BY <1>1, <1>4, <1>6 DEF Increasing
  <2>. QED  BY <1>2, <2>1, <2>2 DEF Range
<1>. QED  BY <1>1, <1>5, <1>6

LEMMA EmptyFacts == Range(<<>>) = {} /\ Increasing(<<>>) /\ <<>> \in Seq(Message)
  BY EmptySeq DEF Range, Increasing

LEMMA RangeType == \A q \in Seq(Message) : Range(q) \subseteq Message
  BY DEF Range

LEMMA MessageFacts ==
    ASSUME TypeOK
    PROVE  /\ Way \subseteq Message /\ \A u \in Users : published[u] \in Nat
           /\ \A s \in Streams : OwnerOf[s] \in Users /\ Len(received[s]) \in Nat
           /\ \A s \in Streams : \A i \in 1..Len(received[s]) : received[s][i] \in Message
           /\ \A m \in Message : m[1] \in Users /\ m[2] \in Nat \ {0}
<1>2. Way \subseteq Message
  BY RangeType DEF Way, TypeOK
<1>3. \A s \in Streams : OwnerOf[s] \in Users /\ received[s] \in Seq(Message)
  BY OwnerAssumption DEF TypeOK
<1>. QED  BY <1>2, <1>3, LenProperties, ElementOfSeq DEF TypeOK, Message

-----------------------------------------------------------------------------
(* A step that sends nothing to a stream: messages leave the way for the lost
   ones only, come in behind all others, and no open stream is forgotten. *)
LEMMA OtherStep ==
    ASSUME IInv, TypeOK', UNCHANGED received,
           lost \subseteq lost', Way \subseteq Way' \cup lost',
           \A u \in Users : published[u] <= published'[u],
           \A m \in Way' : m \in Way \/ published[m[1]] < m[2],
           \A u \in Users : \A n \in (published[u] + 1)..published'[u] : <<u, n>> \in Way',
           \A s \in Streams : s \notin closed' /\ phase[s] # "new" =>
               s \notin closed /\ connections'[s] = connections[s],
           \A s \in Streams : phase'[s] = "new" =>
               phase[s] = "new" /\ connections'[s] = connections[s] /\ (s \in closed' => s \in closed)
    PROVE  WayComplete' /\ OwnInOrder' /\ NoGaps' /\ \A s \in Streams : StreamOK(s)'
<1>0. WayComplete'
  <2> SUFFICES ASSUME NEW m \in Way', NEW n \in (m[2] + 1)..published'[m[1]]
               PROVE  <<m[1], n>> \in lost' \cup Way'
    BY DEF WayComplete
  <2>1. m[1] \in Users /\ m[2] \in Nat
    <3>1. Way' \subseteq Message
      BY RangeType DEF Way, TypeOK
    <3>2. m \in Message
      BY <3>1
    <3>. QED  BY <3>2 DEF Message
  <2>2. published[m[1]] \in Nat /\ published'[m[1]] \in Nat
    BY <2>1 DEF IInv, TypeOK
  <2>3. CASE n \in (published[m[1]] + 1)..published'[m[1]]
    BY <2>1, <2>3
  <2>4. CASE m \in Way /\ n \in (m[2] + 1)..published[m[1]]
    BY <2>4 DEF IInv, WayComplete
  <2>. QED  BY <2>1, <2>2, <2>3, <2>4
<1>1. OwnInOrder'
  BY DEF IInv, OwnInOrder
<1>2. NoGaps'
  BY DEF IInv, NoGaps
<1>3. ASSUME NEW s \in Streams PROVE StreamOK(s)'
  <2>. DEFINE r == received[s]
              u == OwnerOf[s]
  <2>1. /\ u \in Users /\ published[u] \in Nat /\ published'[u] \in Nat /\ Len(r) \in Nat
        /\ \A i \in 1..Len(r) : r[i][2] \in Nat
        /\ \A m \in Way' : m[2] \in Nat
    <3>1. Way' \subseteq Message /\ \A v \in Users : published'[v] \in Nat
      BY RangeType DEF Way, TypeOK
    <3>. QED  BY <3>1, MessageFacts DEF IInv
  <2>2. StreamOK(s)
    BY DEF IInv
  <2>3. ASSUME NEW i \in 1..Len(r)
        PROVE  /\ r[i][1] = u /\ r[i][2] <= published'[u]
               /\ \A m \in Way' : m[1] = u => r[i][2] < m[2]
    BY <2>1, <2>2, <2>3 DEF StreamOK
  <2>4. ASSUME r # <<>>, s \notin closed'
        PROVE  /\ connections'[s] = 1
               /\ \A n \in (r[Len(r)][2] + 1)..published'[u] : <<u, n>> \in lost' \cup Way'
    <3>1. phase[s] # "new" /\ s \notin closed
      BY <2>2, <2>4 DEF StreamOK
    <3>2. \A n \in (r[Len(r)][2] + 1)..published[u] : <<u, n>> \in lost' \cup Way'
      BY <2>2, <2>4, <3>1 DEF StreamOK
    <3>3. Len(r) \in 1..Len(r)
      BY <2>1, <2>4, EmptySeq DEF IInv, TypeOK
    <3>4. \A n \in (r[Len(r)][2] + 1)..published'[u] :
             n \in (r[Len(r)][2] + 1)..published[u] \/ n \in (published[u] + 1)..published'[u]
      BY <2>1, <3>3
    <3>. QED  BY <2>1, <2>2, <2>4, <3>1, <3>2, <3>4 DEF StreamOK
  <2>. QED  BY <2>2, <2>3, <2>4 DEF StreamOK
<1>. QED  BY <1>0, <1>1, <1>2, <1>3

LEMMA InitInv == Init => IInv
<1> SUFFICES ASSUME Init PROVE IInv
  OBVIOUS
<1>1. Way = {} /\ WayInOrder /\ WayComplete
  BY EmptyFacts DEF Init, Way, WayInOrder, WayComplete
<1>2. TypeOK
  <2>1. /\ published \in [Users -> Nat] /\ connections \in [Streams -> 0..1]
        /\ owed \in [Streams -> SUBSET (Nat \ {0})]
    BY DEF Init
  <2>2. received \in [Streams -> Seq(Message)]
    BY EmptyFacts DEF Init
  <2>. QED  BY <2>1, <2>2, EmptyFacts DEF Init, TypeOK
<1>3. \A s \in Streams : received[s] = <<>> /\ Len(received[s]) = 0
  BY EmptySeq DEF Init
<1>4. OwnInOrder /\ NoGaps
  BY <1>3 DEF OwnInOrder, NoGaps
<1>5. \A s \in Streams : StreamOK(s)
  BY <1>3 DEF Init, StreamOK
<1>. QED  BY <1>1, <1>2, <1>4, <1>5 DEF IInv

LEMMA SendInv ==
    ASSUME IInv, NEW u \in Users, SendNotification(u)
    PROVE  IInv'
<1>. DEFINE m == <<u, published[u] + 1>>
<1>1. /\ published' = [published EXCEPT ![u] = @ + 1] /\ commands' = Append(commands, m)
      /\ UNCHANGED <<inbox, subscribed, table, received, lost>>
  BY DEF SendNotification
<1>2. TypeOK /\ published[u] \in Nat /\ m \in Message
  BY MessageFacts DEF IInv, Message
<1>3. commands' \in Seq(Message) /\ Range(commands') = Range(commands) \cup {m}
  BY <1>1, <1>2, AppendFacts DEF TypeOK
<1>4. Way' = Way \cup {m} /\ Range(inbox') = Range(inbox)
  BY <1>1, <1>3 DEF Way
<1>5. \A a \in Way : a[1] = u => a[2] < m[2]
  BY <1>2, MessageFacts DEF IInv, WayInOrder
<1>6. Increasing(commands')
  BY <1>1, <1>2, <1>5, AppendFacts DEF IInv, WayInOrder, TypeOK, Way
<1>7. \A v \in Users : published[v] \in Nat /\ published'[v] = IF v = u THEN published[u] + 1 ELSE published[v]
  BY <1>1, <1>2, MessageFacts DEF TypeOK
<1>8. \A a \in Way : a[1] \in Users /\ a[2] \in Nat
  BY <1>2, MessageFacts
<1>9. WayInOrder'
  <2>1. Increasing(inbox')
    BY <1>1 DEF IInv, WayInOrder
  <2>2. \A a \in Range(inbox'), b \in Range(commands') : a[1] = b[1] => a[2] < b[2]
    BY <1>3, <1>4, <1>5 DEF IInv, WayInOrder, Way
  <2>3. \A a \in Way' : a[2] <= published'[a[1]]
    BY <1>2, <1>4, <1>7, <1>8 DEF IInv, WayInOrder
  <2>. QED  BY <1>6, <2>1, <2>2, <2>3 DEF WayInOrder
<1>10. TypeOK'
  <2>1. owed' \in [Streams -> SUBSET (Nat \ {0})]
    BY <1>2 DEF SendNotification, TypeOK
  <2>. QED  BY <1>1, <1>2, <1>3, <2>1 DEF TypeOK, table
<1>11. WayComplete' /\ OwnInOrder' /\ NoGaps' /\ \A s \in Streams : StreamOK(s)'
  <2>1. \A v \in Users : published[v] <= published'[v]
    BY <1>7
  <2>2. \A a \in Way' : a \in Way \/ published[a[1]] < a[2]
    BY <1>2, <1>4
  <2>3. \A v \in Users : \A n \in (published[v] + 1)..published'[v] : <<v, n>> \in Way'
    BY <1>4, <1>7
  <2>. QED  BY <1>1, <1>4, <1>10, <2>1, <2>2, <2>3, OtherStep DEF table
<1>. QED  BY <1>9, <1>10, <1>11 DEF IInv

LEMMA PublishInv ==
    ASSUME IInv, Publish
    PROVE  IInv'
<1>. DEFINE m == Head(commands)
<1>1. /\ commands # <<>> /\ commands' = Tail(commands)
      /\ UNCHANGED <<published, subscribed, table, received, owed>>
      /\ \/ inbox' = Append(inbox, m) /\ UNCHANGED lost
         \/ lost' = lost \cup {m} /\ UNCHANGED inbox
  BY DEF Publish
<1>2. TypeOK /\ inbox \in Seq(Message) /\ commands \in Seq(Message) /\ Increasing(commands)
  BY DEF IInv, WayInOrder, TypeOK
<1>3. /\ commands' \in Seq(Message) /\ m \in Message
      /\ Range(commands) = Range(commands') \cup {m} /\ Increasing(commands')
      /\ \A a \in Range(commands') : a[1] = m[1] => m[2] < a[2]
  BY <1>1, <1>2, TailFacts
<1>. HIDE DEF m
<1>4. CASE inbox' = Append(inbox, m) /\ UNCHANGED lost
  <2>1. /\ inbox' \in Seq(Message) /\ Range(inbox') = Range(inbox) \cup {m} /\ Increasing(inbox')
    BY <1>2, <1>3, <1>4, AppendFacts DEF IInv, WayInOrder
  <2>2. Way' = Way
    BY <1>3, <2>1 DEF Way
  <2>3. WayInOrder'
    BY <1>1, <1>3, <2>1, <2>2 DEF IInv, WayInOrder
  <2>4. TypeOK'
    BY <1>1, <1>2, <1>3, <1>4, <2>1 DEF TypeOK, table
  <2>5. WayComplete' /\ OwnInOrder' /\ NoGaps' /\ \A s \in Streams : StreamOK(s)'
    BY <1>1, <1>2, <1>4, <2>2, <2>4, OtherStep, MessageFacts DEF table
  <2>. QED  BY <2>3, <2>4, <2>5 DEF IInv
<1>5. CASE lost' = lost \cup {m} /\ UNCHANGED inbox
  <2>1. Way' \subseteq Way /\ Way \subseteq Way' \cup lost'
    BY <1>3, <1>5 DEF Way
  <2>2. WayInOrder'
    BY <1>1, <1>3, <1>5, <2>1 DEF IInv, WayInOrder
  <2>3. TypeOK'
    BY <1>1, <1>2, <1>3, <1>5 DEF TypeOK, table
  <2>4. WayComplete' /\ OwnInOrder' /\ NoGaps' /\ \A s \in Streams : StreamOK(s)'
    BY <1>1, <1>2, <1>5, <2>1, <2>3, OtherStep, MessageFacts DEF table
  <2>. QED  BY <2>2, <2>3, <2>4 DEF IInv
<1>. QED  BY <1>1, <1>4, <1>5

(* What the subscription and the streams' own steps do to the invariant. *)
LEMMA QuietInv ==
    ASSUME IInv, Subscribe \/ Drop \/ (\E s \in Streams : Store(s) \/ Close(s) \/ Setup(s))
    PROVE  IInv'
<1>0. TypeOK /\ \A u \in Users : published[u] \in Nat
  BY MessageFacts DEF IInv
<1>. USE DEF channel, table, history
<1>1. CASE Subscribe
  <2>1. TypeOK' /\ Way' = Way
    BY <1>0, <1>1 DEF Subscribe, TypeOK, Way
  <2>2. WayInOrder'
    BY <1>1, <2>1 DEF Subscribe, IInv, WayInOrder
  <2>3. WayComplete' /\ OwnInOrder' /\ NoGaps' /\ \A s \in Streams : StreamOK(s)'
    BY <1>0, <1>1, <2>1, OtherStep DEF Subscribe
  <2>. QED  BY <2>1, <2>2, <2>3 DEF IInv
<1>2. CASE Drop
  <2>1. /\ Range(inbox) \subseteq Message /\ Range(inbox') = {} /\ Increasing(inbox')
        /\ inbox' \in Seq(Message)
    BY <1>0, <1>2, EmptyFacts, RangeType DEF Drop, TypeOK
  <2>2. TypeOK'
    BY <1>0, <1>2, <2>1 DEF Drop, TypeOK
  <2>3. Way' \subseteq Way /\ Way \subseteq Way' \cup lost'
    BY <1>2, <2>1 DEF Drop, Way
  <2>4. WayInOrder'
    BY <1>2, <2>1, <2>3 DEF Drop, IInv, WayInOrder
  <2>5. WayComplete' /\ OwnInOrder' /\ NoGaps' /\ \A s \in Streams : StreamOK(s)'
    BY <1>0, <1>2, <2>2, <2>3, OtherStep DEF Drop
  <2>. QED  BY <2>2, <2>4, <2>5 DEF IInv
<1>3. ASSUME NEW s \in Streams, Store(s) \/ Close(s) \/ Setup(s) PROVE IInv'
  <2>1. UNCHANGED <<published, commands, inbox, subscribed, received, owed, lost>>
    BY <1>3 DEF Store, Close, Setup, Greet, RemoveConnection
  <2>2. Way' = Way /\ WayInOrder'
    BY <2>1 DEF Way, IInv, WayInOrder
  <2>3. phase[s] = "new" => connections[s] = 0 /\ s \notin closed
    BY DEF IInv, StreamOK
  <2>4. /\ connections' \in [Streams -> 0..1] /\ phase' \in [Streams -> {"new", "stored", "open"}]
        /\ closed' \subseteq Streams /\ handlers' \subseteq closed'
    <3>1. CASE Store(s)
      <4>1. connections' = [connections EXCEPT ![s] = 1]
        BY <1>0, <2>3, <3>1 DEF Store, TypeOK
      <4>. QED  BY <1>0, <3>1, <4>1 DEF Store, TypeOK
    <3>2. CASE Close(s)
      BY <1>0, <3>2 DEF Close, TypeOK
    <3>3. CASE Greet(s)
      BY <1>0, <3>3 DEF Greet, TypeOK
    <3>4. CASE RemoveConnection(s)
      BY <1>0, <3>4 DEF RemoveConnection, TypeOK
    <3>. QED  BY <1>3, <3>1, <3>2, <3>3, <3>4 DEF Setup
  <2>5. TypeOK'
    BY <1>0, <2>1, <2>4 DEF TypeOK
  <2>6. /\ \A t \in Streams : t \notin closed' /\ phase[t] # "new" =>
             t \notin closed /\ connections'[t] = connections[t]
        /\ \A t \in Streams : phase'[t] = "new" =>
             phase[t] = "new" /\ connections'[t] = connections[t] /\ (t \in closed' => t \in closed)
    <3>1. CASE Store(s)
      BY <1>0, <3>1 DEF Store, TypeOK, IInv, StreamOK
    <3>2. CASE Close(s)
      BY <1>0, <3>2 DEF Close, TypeOK, IInv, StreamOK
    <3>3. CASE Greet(s)
      BY <1>0, <3>3 DEF Greet, TypeOK, IInv, StreamOK
    <3>4. CASE RemoveConnection(s)
      BY <1>0, <3>4 DEF RemoveConnection, TypeOK, IInv, StreamOK
    <3>. QED  BY <1>3, <3>1, <3>2, <3>3, <3>4 DEF Setup
  <2>7. WayComplete' /\ OwnInOrder' /\ NoGaps' /\ \A t \in Streams : StreamOK(t)'
    BY <1>0, <2>1, <2>2, <2>5, <2>6, OtherStep
  <2>. QED  BY <2>2, <2>5, <2>7 DEF IInv
<1>. QED  BY <1>1, <1>2, <1>3

LEMMA RestartInv ==
    ASSUME IInv, Restart
    PROVE  IInv'
<1>1. TypeOK /\ \A u \in Users : published[u] \in Nat
  BY MessageFacts DEF IInv
<1>2. /\ commands' = <<>> /\ inbox' = <<>> /\ subscribed' = FALSE
      /\ UNCHANGED <<published, received, owed>>
      /\ lost' = lost \cup Way
  BY DEF Restart, Way
<1>3. Range(commands') = {} /\ Range(inbox') = {} /\ Way' = {} /\ WayInOrder'
  BY <1>2, EmptyFacts DEF Way, WayInOrder
<1>4. TypeOK'
  <2>1. Way \subseteq Message
    BY <1>1, MessageFacts
  <2>2. /\ connections' \in [Streams -> 0..1] /\ phase' \in [Streams -> {"new", "stored", "open"}]
        /\ closed' \subseteq Streams /\ handlers' = {}
    BY <1>1 DEF Restart, TypeOK
  <2>. QED  BY <1>1, <1>2, <2>1, <2>2, EmptyFacts DEF TypeOK
<1>5. WayComplete' /\ OwnInOrder' /\ NoGaps' /\ \A s \in Streams : StreamOK(s)'
  <2>1. \A s \in Streams : s \notin closed' => phase[s] = "new"
    BY DEF Restart
  <2>2. \A s \in Streams : phase'[s] = "new" =>
           phase[s] = "new" /\ connections'[s] = connections[s] /\ (s \in closed' => s \in closed)
    BY <1>1 DEF Restart, TypeOK, IInv, StreamOK
  <2>. QED  BY <1>1, <1>2, <1>3, <1>4, <2>1, <2>2, OtherStep
<1>. QED  BY <1>3, <1>4, <1>5 DEF IInv

(* The message at the head goes to every open stream of its user. *)
LEMMA DispatchInv ==
    ASSUME IInv, Dispatch
    PROVE  IInv'
<1>. DEFINE m == Head(inbox)
<1>1. /\ inbox # <<>> /\ inbox' = Tail(inbox)
      /\ UNCHANGED <<published, commands, subscribed, table, history>>
      /\ \A s \in Streams : received'[s] =
            IF s \in closed \/ OwnerOf[s] # m[1] THEN received[s]
            ELSE received[s] \o [i \in 1..connections[s] |-> m]
      /\ received' = [s \in Streams |-> received'[s]]
  BY DEF Dispatch
<1>2. TypeOK /\ inbox \in Seq(Message) /\ Increasing(inbox)
  BY DEF IInv, WayInOrder, TypeOK
<1>3. /\ inbox' \in Seq(Message) /\ m \in Message /\ Range(inbox) = Range(inbox') \cup {m}
      /\ Increasing(inbox') /\ \A a \in Range(inbox') : a[1] = m[1] => m[2] < a[2]
  BY <1>1, <1>2, TailFacts
<1>. HIDE DEF m
<1>4. /\ Way = Way' \cup {m} /\ \A a \in Way' : a[1] = m[1] => m[2] < a[2]
  BY <1>1, <1>3 DEF Way, IInv, WayInOrder
<1>5. WayInOrder'
  BY <1>1, <1>3, <1>4 DEF IInv, WayInOrder
<1>6. /\ \A u \in Users : published[u] \in Nat
      /\ m[1] \in Users /\ m[2] \in Nat \ {0} /\ m[2] <= published[m[1]] /\ m = <<m[1], m[2]>>
  BY <1>2, <1>3, <1>4, MessageFacts DEF IInv, WayInOrder, Message
<1>11. WayComplete'
  <2> SUFFICES ASSUME NEW a \in Way', NEW n \in (a[2] + 1)..published'[a[1]]
               PROVE  <<a[1], n>> \in lost' \cup Way'
    BY DEF WayComplete
  <2>1. UNCHANGED <<published, lost>> /\ a \in Way
    BY <1>1, <1>4 DEF history
  <2>2. a[2] \in Nat /\ a[1] \in Users
    BY <1>2, <2>1, MessageFacts
  <2>3. <<a[1], n>> # m
    BY <1>4, <1>6, <2>1, <2>2
  <2>. QED  BY <1>4, <2>1, <2>3 DEF IInv, WayComplete
(* What each stream holds afterwards. *)
<1>7. ASSUME NEW s \in Streams, s \notin closed, OwnerOf[s] = m[1], connections[s] = 1
      PROVE  /\ received'[s] \in Seq(Message) /\ Len(received'[s]) = Len(received[s]) + 1
             /\ Len(received[s]) \in Nat
             /\ \A i \in 1..Len(received[s]) : received'[s][i] = received[s][i]
             /\ received'[s][Len(received[s]) + 1] = m
  <2>1. received[s] \in Seq(Message) /\ [i \in 1..1 |-> m] \in Seq(Message)
    BY <1>2, <1>3 DEF TypeOK
  <2>2. received'[s] = received[s] \o [i \in 1..1 |-> m]
    BY <1>1, <1>7
  <2>3. Len([i \in 1..1 |-> m]) = 1 /\ [i \in 1..1 |-> m][1] = m
    OBVIOUS
  <2>. HIDE DEF m
  <2>. QED  BY <2>1, <2>2, <2>3
<1>8. ASSUME NEW s \in Streams, s \in closed \/ OwnerOf[s] # m[1] \/ connections[s] # 1
      PROVE  received'[s] = received[s]
  <2>1. CASE s \in closed \/ OwnerOf[s] # m[1]
    BY <1>1, <2>1
  <2>2. CASE s \notin closed /\ OwnerOf[s] = m[1] /\ connections[s] = 0
    <3>1. [i \in 1..0 |-> m] = <<>> /\ received[s] \in Seq(Message)
      BY <1>2, EmptySeq DEF TypeOK
    <3>2. received'[s] = received[s] \o [i \in 1..0 |-> m]
      BY <1>1, <2>2
    <3>. QED  BY <3>1, <3>2
  <2>. QED  BY <1>2, <1>8, <2>1, <2>2 DEF TypeOK
<1>9. TypeOK'
  <2>1. received' \in [Streams -> Seq(Message)]
    BY <1>1, <1>2, <1>7, <1>8 DEF TypeOK
  <2>. QED  BY <1>1, <1>2, <1>3, <2>1 DEF TypeOK, table, history
<1>10. ASSUME NEW s \in Streams
       PROVE  /\ StreamOK(s)'
              /\ \A i \in 1..Len(received'[s]) : i > 1 =>
                   /\ received'[s][i - 1][2] < received'[s][i][2]
                   /\ \A n \in (received'[s][i - 1][2] + 1)..(received'[s][i][2] - 1) :
                        <<OwnerOf[s], n>> \in lost'
  <2>1. /\ StreamOK(s) /\ UNCHANGED <<published, connections, phase, closed, lost>>
        /\ OwnerOf[s] \in Users /\ Len(received[s]) \in Nat
        /\ \A i \in 1..Len(received[s]) : received[s][i] \in Message
        /\ \A a \in Message : a[2] \in Nat \ {0}
        /\ \A a \in Way : a[2] \in Nat
    BY <1>1, <1>2, MessageFacts DEF IInv, table, history
  <2>2. \A i \in 1..Len(received[s]) : i > 1 =>
           /\ received[s][i - 1][2] < received[s][i][2]
           /\ \A n \in (received[s][i - 1][2] + 1)..(received[s][i][2] - 1) :
                <<OwnerOf[s], n>> \in lost
    BY <2>1 DEF IInv, OwnInOrder, NoGaps
  <2>3. CASE s \in closed \/ OwnerOf[s] # m[1] \/ connections[s] # 1
    <3>1. received'[s] = received[s]
      BY <1>8, <2>3
    <3>2. ASSUME received[s] # <<>>, s \notin closed
          PROVE  \A n \in (received[s][Len(received[s])][2] + 1)..published[OwnerOf[s]] :
                   <<OwnerOf[s], n>> \in lost \cup Way'
      BY <1>4, <1>6, <2>1, <2>3, <3>2 DEF StreamOK
    <3>. QED  BY <1>4, <2>1, <2>2, <3>1, <3>2 DEF StreamOK
  <2>4. CASE s \notin closed /\ OwnerOf[s] = m[1] /\ connections[s] = 1
    <3>. DEFINE r == received[s]
                k == Len(received[s])
    <3>1. /\ Len(received'[s]) = k + 1 /\ k \in Nat
          /\ \A i \in 1..k : received'[s][i] = r[i]
          /\ received'[s][k + 1] = m
      BY <1>7, <2>4
    <3>2. \A i \in 1..Len(received'[s]) : i \in 1..k \/ i = k + 1
      BY <3>1
    <3>3. m \in Way /\ \A i \in 1..k : r[i][2] < m[2]
      BY <1>4, <2>1, <2>4 DEF StreamOK
    <3>4. ASSUME k > 0
          PROVE  \A n \in (r[k][2] + 1)..(m[2] - 1) : <<OwnerOf[s], n>> \in lost
      <4>1. k \in 1..k /\ r # <<>> /\ r[k][2] \in Nat
        BY <2>1, <3>1, <3>4, EmptySeq
      <4>2. \A n \in (r[k][2] + 1)..(m[2] - 1) : <<OwnerOf[s], n>> \in lost \cup Way
        BY <1>6, <2>1, <2>4, <4>1 DEF StreamOK
      <4>3. \A n \in (r[k][2] + 1)..(m[2] - 1) : <<OwnerOf[s], n>> \notin Way
        BY <1>4, <1>6, <2>1, <2>4, <4>1
      <4>. QED  BY <4>2, <4>3
    <3>5. \A i \in 1..Len(received'[s]) : i > 1 =>
             /\ received'[s][i - 1][2] < received'[s][i][2]
             /\ \A n \in (received'[s][i - 1][2] + 1)..(received'[s][i][2] - 1) :
                  <<OwnerOf[s], n>> \in lost'
      <4> SUFFICES ASSUME NEW i \in 1..Len(received'[s]), i > 1
                   PROVE  /\ received'[s][i - 1][2] < received'[s][i][2]
                          /\ \A n \in (received'[s][i - 1][2] + 1)..(received'[s][i][2] - 1) :
                               <<OwnerOf[s], n>> \in lost'
        OBVIOUS
      <4>1. CASE i \in 1..k
        <5>1. i - 1 \in 1..k /\ received'[s][i - 1] = r[i - 1] /\ received'[s][i] = r[i]
          BY <3>1, <4>1
        <5>. QED  BY <2>1, <2>2, <4>1, <5>1
      <4>2. CASE i = k + 1
        <5>1. k \in 1..k /\ k > 0 /\ received'[s][i - 1] = r[k] /\ received'[s][i] = m
          BY <3>1, <4>2
        <5>. QED  BY <2>1, <3>3, <3>4, <5>1
      <4>. QED  BY <3>2, <4>1, <4>2
    <3>6. \A i \in 1..Len(received'[s]) :
             /\ received'[s][i][1] = OwnerOf[s] /\ received'[s][i][2] <= published[OwnerOf[s]]
             /\ \A a \in Way' : a[1] = OwnerOf[s] => received'[s][i][2] < a[2]
      <4> SUFFICES ASSUME NEW i \in 1..Len(received'[s])
                   PROVE  /\ received'[s][i][1] = OwnerOf[s]
                          /\ received'[s][i][2] <= published[OwnerOf[s]]
                          /\ \A a \in Way' : a[1] = OwnerOf[s] => received'[s][i][2] < a[2]
        OBVIOUS
      <4>1. CASE i \in 1..k
        BY <1>4, <2>1, <3>1, <4>1 DEF StreamOK
      <4>2. CASE i = k + 1
        BY <1>4, <1>6, <2>4, <3>1, <4>2
      <4>. QED  BY <3>2, <4>1, <4>2
    <3>7. \A n \in (m[2] + 1)..published[OwnerOf[s]] : <<OwnerOf[s], n>> \in lost \cup Way'
      <4>1. \A n \in (m[2] + 1)..published[m[1]] : <<m[1], n>> \in lost \cup Way /\ <<m[1], n>> # m
        BY <1>6, <3>3 DEF IInv, WayComplete
      <4>. QED  BY <1>4, <2>4, <4>1
    <3>. QED  BY <2>1, <2>4, <3>1, <3>5, <3>6, <3>7 DEF StreamOK
  <2>. QED  BY <2>3, <2>4
<1>12. OwnInOrder'
  BY <1>10 DEF OwnInOrder, StreamOK
<1>13. NoGaps'
  <2> SUFFICES ASSUME NEW s \in Streams, NEW i \in 2..Len(received'[s]),
                      NEW n \in (received'[s][i - 1][2] + 1)..(received'[s][i][2] - 1)
               PROVE  <<OwnerOf[s], n>> \in lost'
    BY DEF NoGaps
  <2>1. Len(received'[s]) \in Nat
    BY <1>9 DEF TypeOK
  <2>2. i \in 1..Len(received'[s]) /\ i > 1
    BY <2>1
  <2>. QED  BY <1>10, <2>2
<1>. QED  BY <1>5, <1>9, <1>10, <1>11, <1>12, <1>13 DEF IInv

LEMMA Invariance == Spec => []IInv
<1>1. IInv /\ [Next]_vars => IInv'
  <2> SUFFICES ASSUME IInv, [Next]_vars PROVE IInv'
    OBVIOUS
  <2>1. CASE UNCHANGED vars
    <3>1. TypeOK' /\ Way' = Way
      BY <2>1 DEF vars, IInv, TypeOK, Way
    <3>2. WayInOrder' /\ WayComplete'
      BY <2>1, <3>1 DEF vars, IInv, WayInOrder, WayComplete
    <3>3. OwnInOrder' /\ NoGaps' /\ \A s \in Streams : StreamOK(s)'
      BY <2>1, <3>1 DEF vars, IInv, OwnInOrder, NoGaps, StreamOK
    <3>. QED  BY <3>1, <3>2, <3>3 DEF IInv
  <2>. QED
    BY <2>1, SendInv, PublishInv, QuietInv, DispatchInv, RestartInv DEF Next
<1>. QED  BY <1>1, InitInv, PTL DEF Spec

(* Every variable keeps its type: a stream has one entry in the table at most. *)
THEOREM TypeCorrect == Spec => []TypeOK
<1>1. IInv => TypeOK
  BY DEF IInv
<1>. QED  BY <1>1, Invariance, PTL

(* A stream is sent its user's notifications only, in order and none twice ... *)
THEOREM OrderCorrect == Spec => []OwnInOrder
<1>1. IInv => OwnInOrder
  BY DEF IInv
<1>. QED  BY <1>1, Invariance, PTL

(* ... and what it was not sent between two of them was lost on the way, for any
   number of streams that open and close and any number of restarts. *)
THEOREM GapsCorrect == Spec => []NoGaps
<1>1. IInv => NoGaps
  BY DEF IInv
<1>. QED  BY <1>1, Invariance, PTL
=============================================================================
