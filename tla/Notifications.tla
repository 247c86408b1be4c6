--------------------------- MODULE Notifications ---------------------------
(***************************************************************************)
(* From sendNotification to the browser: a PUBLISH on the Redis client's   *)
(* connection, the subscriber's connection, and the table of open streams  *)
(* that SseConnectionManager keeps under its mutex.  A stream is put into  *)
(* the table, given its close handler and the ready event in two steps,    *)
(* between which the thread of the subscriber may deliver.                 *)
(***************************************************************************)
EXTENDS Naturals, Sequences, SequencesExt, FiniteSetsExt

CONSTANTS
    Users,
    Streams,           \* responses of GET /api/notifications/stream
    OwnerOf,           \* the X-User-ID of each
    Restarts,          \* TRUE: the engine may stop and start again
    MaxPublished       \* bound: notifications

ASSUME OwnerAssumption == OwnerOf \in [Streams -> Users]
ASSUME BoundAssumption == MaxPublished \in Nat

VARIABLES
    published,    \* notifications sent to each user, numbered from 1
    commands,     \* PUBLISH commands not yet executed
    inbox,        \* messages on the subscriber's connection
    subscribed,   \* whether psubscribe is in effect
    connections,  \* connections_: the entries of each stream in its user's vector
    phase,        \* how far the setup of each stream has come
    closed,       \* streams whose client has gone
    handlers,     \* close handlers that are to run
    received,     \* what each stream was sent
    owed,         \* history: what was sent while the stream was in the table
    lost          \* history: messages that never came to the subscriber

channel == <<published, commands, inbox, subscribed>>
table == <<connections, phase, closed, handlers>>
history == <<owed, lost>>
vars == <<published, commands, inbox, subscribed, connections, phase, closed,
          handlers, received, owed, lost>>

Message == Users \X (Nat \ {0})

TypeOK ==
    /\ published \in [Users -> Nat]
    /\ commands \in Seq(Message) /\ inbox \in Seq(Message)
    /\ subscribed \in BOOLEAN
    /\ connections \in [Streams -> 0..1]
    /\ phase \in [Streams -> {"new", "stored", "open"}]
    /\ closed \subseteq Streams /\ handlers \subseteq closed
    /\ received \in [Streams -> Seq(Message)]
    /\ owed \in [Streams -> SUBSET (Nat \ {0})] /\ lost \subseteq Message

Init ==
    /\ published = [u \in Users |-> 0]
    /\ commands = <<>> /\ inbox = <<>>
    /\ subscribed = FALSE
    /\ connections = [s \in Streams |-> 0]
    /\ phase = [s \in Streams |-> "new"]
    /\ closed = {} /\ handlers = {}
    /\ received = [s \in Streams |-> <<>>]
    /\ owed = [s \in Streams |-> {}] /\ lost = {}

-----------------------------------------------------------------------------
(* RedisNotificationService::sendNotification. *)
SendNotification(u) ==
    /\ MapThenSumSet(LAMBDA v : published[v], Users) < MaxPublished
    /\ published' = [published EXCEPT ![u] = @ + 1]
    /\ commands' = Append(commands, <<u, published[u] + 1>>)
    /\ owed' = [s \in Streams |->
          IF OwnerOf[s] = u /\ phase[s] # "new"
          THEN owed[s] \cup {published[u] + 1} ELSE owed[s]]
    /\ UNCHANGED <<inbox, subscribed, table, received, lost>>

(* Redis hands a message to the subscribers of the moment, and keeps none; a
   command may fail, which is only logged. *)
Publish ==
    /\ commands # <<>>
    /\ commands' = Tail(commands)
    /\ \/ subscribed /\ inbox' = Append(inbox, Head(commands)) /\ UNCHANGED lost
       \/ lost' = lost \cup {Head(commands)} /\ UNCHANGED inbox
    /\ UNCHANGED <<published, subscribed, table, received, owed>>

(* The psubscribe of the constructor, and again after the connection dropped. *)
Subscribe ==
    /\ ~subscribed
    /\ subscribed' = TRUE
    /\ UNCHANGED <<published, commands, inbox, table, received, history>>

Drop ==
    /\ subscribed
    /\ subscribed' = FALSE
    /\ lost' = lost \cup Range(inbox) /\ inbox' = <<>>
    /\ UNCHANGED <<published, commands, table, received, owed>>

(* Mutant: the user is not taken from the channel, every stream is sent it. *)
DispatchToAll ==
    /\ inbox # <<>>
    /\ inbox' = Tail(inbox)
    /\ received' = [s \in Streams |->
          IF s \in closed THEN received[s]
          ELSE received[s] \o [i \in 1..connections[s] |-> Head(inbox)]]
    /\ UNCHANGED <<published, commands, subscribed, table, history>>

(* Mutant: the loop over the user's streams ends with the first send. *)
DispatchToOne ==
    /\ inbox # <<>>
    /\ inbox' = Tail(inbox)
    /\ LET streams == {s \in Streams : OwnerOf[s] = Head(inbox)[1] /\ connections[s] > 0} IN
       \/ streams = {} /\ UNCHANGED received
       \/ \E s \in streams \ closed : received' = [received EXCEPT ![s] = Append(@, Head(inbox))]
    /\ UNCHANGED <<published, commands, subscribed, table, history>>

(* The subscriber's callback and sendToUser: one send for each entry of the user's
   vector, all under the mutex.  A send to a closed stream fails and is only logged. *)
Dispatch ==
    /\ inbox # <<>>
    /\ inbox' = Tail(inbox)
    /\ received' = [s \in Streams |->
          IF s \in closed \/ OwnerOf[s] # Head(inbox)[1] THEN received[s]
          ELSE received[s] \o [i \in 1..connections[s] |-> Head(inbox)]]
    /\ UNCHANGED <<published, commands, subscribed, table, history>>

-----------------------------------------------------------------------------
(* addConnection, under the mutex. *)
Store(s) ==
    /\ phase[s] = "new"
    /\ connections' = [connections EXCEPT ![s] = @ + 1]
    /\ phase' = [phase EXCEPT ![s] = "stored"]
    /\ UNCHANGED <<channel, closed, handlers, received, history>>

(* addConnection, after the mutex is released: setCloseHandler and the ready event. *)
Greet(s) ==
    /\ phase[s] = "stored"
    /\ phase' = [phase EXCEPT ![s] = "open"]
    /\ UNCHANGED <<channel, connections, closed, handlers, received, history>>

(* The client goes.  The stream's own loop, which ran addConnection to its end,
   notices it and is to run the close handler. *)
Close(s) ==
    /\ s \notin closed
    /\ phase[s] = "open"
    /\ closed' = closed \cup {s} /\ handlers' = handlers \cup {s}
    /\ UNCHANGED <<channel, connections, phase, received, history>>

(* Mutant: the user's whole entry goes with the first stream that closes. *)
RemoveConnectionsOfUser(s) ==
    /\ s \in handlers
    /\ connections' = [t \in Streams |-> IF OwnerOf[t] = OwnerOf[s] THEN 0 ELSE connections[t]]
    /\ handlers' = handlers \ {s}
    /\ UNCHANGED <<channel, phase, closed, received, history>>

(* Mutant: std::remove without the erase, unless no other stream is left. *)
RemoveWithoutErase(s) ==
    /\ s \in handlers
    /\ connections' = [connections EXCEPT ![s] =
          IF \E t \in Streams \ {s} : OwnerOf[t] = OwnerOf[s] /\ connections[t] > 0 THEN @ ELSE 0]
    /\ handlers' = handlers \ {s}
    /\ UNCHANGED <<channel, phase, closed, received, history>>

(* The close handler: removeConnection, under the mutex. *)
RemoveConnection(s) ==
    /\ s \in handlers
    /\ connections' = [connections EXCEPT ![s] = 0]
    /\ handlers' = handlers \ {s}
    /\ UNCHANGED <<channel, phase, closed, received, history>>

(* The engine stops: its streams and its connections to Redis end, the table and
   what was on its way are gone.  A stream that is opened later is a new one. *)
Restart ==
    /\ Restarts
    /\ closed' = {s \in Streams : phase[s] # "new"} /\ handlers' = {}
    /\ phase' = [s \in Streams |-> IF phase[s] = "new" THEN "new" ELSE "open"]
    /\ connections' = [s \in Streams |-> 0]
    /\ lost' = lost \cup Range(commands) \cup Range(inbox)
    /\ commands' = <<>> /\ inbox' = <<>> /\ subscribed' = FALSE
    /\ UNCHANGED <<published, received, owed>>

-----------------------------------------------------------------------------
Setup(s) == Greet(s) \/ RemoveConnection(s)

Next ==
    \/ \E u \in Users : SendNotification(u)
    \/ \E s \in Streams : Store(s) \/ Close(s) \/ Setup(s)
    \/ Publish \/ Dispatch \/ Subscribe \/ Drop \/ Restart

Spec == Init /\ [][Next]_vars

(* Redis and the subscriber's thread serve, and a stream's callbacks run on. *)
FairSpec ==
    /\ Spec
    /\ WF_vars(Publish) /\ WF_vars(Dispatch) /\ WF_vars(Subscribe)
    /\ \A s \in Streams : WF_vars(Setup(s))

-----------------------------------------------------------------------------
(* What the notification stream should guarantee. *)

(* Whatever is lost, a stream is sent its user's notifications only, none of
   them twice, in the order they were sent. *)
OwnInOrder ==
    \A s \in Streams : \A i \in 1..Len(received[s]) :
        /\ received[s][i][1] = OwnerOf[s]
        /\ i > 1 => received[s][i - 1][2] < received[s][i][2]

(* What a stream was not sent between two notifications it was sent was lost on
   the way: other streams that open and close do not disturb it. *)
NoGaps ==
    \A s \in Streams : \A i \in 2..Len(received[s]) :
        \A n \in (received[s][i - 1][2] + 1)..(received[s][i][2] - 1) :
            <<OwnerOf[s], n>> \in lost

(* A notification sent while a stream of its user is in the table, unless it is
   lost on the way, reaches that stream before it closes. *)
OpenStreamIsTold ==
    \A s \in Streams, n \in 1..MaxPublished :
        n \in owed[s] ~> \/ s \in closed
                          \/ <<OwnerOf[s], n>> \in Range(received[s]) \cup lost

(* A stream that closed leaves the table. *)
ClosedLeaves ==
    \A s \in Streams : s \in closed ~> connections[s] = 0
=============================================================================
