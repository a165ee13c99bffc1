----------------------------- MODULE Publisher -----------------------------
(***************************************************************************)
(* The connection the events of the backend leave through.                 *)
(*                                                                         *)
(* connect() puts its connection and its channel into the two fields of    *)
(* the publisher one await after the other, and attaches its handlers, at  *)
(* its end, to whatever the fields hold by then.  Several of them overlap: *)
(* every lost connection starts a timer for its "close" event and one more *)
(* when an "error" came first, a timer connects whether or not somebody    *)
(* else has in the meantime, and so does an event that finds no connection.*)
(* An event that finds a connection and no channel makes a channel of its  *)
(* own, which gets no handlers.                                            *)
(***************************************************************************)
EXTENDS Naturals, FiniteSets

CONSTANTS
  Connections,  \* connections, each with the connect() that makes it
  Null,         \* an empty field
  MaxTimers,    \* bound on pending timers
  MaxLosses,    \* bound on lost connections and channels
  LinkFaults    \* "unheard": a connection that has no handlers may be lost by itself

ASSUME PublisherAssumption ==
  /\ Null \notin Connections \cup (Connections \X {"connect", "publish"})
  /\ Connections \cap (Connections \X {"connect", "publish"}) = {}
  /\ MaxTimers \in Nat \ {0} /\ MaxLosses \in Nat

VARIABLES
  broker,               \* RabbitMQ is up
  connection, channel,  \* this.connection, this.channel
  open,                 \* connections and channels that are
  handled,              \* those that have handlers, too
  call,                 \* per connection: where its connect() is, and for whom
  remaking,             \* connections an event awaits a new channel of
  timers, losses

publisherVars == <<broker, connection, channel, open, handled, call, remaking, timers, losses>>

\* The channels of a connection are named for who has made them.
Channels == Connections \X {"connect", "publish"}
Parts(c) == {c} \cup ({c} \X {"connect", "publish"})

PublisherTypeOK ==
  /\ broker \in BOOLEAN
  /\ connection \in Connections \cup {Null} /\ channel \in Channels \cup {Null}
  /\ open \subseteq Connections \cup Channels /\ handled \subseteq open
  /\ call \in [Connections -> [at : {"done", "connect", "channel", "declare"}, by : {"timer", "event"}]]
  /\ remaking \subseteq Connections
  /\ timers \in 0 .. MaxTimers /\ losses \in 0 .. MaxLosses

Idle == [at |-> "done", by |-> "timer"]

\* onModuleInit has connected before the first request is served.
PublisherInit ==
  /\ broker = TRUE
  /\ connection \in Connections /\ channel = <<connection, "connect">>
  /\ open = {connection, channel} /\ handled = open
  /\ call = [c \in Connections |-> Idle]
  /\ remaking = {} /\ timers = 0 /\ losses = 0

-----------------------------------------------------------------------------
\* One timer, or as many as there are handlers to start one.
ScheduleReconnect(several) ==
  /\ connection' = Null /\ channel' = Null
  /\ \E n \in 1 .. (IF several THEN MaxTimers ELSE 1) :
       timers' = IF timers + n > MaxTimers THEN MaxTimers ELSE timers + n

\* The connections in lost close, and their channels with them: the handlers of
\* a connection reconnect, those of a channel empty the field, whatever it holds.
Close(lost) ==
  LET parts == UNION {Parts(c) : c \in lost}
  IN  /\ open' = open \ parts /\ handled' = handled \ parts
      /\ IF lost \cap handled # {}
         THEN ScheduleReconnect(TRUE)
         ELSE /\ channel' = IF parts \cap handled # {} THEN Null ELSE channel
              /\ UNCHANGED <<connection, timers>>

ConnectionLost(c) ==
  /\ losses < MaxLosses /\ c \in open
  /\ c \in handled \/ "unheard" \in LinkFaults
  /\ Close({c})
  /\ losses' = losses + 1
  /\ UNCHANGED <<broker, call, remaking>>

\* A channel without handlers stays in the field: closed, and not null.
ChannelLost(h) ==
  /\ losses < MaxLosses /\ h \in open
  /\ open' = open \ {h} /\ handled' = handled \ {h}
  /\ channel' = IF h \in handled THEN Null ELSE channel
  /\ losses' = losses + 1
  /\ UNCHANGED <<broker, connection, call, remaking, timers>>

BrokerStops ==
  /\ losses < MaxLosses /\ broker
  /\ broker' = FALSE
  /\ Close(Connections \cap open)
  /\ losses' = losses + 1
  /\ UNCHANGED <<call, remaking>>

BrokerStarts ==
  /\ ~broker
  /\ broker' = TRUE
  /\ UNCHANGED <<connection, channel, open, handled, call, remaking, timers, losses>>

-----------------------------------------------------------------------------
\* connect()

\* What neither field nor anybody's await names.
Unnamed == {c \in Connections : call[c] = Idle /\ c \notin remaking /\ c # connection /\ channel \notin Parts(c)}

\* Bound: an open connection is forgotten, which is never to be lost, when there
\* is no other name for a new one.
Connect(who) ==
  /\ Unnamed # {}
  /\ LET c == CHOOSE c \in Unnamed : c \in open => Unnamed \subseteq open
     IN  /\ call' = [call EXCEPT ![c] = [at |-> "connect", by |-> who]]
         /\ open' = open \ Parts(c) /\ handled' = handled \ Parts(c)

Reaches(c, at) == call' = [call EXCEPT ![c].at = at]
Returns(c) == call' = [call EXCEPT ![c] = Idle]

TimerFires ==
  /\ timers > 0
  /\ Connect("timer")
  /\ timers' = timers - 1
  /\ UNCHANGED <<broker, connection, channel, remaking, losses>>

Connected(c) ==
  /\ call[c].at = "connect" /\ broker
  /\ connection' = c /\ open' = open \cup {c}
  /\ Reaches(c, "channel")
  /\ UNCHANGED <<broker, channel, handled, remaking, timers, losses>>

ChannelCreated(c) ==
  /\ call[c].at = "channel" /\ c \in open
  /\ channel' = <<c, "connect">> /\ open' = open \cup {<<c, "connect">>}
  /\ Reaches(c, "declare")
  /\ UNCHANGED <<broker, connection, handled, remaking, timers, losses>>

\* Mutant: only the channel is listened to.
Declared_ChannelOnly(c) ==
  /\ call[c].at = "declare" /\ connection # Null /\ channel \in open
  /\ handled' = handled \cup {channel}
  /\ Returns(c)
  /\ UNCHANGED <<broker, connection, channel, open, remaking, timers, losses>>

\* The exchange, the queues and the handlers, by way of the fields.
Declared(c) ==
  /\ call[c].at = "declare" /\ connection # Null /\ channel \in open
  /\ handled' = handled \cup ({connection, channel} \cap open)
  /\ Returns(c)
  /\ UNCHANGED <<broker, connection, channel, open, remaking, timers, losses>>

Throws(c) ==
  \/ call[c].at = "connect" /\ ~broker
  \/ call[c].at = "channel" /\ c \notin open
  \/ call[c].at = "declare" /\ (connection = Null \/ channel \notin open \/ <<c, "connect">> \notin open)

\* Mutant: a reconnect that fails is not tried again.
ConnectFails_Once(c) ==
  /\ Throws(c)
  /\ Returns(c)
  /\ UNCHANGED <<broker, connection, channel, open, handled, remaking, timers, losses>>

\* A timer gives up what there is and waits again; an event is not published,
\* and the fields are left as they are.
ConnectFails(c) ==
  /\ Throws(c)
  /\ Returns(c)
  /\ IF call[c].by = "timer" THEN ScheduleReconnect(FALSE) ELSE UNCHANGED <<connection, channel, timers>>
  /\ UNCHANGED <<broker, open, handled, remaking, losses>>

ConnectRun(c) == Connected(c) \/ ChannelCreated(c) \/ Declared(c) \/ ConnectFails(c)

-----------------------------------------------------------------------------
\* publishEvent; with a channel it changes nothing, and throws if that is closed.

\* Bound: one event at a time waits for the connection.
EventWaits == remaking # {} \/ \E c \in Connections : call[c].by = "event"

EventConnects ==
  /\ ~EventWaits
  /\ channel = Null /\ connection = Null
  /\ Connect("event")
  /\ UNCHANGED <<broker, connection, channel, remaking, timers, losses>>

\* Bound: one such channel open per connection.
EventNeedsChannel ==
  /\ ~EventWaits
  /\ channel = Null /\ connection \in open /\ <<connection, "publish">> \notin open
  /\ remaking' = remaking \cup {connection}
  /\ UNCHANGED <<broker, connection, channel, open, handled, call, timers, losses>>

\* It gets no handlers; a connection closed by now throws.
ChannelRemade(c) ==
  /\ c \in remaking
  /\ IF c \in open
     THEN channel' = <<c, "publish">> /\ open' = open \cup {<<c, "publish">>}
     ELSE UNCHANGED <<channel, open>>
  /\ remaking' = remaking \ {c}
  /\ UNCHANGED <<broker, connection, handled, call, timers, losses>>

PublisherNext ==
  \/ BrokerStops \/ BrokerStarts \/ TimerFires \/ EventConnects \/ EventNeedsChannel
  \/ \E c \in Connections : ConnectionLost(c) \/ ConnectRun(c) \/ ChannelRemade(c)
  \/ \E h \in Channels : ChannelLost(h)

PublisherSpec == PublisherInit /\ [][PublisherNext]_publisherVars

\* Timers fire and calls are answered; events, faults and the broker owe nothing.
PublisherFairSpec ==
  /\ PublisherSpec
  /\ WF_publisherVars(TimerFires)
  /\ \A c \in Connections : WF_publisherVars(ConnectRun(c) \/ ChannelRemade(c))

-----------------------------------------------------------------------------
\* A timer is running, or the connect() of one is.
Retrying == timers > 0 \/ \E c \in Connections : call[c] # Idle /\ call[c].by = "timer"

\* Whenever the connection that events would leave through is not there, be the
\* field empty or what it holds closed, somebody is on the way to a new one: no
\* overlap of losses, of the events' own connect() calls and of failed attempts
\* ends the last one.  Where a connection without handlers may be lost by itself,
\* it is not so.
ReconnectPending == connection \notin open => Retrying

\* A publisher that has lost its connection gets one back once the broker is
\* there, however the connect() calls of its timers and of its events overlap, as
\* long as no connection without handlers is lost by itself.  It says nothing of
\* the channel: one that has no handlers and closes stays in the field, and every
\* event throws until the connection is lost, too.
Reconnects == connection \notin open ~> (connection \in open \/ ~broker)
=============================================================================
