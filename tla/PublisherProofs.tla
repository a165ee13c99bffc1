-------------------------- MODULE PublisherProofs --------------------------
(***************************************************************************)
(* Proof that the publisher never gives up a lost connection, for any      *)
(* connections and any number of losses, timers and events.                *)
(***************************************************************************)
EXTENDS Publisher, TLAPS

-----------------------------------------------------------------------------
(***************************************************************************)
(* The publisher.  A connection nobody listens to is not lost by itself,   *)
(* so what the field `connection` holds closes with its handlers, which    *)
(* start a timer, or with the broker, and then there is a connection with  *)
(* handlers among those that close, or a timer already.                    *)
(***************************************************************************)
\* Once the field is filled it stays filled as long as a connection is open.
FieldHolds == Connections \cap open # {} => connection \in open \cup {Null}

\* A channel closes with its connection.
ChannelsOfOpen == \A c \in Connections, k \in {"connect", "publish"} : <<c, k>> \in open => c \in open

SomebodyListens == Retrying \/ Connections \cap handled # {}

PublisherInv == PublisherTypeOK /\ FieldHolds /\ ChannelsOfOpen /\ ReconnectPending /\ SomebodyListens

LEMMA NamesApart ==
  /\ Null \notin Connections /\ Null \notin Channels /\ Connections \cap Channels = {}
  /\ MaxTimers \in Nat /\ MaxTimers > 0 /\ MaxLosses \in Nat
BY PublisherAssumption DEF Channels

LEMMA PartsOf ==
  ASSUME NEW c \in Connections, NEW d \in Connections
  PROVE  /\ (d \in Parts(c)) <=> (d = c)
         /\ \A k \in {"connect", "publish"} : (<<d, k>> \in Parts(c)) <=> (d = c)
<1>1. Connections \cap (Connections \X {"connect", "publish"}) = {}
  BY NamesApart DEF Channels
<1>2. \A k \in {"connect", "publish"} : <<d, k>> # c /\ <<c, k>> # d
  BY <1>1
<1> QED
  BY <1>2 DEF Parts

\* A timer runs after a reconnect is scheduled.
LEMMA Scheduled ==
  ASSUME timers \in 0 .. MaxTimers, NEW several \in BOOLEAN, ScheduleReconnect(several)
  PROVE  connection' = Null /\ channel' = Null /\ timers' \in 0 .. MaxTimers /\ timers' > 0
<1>1. PICK n \in Nat \ {0} : timers' = IF timers + n > MaxTimers THEN MaxTimers ELSE timers + n
  BY NamesApart DEF ScheduleReconnect
<1> QED
  BY <1>1, NamesApart DEF ScheduleReconnect

\* Whatever closes, a connection that handlers go with starts a timer.
LEMMA Closes ==
  ASSUME PublisherInv, NEW lost \in SUBSET Connections, Close(lost), UNCHANGED <<call, remaking>>,
         losses' \in 0 .. MaxLosses, broker' \in BOOLEAN,
         lost \cap handled # {} \/ Connections \cap open \subseteq lost
  PROVE  PublisherInv'
<1> DEFINE parts == UNION {Parts(c) : c \in lost}
<1>1. open' = open \ parts /\ handled' = handled \ parts
  BY DEF Close, parts
<1>2. ASSUME NEW c \in Connections
      PROVE  /\ (c \in parts) <=> (c \in lost)
             /\ \A k \in {"connect", "publish"} : (<<c, k>> \in parts) <=> (c \in lost)
  <2>1. \A x : (x \in parts) <=> (\E d \in lost : x \in Parts(d))
    OBVIOUS
  <2>2. \A d \in lost : /\ (c \in Parts(d)) <=> (c = d)
                       /\ \A k \in {"connect", "publish"} : (<<c, k>> \in Parts(d)) <=> (c = d)
    BY PartsOf
  <2> HIDE DEF parts
  <2> QED
    BY <2>1, <2>2
<1> HIDE DEF parts
<1>3. \A c \in Connections, k \in {"connect", "publish"} :
        <<c, k>> \in open' => <<c, k>> \in open /\ c \notin lost
  BY <1>1, <1>2
<1>4. ChannelsOfOpen'
  BY <1>1, <1>2, <1>3 DEF ChannelsOfOpen, PublisherInv
<1>5. open' \subseteq Connections \cup Channels /\ handled' \subseteq open'
  BY <1>1 DEF PublisherInv, PublisherTypeOK
<1>6. CASE lost \cap handled # {}
  <2>1. ScheduleReconnect(TRUE)
    BY <1>6 DEF Close
  <2>2. connection' = Null /\ channel' = Null /\ timers' \in 0 .. MaxTimers /\ timers' > 0
    BY <2>1, Scheduled DEF PublisherInv, PublisherTypeOK
  <2>3. Retrying'
    BY <2>2 DEF Retrying
  <2> QED
    BY <1>4, <1>5, <2>2, <2>3
    DEF PublisherInv, PublisherTypeOK, FieldHolds, ReconnectPending, SomebodyListens
<1>7. CASE lost \cap handled = {}
  <2>1. channel' \in {Null, channel} /\ UNCHANGED <<connection, timers>> /\ Connections \cap open \subseteq lost
    BY <1>7 DEF Close
  <2>2. Connections \cap open' = {}
    BY <1>1, <1>2, <2>1
  <2>3. Retrying
    BY <1>7, <2>1 DEF PublisherInv, PublisherTypeOK, SomebodyListens
  <2>4. Retrying'
    BY <2>1, <2>3 DEF Retrying
  <2> QED
    BY <1>4, <1>5, <2>1, <2>2, <2>4
    DEF PublisherInv, PublisherTypeOK, FieldHolds, ReconnectPending, SomebodyListens
<1> QED
  BY <1>6, <1>7

LEMMA LossesKeep ==
  ASSUME PublisherInv, "unheard" \notin LinkFaults,
         BrokerStops \/ (\E c \in Connections : ConnectionLost(c)) \/ \E h \in Channels : ChannelLost(h)
  PROVE  PublisherInv'
<1>1. losses < MaxLosses => losses + 1 \in 0 .. MaxLosses
  BY NamesApart DEF PublisherInv, PublisherTypeOK
<1>2. CASE BrokerStops
  <2>1. Connections \cap open \in SUBSET Connections /\ losses' \in 0 .. MaxLosses /\ broker' \in BOOLEAN
    BY <1>1, <1>2 DEF BrokerStops
  <2> QED
    BY <1>2, <2>1, Closes DEF BrokerStops
<1>3. ASSUME NEW c \in Connections, ConnectionLost(c)
      PROVE  PublisherInv'
  <2>1. {c} \in SUBSET Connections /\ {c} \cap handled # {} /\ losses' \in 0 .. MaxLosses
    BY <1>1, <1>3 DEF ConnectionLost
  <2>2. broker' \in BOOLEAN
    BY <1>3 DEF ConnectionLost, PublisherInv, PublisherTypeOK
  <2> QED
    BY <1>3, <2>1, <2>2, Closes DEF ConnectionLost
<1>4. ASSUME NEW h \in Channels, ChannelLost(h)
      PROVE  PublisherInv'
  <2>1. /\ open' = open \ {h} /\ handled' = handled \ {h} /\ channel' \in {Null, channel}
        /\ losses' \in 0 .. MaxLosses /\ UNCHANGED <<broker, connection, call, remaking, timers>>
    BY <1>1, <1>4 DEF ChannelLost
  <2>2. h \notin Connections
    BY NamesApart
  <2>3. Retrying' <=> Retrying
    BY <2>1 DEF Retrying
  <2>4. Connections \cap open' = Connections \cap open /\ Connections \cap handled' = Connections \cap handled
    BY <2>1, <2>2
  <2>5. connection \in open => connection \in open'
    BY <2>1, <2>2, NamesApart DEF PublisherInv, PublisherTypeOK
  <2>6. PublisherTypeOK'
    BY <2>1 DEF PublisherInv, PublisherTypeOK
  <2>7. ChannelsOfOpen'
    BY <2>1, <2>2 DEF PublisherInv, ChannelsOfOpen
  <2> QED
    BY <2>1, <2>3, <2>4, <2>5, <2>6, <2>7 DEF PublisherInv, FieldHolds, ReconnectPending, SomebodyListens
<1> QED
  BY <1>2, <1>3, <1>4

\* A step that closes nothing but what no field names, keeps the field or fills
\* it with what is open, and does not end the last retry.
LEMMA Keeps ==
  ASSUME PublisherInv, PublisherTypeOK', ChannelsOfOpen', Retrying => Retrying',
         connection' = connection \/ connection' \in open' \/ connection' = Null,
         connection' = Null => connection = Null \/ Retrying',
         connection' = connection => Connections \cap open' \subseteq Connections \cap open,
         connection \in open => connection \in open',
         Retrying' \/ Connections \cap handled \subseteq handled'
  PROVE  PublisherInv'
<1>1. FieldHolds'
  BY DEF PublisherInv, FieldHolds
<1>2. ReconnectPending'
  BY NamesApart DEF PublisherInv, PublisherTypeOK, ReconnectPending
<1>3. SomebodyListens'
  BY DEF PublisherInv, SomebodyListens
<1> QED
  BY <1>1, <1>2, <1>3 DEF PublisherInv

LEMMA ConnectStarts ==
  ASSUME PublisherInv, NEW who \in {"timer", "event"}, Connect(who), UNCHANGED <<broker, connection, channel, remaking, losses>>,
         timers' \in 0 .. MaxTimers, who = "timer" \/ (timers' = timers /\ Retrying)
  PROVE  PublisherInv'
<1>1. PICK c \in Unnamed :
        /\ call' = [call EXCEPT ![c] = [at |-> "connect", by |-> who]]
        /\ open' = open \ Parts(c) /\ handled' = handled \ Parts(c)
  <2> DEFINE Good(c) == c \in open => Unnamed \subseteq open
  <2>1. \E c \in Unnamed : Good(c)
    BY DEF Connect
  <2>2. (CHOOSE c \in Unnamed : Good(c)) \in Unnamed
    BY <2>1
  <2> QED
    BY <2>2 DEF Connect
<1>2. c \in Connections /\ call[c] = Idle /\ c # connection
  BY DEF Unnamed
<1>3. Retrying'
  <2>1. call'[c] = [at |-> "connect", by |-> who] /\ call'[c] # Idle
    BY <1>1, <1>2 DEF PublisherInv, PublisherTypeOK, Idle
  <2>2. CASE who = "timer"
    BY <1>2, <2>1, <2>2 DEF Retrying
  <2>3. CASE timers' = timers /\ Retrying
    <3>1. \A d \in Connections : call[d] # Idle => call'[d] = call[d]
      BY <1>1, <1>2 DEF PublisherInv, PublisherTypeOK
    <3> QED
      BY <2>3, <3>1 DEF Retrying
  <2> QED
    BY <2>2, <2>3
<1>4. \A d \in Connections \ {c} : d \notin Parts(c) /\ \A k \in {"connect", "publish"} : <<d, k>> \notin Parts(c)
  BY <1>2, PartsOf
<1>5. \A k \in {"connect", "publish"} : <<c, k>> \in Parts(c)
  BY <1>2, PartsOf
<1>6. connection \in open => connection \in open'
  BY <1>1, <1>2, <1>4, NamesApart DEF PublisherInv, PublisherTypeOK
<1>7. PublisherTypeOK'
  <2>1. call' \in [Connections -> [at : {"done", "connect", "channel", "declare"}, by : {"timer", "event"}]]
    BY <1>1, <1>2 DEF PublisherInv, PublisherTypeOK
  <2> QED
    BY <1>1, <2>1 DEF PublisherInv, PublisherTypeOK
<1>8. ChannelsOfOpen'
  <2> SUFFICES ASSUME NEW d \in Connections, NEW k \in {"connect", "publish"}, <<d, k>> \in open'
               PROVE  d \in open'
    BY DEF ChannelsOfOpen
  <2>1. d # c /\ d \in open
    BY <1>1, <1>5 DEF PublisherInv, ChannelsOfOpen
  <2> QED
    BY <1>1, <1>4, <2>1
<1> QED
  BY <1>1, <1>3, <1>6, <1>7, <1>8, Keeps

\* connect() goes on: its call remains who it is for.
LEMMA ReachesOn ==
  ASSUME PublisherInv, NEW c \in Connections, NEW at \in {"channel", "declare"},
         Reaches(c, at), UNCHANGED timers
  PROVE  /\ call' \in [Connections -> [at : {"done", "connect", "channel", "declare"}, by : {"timer", "event"}]]
         /\ Retrying => Retrying'
<1>1. call' \in [Connections -> [at : {"done", "connect", "channel", "declare"}, by : {"timer", "event"}]]
  BY DEF Reaches, PublisherInv, PublisherTypeOK
<1>2. \A d \in Connections : call[d] # Idle /\ call[d].by = "timer" => call'[d] # Idle /\ call'[d].by = "timer"
  BY DEF Reaches, PublisherInv, PublisherTypeOK, Idle
<1> QED
  BY <1>1, <1>2 DEF Retrying

LEMMA ReturnsOn ==
  ASSUME PublisherInv, NEW c \in Connections, Returns(c)
  PROVE  /\ call' \in [Connections -> [at : {"done", "connect", "channel", "declare"}, by : {"timer", "event"}]]
         /\ \A d \in Connections \ {c} : call'[d] = call[d]
BY DEF Returns, Idle, PublisherInv, PublisherTypeOK

LEMMA ConnectRuns ==
  ASSUME PublisherInv, NEW c \in Connections, ConnectRun(c)
  PROVE  PublisherInv'
<1>1. CASE Connected(c)
  <2>1. /\ connection' = c /\ open' = open \cup {c} /\ Reaches(c, "channel")
        /\ UNCHANGED <<broker, channel, handled, remaking, timers, losses>>
    BY <1>1 DEF Connected
  <2>2. PublisherTypeOK' /\ (Retrying => Retrying')
    BY <2>1, ReachesOn DEF PublisherInv, PublisherTypeOK
  <2>3. ChannelsOfOpen'
    <3>1. \A d \in Connections, k \in {"connect", "publish"} : <<d, k>> # c
      BY NamesApart DEF Channels
    <3> QED
      BY <2>1, <3>1 DEF PublisherInv, ChannelsOfOpen
  <2>4. connection' \in open' /\ connection' # Null
    BY <2>1, NamesApart
  <2>5. FieldHolds' /\ ReconnectPending' /\ SomebodyListens'
    BY <2>1, <2>2, <2>4 DEF PublisherInv, FieldHolds, ReconnectPending, SomebodyListens
  <2> QED
    BY <2>2, <2>3, <2>5 DEF PublisherInv
<1>2. CASE ChannelCreated(c)
  <2>1. /\ c \in open /\ channel' = <<c, "connect">> /\ open' = open \cup {<<c, "connect">>}
        /\ Reaches(c, "declare") /\ UNCHANGED <<broker, connection, handled, remaking, timers, losses>>
    BY <1>2 DEF ChannelCreated
  <2>2. <<c, "connect">> \in Channels
    BY DEF Channels
  <2>3. PublisherTypeOK' /\ (Retrying => Retrying')
    BY <2>1, <2>2, ReachesOn DEF PublisherInv, PublisherTypeOK
  <2>4. ChannelsOfOpen'
    BY <2>1 DEF PublisherInv, ChannelsOfOpen
  <2>5. Connections \cap open' = Connections \cap open
    BY <2>1, <2>2, NamesApart
  <2> QED
    BY <2>1, <2>3, <2>4, <2>5, Keeps
<1>3. CASE Declared(c)
  <2>1. /\ connection # Null /\ channel \in open
        /\ handled' = handled \cup ({connection, channel} \cap open)
        /\ Returns(c) /\ UNCHANGED <<broker, connection, channel, open, remaking, timers, losses>>
    BY <1>3 DEF Declared
  <2>2. connection \in open
    <3>1. PICK d \in Connections, k \in {"connect", "publish"} : channel = <<d, k>>
      BY <2>1, NamesApart DEF PublisherInv, PublisherTypeOK, Channels
    <3>2. d \in Connections \cap open
      BY <2>1, <3>1 DEF PublisherInv, ChannelsOfOpen
    <3> QED
      BY <2>1, <3>2 DEF PublisherInv, FieldHolds
  <2>3. connection \in Connections
    BY <2>1 DEF PublisherInv, PublisherTypeOK
  <2>4. PublisherTypeOK'
    BY <2>1, ReturnsOn DEF PublisherInv, PublisherTypeOK
  <2> QED
    BY <2>1, <2>2, <2>3, <2>4
    DEF PublisherInv, ChannelsOfOpen, FieldHolds, ReconnectPending, SomebodyListens
<1>4. CASE ConnectFails(c) /\ call[c].by = "timer"
  <2>1. ScheduleReconnect(FALSE) /\ Returns(c) /\ UNCHANGED <<broker, open, handled, remaking, losses>>
    BY <1>4 DEF ConnectFails
  <2>2. connection' = Null /\ channel' = Null /\ timers' \in 0 .. MaxTimers /\ timers' > 0
    BY <2>1, Scheduled DEF PublisherInv, PublisherTypeOK
  <2>3. Retrying'
    BY <2>2 DEF Retrying
  <2>4. PublisherTypeOK'
    BY <2>1, <2>2, ReturnsOn DEF PublisherInv, PublisherTypeOK
  <2> QED
    BY <2>1, <2>2, <2>3, <2>4
    DEF PublisherInv, ChannelsOfOpen, FieldHolds, ReconnectPending, SomebodyListens
<1>5. CASE ConnectFails(c) /\ call[c].by # "timer"
  <2>1. Returns(c) /\ UNCHANGED <<broker, connection, channel, timers, open, handled, remaking, losses>>
    BY <1>5 DEF ConnectFails
  <2>2. PublisherTypeOK'
    BY <2>1, ReturnsOn DEF PublisherInv, PublisherTypeOK
  <2>3. Retrying => Retrying'
    BY <1>5, <2>1, ReturnsOn DEF Retrying
  <2> QED
    BY <2>1, <2>2, <2>3
    DEF PublisherInv, ChannelsOfOpen, FieldHolds, ReconnectPending, SomebodyListens
<1> QED
  BY <1>1, <1>2, <1>3, <1>4, <1>5 DEF ConnectRun

LEMMA PublisherStep ==
  ASSUME PublisherInv, "unheard" \notin LinkFaults, [PublisherNext]_publisherVars
  PROVE  PublisherInv'
<1>1. CASE BrokerStops \/ (\E c \in Connections : ConnectionLost(c)) \/ \E h \in Channels : ChannelLost(h)
  BY <1>1, LossesKeep
<1>2. CASE TimerFires
  <2>1. timers - 1 \in 0 .. MaxTimers
    BY <1>2, NamesApart DEF TimerFires, PublisherInv, PublisherTypeOK
  <2> QED
    BY <1>2, <2>1, ConnectStarts DEF TimerFires
<1>3. CASE EventConnects
  <2>1. connection \notin open
    BY <1>3, NamesApart DEF EventConnects, PublisherInv, PublisherTypeOK
  <2>2. Retrying /\ timers \in 0 .. MaxTimers
    BY <2>1 DEF PublisherInv, PublisherTypeOK, ReconnectPending
  <2> QED
    BY <1>3, <2>2, ConnectStarts DEF EventConnects
<1>4. CASE BrokerStarts \/ EventNeedsChannel \/ UNCHANGED publisherVars
  <2>1. UNCHANGED <<connection, channel, open, handled, call, timers, losses>> /\ broker' \in BOOLEAN
    BY <1>4 DEF BrokerStarts, EventNeedsChannel, publisherVars, PublisherInv, PublisherTypeOK
  <2>2. remaking' \subseteq Connections
    BY <1>4, NamesApart DEF BrokerStarts, EventNeedsChannel, publisherVars, PublisherInv, PublisherTypeOK
  <2> QED
    BY <2>1, <2>2
    DEF PublisherInv, PublisherTypeOK, ChannelsOfOpen, FieldHolds, ReconnectPending, SomebodyListens, Retrying
<1>5. ASSUME NEW c \in Connections, ChannelRemade(c)
      PROVE  PublisherInv'
  <2>1. UNCHANGED <<broker, connection, handled, call, timers, losses>> /\ remaking' \subseteq remaking
    BY <1>5 DEF ChannelRemade
  <2>2. <<c, "publish">> \in Channels
    BY DEF Channels
  <2>3. \/ c \in open /\ channel' = <<c, "publish">> /\ open' = open \cup {<<c, "publish">>}
        \/ UNCHANGED <<channel, open>>
    BY <1>5 DEF ChannelRemade
  <2>4. PublisherTypeOK' /\ ChannelsOfOpen'
    BY <2>1, <2>2, <2>3 DEF PublisherInv, PublisherTypeOK, ChannelsOfOpen
  <2>5. Connections \cap open' = Connections \cap open /\ open \subseteq open'
    BY <2>2, <2>3, NamesApart
  <2>6. Retrying => Retrying'
    BY <2>1 DEF Retrying
  <2> QED
    BY <2>1, <2>4, <2>5, <2>6, Keeps
<1>6. CASE \E c \in Connections : ConnectRun(c)
  BY <1>6, ConnectRuns
<1> QED
  BY <1>1, <1>2, <1>3, <1>4, <1>5, <1>6 DEF PublisherNext

LEMMA PublisherStarts == PublisherInit => PublisherInv
<1> SUFFICES ASSUME PublisherInit
             PROVE  PublisherInv
  OBVIOUS
<1> USE DEF PublisherInit
<1>1. channel \in Channels /\ connection \in Connections
  BY DEF Channels
<1>2. PublisherTypeOK
  BY <1>1, NamesApart DEF PublisherTypeOK, Idle
<1>3. ChannelsOfOpen
  BY <1>1, NamesApart DEF ChannelsOfOpen, Channels
<1> QED
  BY <1>1, <1>2, <1>3, NamesApart DEF PublisherInv, FieldHolds, ReconnectPending, SomebodyListens

\* A lost connection is never given up: whichever losses, overlapping connect()
\* calls and failed attempts fall together, while the field holds no connection
\* that is open a timer runs, or the connect() of one, for any connections and
\* any number of losses, as long as no connection without handlers is lost by itself.
THEOREM ReconnectIsPending ==
  ASSUME "unheard" \notin LinkFaults
  PROVE  PublisherSpec => []ReconnectPending
<1>1. PublisherInv /\ [PublisherNext]_publisherVars => PublisherInv'
  BY PublisherStep
<1>2. PublisherInv => ReconnectPending
  BY DEF PublisherInv
<1> QED
  BY <1>1, <1>2, PublisherStarts, PTL DEF PublisherSpec
=============================================================================
