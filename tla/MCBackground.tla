---------------------------- MODULE MCBackground ----------------------------
(* What the backend does by its timers: two scanners over two requests, and *)
(* the reconnects of a publisher.  They share nothing, so that each is      *)
(* explored while the other rests.                                          *)
EXTENDS SlaMonitor, Publisher

CONSTANTS b1, b2, q1, q2

MCReplicas == {b1, b2}
MCRequests == {q1, q2}

VARIABLE active

backgroundVars == <<active, slaVars, publisherVars>>

\* By symmetry it does not matter which connection is the first.
BackgroundInit ==
  /\ active \in {"scanners", "publisher"}
  /\ Init /\ PublisherInit
  /\ connection = CHOOSE c \in Connections : TRUE

Scanners == active = "scanners" /\ UNCHANGED <<active, publisherVars>>
Reconnecting == active = "publisher" /\ UNCHANGED <<active, slaVars>>

BackgroundNext ==
  \/ Scanners /\ Next
  \/ Reconnecting /\ PublisherNext

\* That of the two modules.
BackgroundSpec ==
  /\ BackgroundInit /\ [][BackgroundNext]_backgroundVars
  /\ \A r \in Replicas : WF_backgroundVars(Scanners /\ ScanRun(r))
  /\ WF_backgroundVars(Reconnecting /\ TimerFires)
  /\ \A c \in Connections : WF_backgroundVars(Reconnecting /\ (ConnectRun(c) \/ ChannelRemade(c)))
=============================================================================
