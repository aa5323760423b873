----------------------------- MODULE AppProofs -----------------------------
(***************************************************************************)
(* What the application promises, for every value of the constants.  What  *)
(* the session entity shows is true of its transport, for every kind of    *)
(* session, every route, every set of rules and sizes, and any number of   *)
(* starts.  Closing windows over sessions loses nothing unasked, for every *)
(* set of windows and shells.  And the dialogs keep the profiles, their    *)
(* secrets, the settings and the dashboards, for any number of them, of    *)
(* windows, of edits and of failures.                                      *)
(***************************************************************************)
EXTENDS AppSession, CloseGuard, Parts, FiniteSetTheorems, SequenceTheorems, TLAPS

-----------------------------------------------------------------------------
(* The inductive invariant.                                                *)

EventKinds == {"Connecting", "HostKey", "KeyRejected", "Ready", "Data",
               "TunnelOpened", "TunnelFailed"} \cup Finals
Withdraws(e, r) == e = With("TunnelFailed", r) \/ e.kind \in Finals

ShownType ==
    /\ kind \in Kinds /\ route \in Routes /\ suppressed \in BOOLEAN
    /\ status \in {"Connecting", "Connected", "Disconnected", "Failed"}
    /\ stage \in {"Opening", "LoggingIn"}
    /\ failure \in {None, "HostKeyRejected", "Connect"}
    /\ transport \in BOOLEAN /\ credentials \in BOOLEAN
    /\ link \in {None, "new", "opening", "login", "rejected", "up", "over"}
    /\ size \in Sizes /\ linkSize \in Sizes
    /\ offered \subseteq Rules /\ bound \subseteq Rules

CountType ==
    /\ starts \in 0 .. MaxStarts /\ typed \in 0 .. MaxTyped
    /\ mismatch = 0 \/ mismatch = starts

\* What is still queued, and whom it can come from: one final event, last and
\* only when the transport is over; a Ready from one that has a shell; an
\* opened rule that is still bound, or withdrawn further down the queue.
Args == {None, "text", "query", "HostKeyRejected", "Connect", "connection"} \cup Rules
Events == [kind : EventKinds, arg : Args]
QueueSound ==
    /\ events \in Seq(Events)
    /\ Len(events) <= MaxQueued
    /\ ~transport => events = << >>
    /\ \A i \in 1 .. Len(events) :
          /\ events[i].kind \in Finals => i = Len(events) /\ link = "over"
          /\ events[i].kind = "Error" => events[i].arg \in {"HostKeyRejected", "Connect"}
          /\ events[i].kind = "Ready" => link \in {"up", "over"}
          /\ events[i].kind = "KeyRejected" => kind # "local"
          /\ events[i].kind = "TunnelOpened" =>
                /\ events[i].arg \in offered
                /\ \/ events[i].arg \in bound
                   \/ \E j \in i + 1 .. Len(events) : Withdraws(events[j], events[i].arg)

LocalHasNoHost ==
    kind = "local" => mismatch = 0 /\ link \notin {"opening", "login", "rejected"}

AppInv ==
    /\ ShownType /\ CountType /\ QueueSound /\ LocalHasNoHost
    /\ TransportIffLive /\ TunnelsHeld /\ ConnectedMeansReady /\ SizeAgrees
    /\ MismatchExplainsFailure

core == <<kind, route, suppressed, view, size, starts, link, linkSize, offered, bound,
          events>>

LEMMA AppInit == Init => AppInv
<1> SUFFICES ASSUME Init PROVE AppInv
  OBVIOUS
<1>0. CountType
  BY AppSessionAssumption DEF Init, CountType
<1>1. ShownType /\ LocalHasNoHost
  BY DEF Init, ShownType, LocalHasNoHost, None
<1>2. QueueSound
  BY AppSessionAssumption DEF Init, QueueSound
<1>3. /\ TransportIffLive /\ TunnelsHeld /\ ConnectedMeansReady /\ SizeAgrees
      /\ MismatchExplainsFailure
  BY DEF Init, TransportIffLive, Live, TunnelsHeld, ConnectedMeansReady, SizeAgrees,
         MismatchExplainsFailure
<1> QED BY <1>0, <1>1, <1>2, <1>3 DEF AppInv
-----------------------------------------------------------------------------
(* Steps that touch neither the view nor the transport.                    *)

LEMMA QuietKeeps ==
    ASSUME AppInv, UNCHANGED core, typed' \in 0 .. MaxTyped
    PROVE  AppInv'
<1> UNCHANGED <<kind, route, suppressed, status, stage, failure, transport, credentials,
                tunnels, mismatch, size, starts, link, linkSize, offered, bound, events>>
  BY DEF core, view
<1>1. ShownType' /\ CountType' /\ QueueSound' /\ LocalHasNoHost'
  BY DEF AppInv, ShownType, CountType, QueueSound, LocalHasNoHost
<1>2. TransportIffLive' /\ TunnelsHeld' /\ ConnectedMeansReady' /\ SizeAgrees'
      /\ MismatchExplainsFailure'
  BY DEF AppInv, TransportIffLive, Live, TunnelsHeld, ConnectedMeansReady, SizeAgrees,
         MismatchExplainsFailure
<1> QED BY <1>1, <1>2 DEF AppInv

(* Steps that leave no transport, or a fresh one, and an empty queue.      *)

LEMMA FreshKeeps ==
    ASSUME ShownType', CountType', LocalHasNoHost', TransportIffLive', tunnels' = {}, events' = << >>,
           status' # "Connected", status' = "Failed" => mismatch' = 0 \/ MismatchExplainsFailure'
    PROVE  AppInv'
<1>1. QueueSound'
  BY AppSessionAssumption DEF QueueSound
<1>2. TunnelsHeld' /\ ConnectedMeansReady' /\ SizeAgrees' /\ MismatchExplainsFailure'
  BY DEF TunnelsHeld, ConnectedMeansReady, SizeAgrees, MismatchExplainsFailure
<1> QED BY <1>1, <1>2 DEF AppInv

LEMMA ConnectKeeps ==
    ASSUME AppInv, Connect, starts' \in 0 .. MaxStarts, credentials' = FALSE,
           UNCHANGED <<kind, route, size, typed>>,
           suppressed' \in BOOLEAN, stage' \in {"Opening", "LoggingIn"}
    PROVE  AppInv'
<1>1. CASE RefuseHops
  <2>1. ShownType' /\ LocalHasNoHost' /\ TransportIffLive'
    BY <1>1 DEF RefuseHops, NoLink, NoOffer, AppInv, ShownType, LocalHasNoHost,
       TransportIffLive, Live, None
  <2>2. CountType'
    BY <1>1 DEF RefuseHops, NoOffer, AppInv, CountType
  <2> QED BY <1>1, <2>1, <2>2, FreshKeeps DEF RefuseHops, NoOffer
<1>2. CASE OpenTransport
  <2>1. ShownType' /\ LocalHasNoHost' /\ TransportIffLive'
    BY <1>2 DEF OpenTransport, NoOffer, AppInv, ShownType, LocalHasNoHost,
       TransportIffLive, Live, None
  <2>2. CountType'
    BY <1>2 DEF OpenTransport, NoOffer, AppInv, CountType
  <2> QED BY <1>2, <2>1, <2>2, FreshKeeps DEF OpenTransport, FreshEvents
<1> QED BY <1>1, <1>2 DEF Connect

LEMMA ReconnectKeeps == ASSUME AppInv, Reconnect PROVE AppInv'
<1>1. /\ starts' \in 0 .. MaxStarts /\ suppressed' \in BOOLEAN /\ stage' = "Opening"
      /\ UNCHANGED <<kind, route, size, typed>>
  BY AppSessionAssumption DEF Reconnect, Start, AppInv, CountType, ShownType
<1>2. CASE credentials' = FALSE /\ Connect
  BY <1>1, <1>2, ConnectKeeps
<1>3. CASE /\ transport' = FALSE /\ credentials' = TRUE
           /\ tunnels' = {} /\ mismatch' = NoOffer /\ failure' = None
           /\ status' = "Connecting" /\ NoLink /\ events' = << >>
  <2>1. ShownType' /\ LocalHasNoHost' /\ TransportIffLive'
    BY <1>1, <1>3 DEF NoLink, NoOffer, AppInv, ShownType, LocalHasNoHost,
       TransportIffLive, Live, None
  <2>2. CountType'
    BY <1>1, <1>3 DEF NoOffer, AppInv, CountType
  <2> QED BY <1>3, <2>1, <2>2, FreshKeeps
<1> QED BY <1>2, <1>3 DEF Reconnect, Start

LEMMA SecretsReadKeeps == ASSUME AppInv, SecretsRead PROVE AppInv'
BY ConnectKeeps DEF SecretsRead, AppInv, ShownType, CountType

LEMMA DisconnectKeeps == ASSUME AppInv, Disconnect PROVE AppInv'
<1>0. CountType'
  BY DEF Disconnect, AppInv, CountType
<1>1. ShownType' /\ LocalHasNoHost' /\ TransportIffLive'
  BY DEF Disconnect, CredentialsAfterDisconnect, NoLink, AppInv, ShownType, LocalHasNoHost,
     TransportIffLive, Live, None
<1>2. status' # "Connected" /\ MismatchExplainsFailure'
  BY DEF Disconnect, AppInv, Live, MismatchExplainsFailure
<1> QED BY <1>0, <1>1, <1>2, FreshKeeps DEF Disconnect, TunnelsAfterDisconnect

LEMMA ResizeKeeps == ASSUME AppInv, NEW s \in Sizes, Resize(s) PROVE AppInv'
<1>1. linkSize' \in {linkSize, s} /\ size' = s
      /\ UNCHANGED <<kind, route, suppressed, status, stage, failure, transport, credentials,
                     tunnels, mismatch, starts, link, offered, bound, events, typed>>
  BY DEF Resize, Sized, view
<1>2. transport /\ link = "up" => linkSize' = s
  BY DEF Resize, Sized
<1>3. ~transport => linkSize' = s
  BY DEF Resize
<1>4. ShownType'
  BY <1>1 DEF AppInv, ShownType
<1>5. CountType' /\ QueueSound' /\ LocalHasNoHost'
  BY <1>1 DEF AppInv, CountType, QueueSound, LocalHasNoHost
<1>6. TransportIffLive' /\ TunnelsHeld' /\ ConnectedMeansReady' /\ MismatchExplainsFailure'
  BY <1>1 DEF AppInv, TransportIffLive, Live, TunnelsHeld, ConnectedMeansReady,
         MismatchExplainsFailure
<1>7. SizeAgrees'
  BY <1>1, <1>2, <1>3 DEF SizeAgrees
<1> QED BY <1>4, <1>5, <1>6, <1>7 DEF AppInv
-----------------------------------------------------------------------------
(* The transport adds an event.                                            *)

\* What one more event must be like, and the transport after it.
LEMMA EmitKeeps ==
    ASSUME AppInv, transport, link \notin {None, "over"}, NEW e \in Events, Emit(e),
           UNCHANGED <<kind, transport, status, tunnels, offered>>,
           e.kind \in Finals => link' = "over",
           e.kind = "Error" => e.arg \in {"HostKeyRejected", "Connect"},
           e.kind = "Ready" \/ link = "up" => link' \in {"up", "over"},
           e.kind = "KeyRejected" => kind # "local",
           e.kind = "TunnelOpened" => e.arg \in offered /\ e.arg \in bound',
           \A r \in bound : r \in bound' \/ Withdraws(e, r)
    PROVE  QueueSound' /\ TunnelsHeld'
<1> DEFINE n == Len(events)
<1>1. /\ events \in Seq(Events) /\ n \in Nat /\ events' \in Seq(Events)
      /\ Len(events') = n + 1 /\ events'[n + 1] = e
      /\ \A i \in 1 .. n : events'[i] = events[i]
  BY AppendProperties DEF Emit, AppInv, QueueSound
<1>2. n + 1 <= MaxQueued
  BY <1>1, AppSessionAssumption DEF Emit
<1>3. \A i \in 1 .. n :
        /\ events[i].kind \notin Finals
        /\ events[i].kind = "Ready" => link' \in {"up", "over"}
  BY DEF AppInv, QueueSound
<1>4. ASSUME NEW r, r \in bound \/ \E j \in 1 .. n : Withdraws(events[j], r)
      PROVE  r \in bound' \/ \E j \in 1 .. n + 1 : Withdraws(events'[j], r)
  BY <1>1, <1>4
<1>5. ASSUME NEW i \in 1 .. n + 1, events'[i].kind = "TunnelOpened"
      PROVE  /\ events'[i].arg \in offered
             /\ \/ events'[i].arg \in bound'
                \/ \E j \in i + 1 .. n + 1 : Withdraws(events'[j], events'[i].arg)
  <2>1. CASE i = n + 1
    BY <1>1, <1>5, <2>1
  <2>2. CASE i \in 1 .. n
    <3>1. /\ events[i].arg \in offered
          /\ \/ events[i].arg \in bound
             \/ \E j \in i + 1 .. n : Withdraws(events[j], events[i].arg)
      BY <1>1, <1>5, <2>2 DEF AppInv, QueueSound
    <3>2. CASE events[i].arg \in bound
      <4>1. events[i].arg \in bound' \/ Withdraws(e, events[i].arg)
        BY <3>2
      <4>2. n + 1 \in i + 1 .. n + 1
        BY <1>1, <2>2
      <4> QED BY <1>1, <2>2, <3>1, <4>1, <4>2
    <3>3. ASSUME NEW j \in i + 1 .. n, Withdraws(events[j], events[i].arg)
          PROVE  \E k \in i + 1 .. n + 1 : Withdraws(events'[k], events'[i].arg)
      <4>1. j \in 1 .. n /\ j \in i + 1 .. n + 1
        BY <1>1, <2>2
      <4> QED BY <1>1, <2>2, <3>3, <4>1
    <3> QED BY <1>1, <2>2, <3>1, <3>2, <3>3
  <2> QED BY <1>1, <2>1, <2>2
<1>6. QueueSound'
  <2>1. \A i \in 1 .. n + 1 :
          /\ events'[i].kind \in Finals => i = n + 1 /\ link' = "over"
          /\ events'[i].kind = "Error" => events'[i].arg \in {"HostKeyRejected", "Connect"}
          /\ events'[i].kind = "Ready" => link' \in {"up", "over"}
          /\ events'[i].kind = "KeyRejected" => kind # "local"
    BY <1>1, <1>3 DEF AppInv, QueueSound
  <2> QED BY <1>1, <1>2, <1>5, <2>1 DEF QueueSound
<1>7. TunnelsHeld'
  <2>1. ASSUME NEW r \in tunnels
        PROVE  \/ r \in bound'
               \/ \E i \in 1 .. n + 1 :
                     events'[i] = With("TunnelFailed", r) \/ events'[i].kind \in Finals
    BY <1>4 DEF AppInv, TunnelsHeld, Withdraws
  <2> QED BY <1>1, <2>1 DEF AppInv, TunnelsHeld
<1> QED BY <1>6, <1>7

LEMMA EventShapes ==
    /\ \A k \in EventKinds : Event(k) \in Events /\ Event(k).kind = k /\ Event(k).arg = None
    /\ \A k \in EventKinds, a \in Args :
          With(k, a) \in Events /\ With(k, a).kind = k /\ With(k, a).arg = a
BY DEF Event, With, Events, Args

LEMMA TransportStepKeeps == ASSUME AppInv, TransportStep PROVE AppInv'
<1>1. /\ transport
      /\ UNCHANGED <<kind, route, suppressed, status, stage, failure, transport, credentials,
                     tunnels, mismatch, size, starts, linkSize, offered, typed>>
  BY DEF TransportStep, view
<1>2. QueueSound' /\ TunnelsHeld' /\ link' \in {"opening", "login", "rejected", "up", "over"}
      /\ (link \in {"up", "over"} => link' \in {"up", "over"})
      /\ (link' = "up" => link \in {"new", "login", "up"})
      /\ (kind = "local" => link' \notin {"opening", "login", "rejected"})
  <2>1. CASE Progress
    <3>1. CASE kind # "local" /\ link = "new" /\ link' = "opening" /\ Emit(Event("Connecting"))
      BY <1>1, <2>1, <3>1, EmitKeeps, EventShapes DEF Progress, EventKinds, Finals, None
    <3>2. CASE link = "opening" /\ link' \in {"opening", "login"} /\ Emit(Event("HostKey"))
      BY <1>1, <2>1, <3>2, EmitKeeps, EventShapes DEF Progress, EventKinds, Finals, None,
         AppInv, LocalHasNoHost
    <3>3. CASE link = "opening" /\ link' = "rejected" /\ Emit(Event("KeyRejected"))
      BY <1>1, <2>1, <3>3, EmitKeeps, EventShapes DEF Progress, EventKinds, Finals, None,
         AppInv, LocalHasNoHost
    <3>4. CASE link \in {"new", "login"} /\ link' = "up" /\ Emit(Event("Ready"))
      BY <1>1, <2>1, <3>4, EmitKeeps, EventShapes DEF Progress, EventKinds, Finals, None
    <3> QED BY <2>1, <3>1, <3>2, <3>3, <3>4 DEF Progress
  <2>2. CASE Listen
    <3>1. PICK r \in offered \ bound :
            \/ bound' = bound \cup {r} /\ Emit(With("TunnelOpened", r))
            \/ UNCHANGED bound /\ Emit(With("TunnelFailed", r))
      BY <2>2 DEF Listen
    <3>2. r \in Args
      BY DEF AppInv, ShownType, Args
    <3> QED BY <1>1, <2>2, <3>1, <3>2, EmitKeeps, EventShapes
            DEF Listen, EventKinds, Finals, None
  <2>3. CASE ListenFails
    <3>1. PICK r \in bound :
            \/ bound' = bound \ {r} /\ Emit(With("TunnelFailed", r))
            \/ UNCHANGED bound /\ Emit(With("TunnelFailed", "connection"))
      BY <2>3 DEF ListenFails
    <3>2. r \in Args /\ "connection" \in Args
      BY DEF AppInv, ShownType, Args
    <3>3. CASE bound' = bound \ {r} /\ Emit(With("TunnelFailed", r))
      BY <1>1, <2>3, <3>2, <3>3, EmitKeeps, EventShapes
         DEF ListenFails, EventKinds, Finals, None, Withdraws
    <3>4. CASE UNCHANGED bound /\ Emit(With("TunnelFailed", "connection"))
      BY <1>1, <2>3, <3>2, <3>4, EmitKeeps, EventShapes
         DEF ListenFails, EventKinds, Finals, None
    <3> QED BY <3>1, <3>3, <3>4
  <2>4. CASE Output
    <3>1. PICK what \in {"text", "query"} : Emit(With("Data", what))
      BY <2>4 DEF Output
    <3> QED BY <1>1, <2>4, <3>1, EmitKeeps, EventShapes
            DEF Output, EventKinds, Finals, None, Args
  <2>5. CASE End
    <3>1. PICK e \in Events : /\ Emit(e) /\ e.kind \in Finals
                              /\ e.kind = "Error" => e.arg \in {"HostKeyRejected", "Connect"}
      BY <2>5, EventShapes DEF End, EventKinds, Finals, Args
    <3> QED BY <1>1, <2>5, <3>1, EmitKeeps DEF End, Finals, Withdraws, None
  <2> QED BY <2>1, <2>2, <2>3, <2>4, <2>5 DEF TransportStep
<1>3. ShownType'
  <2>1. bound' \subseteq Rules
    BY DEF TransportStep, Progress, Listen, ListenFails, Output, End, AppInv, ShownType
  <2> QED BY <1>1, <1>2, <2>1 DEF AppInv, ShownType
<1>4. CountType' /\ LocalHasNoHost'
  BY <1>1, <1>2 DEF AppInv, CountType, LocalHasNoHost
<1>5. TransportIffLive' /\ ConnectedMeansReady' /\ MismatchExplainsFailure' /\ SizeAgrees'
  BY <1>1, <1>2 DEF AppInv, TransportIffLive, Live, ConnectedMeansReady,
     MismatchExplainsFailure, SizeAgrees
<1> QED BY <1>2, <1>3, <1>4, <1>5 DEF AppInv
-----------------------------------------------------------------------------
(* The pump takes an event.                                                *)

LEMMA PumpKeeps == ASSUME AppInv, Pump PROVE AppInv'
<1> DEFINE e == Head(events)
           n == Len(events)
<1>1. /\ events \in Seq(Events) /\ events # << >>
      /\ n \in Nat /\ n >= 1 /\ e = events[1] /\ e \in Events
  BY EmptySeq, HeadTailProperties DEF Pump, AppInv, QueueSound
<1>2. /\ events' \in Seq(Events) /\ Len(events') = n - 1
      /\ \A i \in 1 .. n - 1 : events'[i] = events[i + 1]
  BY <1>1, HeadTailProperties DEF Pump
<1>3. /\ UNCHANGED <<kind, route, suppressed, credentials, size, starts, link, offered,
                     bound, typed>>
      /\ tunnels' = ObserveTunnels(e)
      /\ ObserveKey(e)
      /\ OnReady(e) \/ OnOutput(e) \/ OnFinal(e) \/ OnProgress(e)
  BY DEF Pump
<1>4. /\ transport
      /\ e.kind \in Finals => n = 1 /\ link = "over"
      /\ e.kind = "Error" => e.arg \in {"HostKeyRejected", "Connect"}
      /\ e.kind = "Ready" => link \in {"up", "over"}
      /\ e.kind = "KeyRejected" => kind # "local"
  <2>1. transport
    BY <1>1 DEF AppInv, QueueSound
  <2>2. 1 \in 1 .. n
    BY <1>1
  <2>3. /\ e.kind \in Finals => 1 = n /\ link = "over"
        /\ e.kind = "Error" => e.arg \in {"HostKeyRejected", "Connect"}
        /\ e.kind = "Ready" => link \in {"up", "over"}
        /\ e.kind = "KeyRejected" => kind # "local"
    BY <1>1, <2>2 DEF AppInv, QueueSound
  <2> QED BY <2>1, <2>3
<1>5. /\ transport' \in BOOLEAN /\ (transport' <=> e.kind \notin Finals)
      /\ status' = CASE e.kind = "Ready" -> "Connected"
                     [] e.kind = "Error" -> "Failed"
                     [] e.kind \in {"Disconnected", "Exited"} -> "Disconnected"
                     [] e.kind = "Connecting" -> "Connecting"
                     [] OTHER -> status
  BY <1>3, <1>4 DEF OnReady, OnOutput, OnFinal, OnProgress, TransportAfterEnd, Finals,
     AppInv, ShownType
<1>6. stage' \in {"Opening", "LoggingIn"} /\ failure' \in {None, "HostKeyRejected", "Connect"}
      /\ (e.kind = "Error" /\ kind # "local" => failure' = e.arg)
  BY <1>3, <1>4 DEF OnReady, OnOutput, OnFinal, OnProgress, Finals, AppInv, ShownType
<1>7. linkSize' \in Sizes /\ (link = "up" /\ e.kind = "Ready" => linkSize' = size)
      /\ (e.kind # "Ready" => linkSize' = linkSize)
  BY <1>3, <1>4 DEF OnReady, OnOutput, OnFinal, OnProgress, SizePushed, Sized, Finals,
     AppInv, ShownType
<1>8. /\ mismatch' \in {0, starts, mismatch}
      /\ e.kind \in {"Connecting", "Ready", "Disconnected"} => mismatch' = 0
      /\ e.kind = "Error" /\ e.arg # "HostKeyRejected" => mismatch' = 0
      /\ kind = "local" => mismatch' \in {0, mismatch}
  BY <1>3, <1>4 DEF ObserveKey, OfferWithdrawn
<1>9. ShownType'
  BY <1>3, <1>5, <1>6, <1>7 DEF AppInv, ShownType
<1>10. CountType'
  BY <1>3, <1>8 DEF AppInv, CountType
<1>11. LocalHasNoHost'
  BY <1>3, <1>8 DEF AppInv, LocalHasNoHost
<1>12. QueueSound'
  <2>1. ASSUME NEW i \in 1 .. n - 1
        PROVE  /\ events'[i].kind \in Finals => i = n - 1 /\ link' = "over"
               /\ events'[i].kind = "Error" => events'[i].arg \in {"HostKeyRejected", "Connect"}
               /\ events'[i].kind = "Ready" => link' \in {"up", "over"}
               /\ events'[i].kind = "KeyRejected" => kind' # "local"
    <3>1. i + 1 \in 1 .. n /\ events'[i] = events[i + 1]
      BY <1>1, <1>2, <2>1
    <3>2. /\ events[i + 1].kind \in Finals => i + 1 = n /\ link = "over"
          /\ events[i + 1].kind = "Error" => events[i + 1].arg \in {"HostKeyRejected", "Connect"}
          /\ events[i + 1].kind = "Ready" => link \in {"up", "over"}
          /\ events[i + 1].kind = "KeyRejected" => kind # "local"
      BY <3>1 DEF AppInv, QueueSound
    <3>3. i + 1 = n => i = n - 1
      BY <1>1
    <3> QED BY <1>3, <3>1, <3>2, <3>3
  <2>2. ASSUME NEW i \in 1 .. n - 1, events'[i].kind = "TunnelOpened"
        PROVE  /\ events'[i].arg \in offered'
               /\ \/ events'[i].arg \in bound'
                  \/ \E j \in i + 1 .. n - 1 : Withdraws(events'[j], events'[i].arg)
    <3>1. i + 1 \in 1 .. n /\ events'[i] = events[i + 1]
      BY <1>1, <1>2, <2>2
    <3>2. /\ events[i + 1].arg \in offered
          /\ \/ events[i + 1].arg \in bound
             \/ \E j \in i + 2 .. n : Withdraws(events[j], events[i + 1].arg)
      <4>1. \/ events[i + 1].arg \in bound
            \/ \E j \in (i + 1) + 1 .. n : Withdraws(events[j], events[i + 1].arg)
        BY <2>2, <3>1 DEF AppInv, QueueSound
      <4>2. (i + 1) + 1 = i + 2
        BY <1>1
      <4>3. events[i + 1].arg \in offered
        BY <2>2, <3>1 DEF AppInv, QueueSound
      <4> QED BY <4>1, <4>2, <4>3
    <3>3. ASSUME NEW j \in i + 2 .. n, Withdraws(events[j], events[i + 1].arg)
          PROVE  \E k \in i + 1 .. n - 1 : Withdraws(events'[k], events'[i].arg)
      <4>1. j - 1 \in i + 1 .. n - 1 /\ j - 1 \in 1 .. n - 1 /\ (j - 1) + 1 = j
        BY <1>1
      <4>2. events'[j - 1] = events[j]
        BY <1>2, <4>1
      <4> QED BY <3>1, <3>3, <4>1, <4>2
    <3> QED BY <1>3, <3>1, <3>2, <3>3
  <2>3. Len(events') <= MaxQueued
    BY <1>1, <1>2, AppSessionAssumption DEF AppInv, QueueSound
  <2>4. ~transport' => events' = << >>
    BY <1>1, <1>2, <1>4, <1>5, EmptySeq
  <2> QED BY <1>2, <2>1, <2>2, <2>3, <2>4 DEF QueueSound
<1>13. TunnelsHeld'
  <2>1. CASE e.kind \in Finals
    BY <1>3, <2>1 DEF TunnelsHeld, ObserveTunnels, Finals
  <2>2. CASE e.kind \notin Finals
    <3>1. ASSUME NEW r \in tunnels'
          PROVE  /\ r \in offered
                 /\ \/ r \in bound
                    \/ \E j \in 2 .. n : Withdraws(events[j], r)
      <4>1. CASE e.kind = "TunnelOpened" /\ r = e.arg
        <5>1. 1 \in 1 .. n /\ 1 + 1 = 2
          BY <1>1
        <5> QED BY <1>1, <4>1, <5>1 DEF AppInv, QueueSound
      <4>2. CASE r \in tunnels /\ ~(e.kind = "TunnelFailed" /\ r = e.arg)
        <5>1. /\ r \in offered
              /\ \/ r \in bound
                 \/ \E i \in 1 .. n : Withdraws(events[i], r)
          BY <4>2 DEF AppInv, TunnelsHeld, Withdraws
        <5>2. ~Withdraws(events[1], r)
          BY <1>1, <2>2, <4>2 DEF Withdraws, With
        <5>3. \A i \in 1 .. n : i = 1 \/ i \in 2 .. n
          BY <1>1
        <5> QED BY <5>1, <5>2, <5>3
      <4> QED BY <1>3, <2>2, <3>1, <4>1, <4>2 DEF ObserveTunnels, Finals
    <3>2. ASSUME NEW r, NEW j \in 2 .. n, Withdraws(events[j], r)
          PROVE  \E i \in 1 .. n - 1 : Withdraws(events'[i], r)
      <4>1. j - 1 \in 1 .. n - 1 /\ (j - 1) + 1 = j
        BY <1>1
      <4> QED BY <1>2, <3>2, <4>1
    <3>3. ASSUME NEW r \in tunnels'
          PROVE  /\ transport' /\ r \in offered'
                 /\ \/ r \in bound'
                    \/ \E i \in 1 .. n - 1 : Withdraws(events'[i], r)
      BY <1>3, <1>5, <2>2, <3>1, <3>2
    <3> QED BY <1>2, <3>3 DEF TunnelsHeld, Withdraws
  <2> QED BY <2>1, <2>2
<1>14. TransportIffLive'
  BY <1>3, <1>4, <1>5 DEF AppInv, TransportIffLive, Live, Finals
<1>15. ConnectedMeansReady'
  BY <1>3, <1>4, <1>5 DEF AppInv, ConnectedMeansReady, Finals
<1>16. SizeAgrees'
  BY <1>3, <1>5, <1>7 DEF AppInv, SizeAgrees, Finals
<1>17. MismatchExplainsFailure'
  <2>1. status # "Failed"
    BY <1>4 DEF AppInv, TransportIffLive, Live
  <2> QED BY <1>3, <1>4, <1>5, <1>6, <1>8, <2>1
          DEF AppInv, MismatchExplainsFailure, LocalHasNoHost, CountType, Finals
<1> QED BY <1>9, <1>10, <1>11, <1>12, <1>13, <1>14, <1>15, <1>16, <1>17 DEF AppInv
-----------------------------------------------------------------------------
(* The session's steps and what follows from them.                         *)

LEMMA QuietSteps ==
    ASSUME AppInv,
           \/ SendInput \/ ReadForeground \/ HostAnswers \/ ForegroundIs
           \/ ForegroundStale \/ ShellStep \/ UNCHANGED vars
    PROVE  UNCHANGED core /\ typed' \in 0 .. MaxTyped
<1>1. UNCHANGED core
  BY DEF SendInput, ReadForeground, HostAnswers, ForegroundIs, ForegroundStale, ShellStep,
         vars, core, view, remote
<1>2. typed' = typed \/ (typed < MaxTyped /\ typed' = typed + 1)
  BY DEF SendInput, ReadForeground, HostAnswers, ForegroundIs, ForegroundStale, ShellStep,
         vars
<1>3. typed \in 0 .. MaxTyped
  BY DEF AppInv, CountType
<1> QED BY <1>1, <1>2, <1>3, AppSessionAssumption

LEMMA AppStep == ASSUME AppInv, [Next]_vars PROVE AppInv'
<1>1. CASE Reconnect
  BY <1>1, ReconnectKeeps
<1>2. CASE SecretsRead
  BY <1>2, SecretsReadKeeps
<1>3. CASE Disconnect
  BY <1>3, DisconnectKeeps
<1>4. CASE \E s \in Sizes : Resize(s)
  BY <1>4, ResizeKeeps
<1>5. CASE Pump
  BY <1>5, PumpKeeps
<1>6. CASE TransportStep
  BY <1>6, TransportStepKeeps
<1>7. CASE \/ SendInput \/ ReadForeground \/ HostAnswers \/ ForegroundIs
           \/ ForegroundStale \/ ShellStep \/ UNCHANGED vars
  BY <1>7, QuietSteps, QuietKeeps
<1> QED BY <1>1, <1>2, <1>3, <1>4, <1>5, <1>6, <1>7 DEF Next

\* The inductive invariant holds throughout: the view, the transport and the
\* events between them agree.
THEOREM AppInductive == Spec => []AppInv
<1>1. AppInv /\ [Next]_vars => AppInv'
  BY AppStep
<1> QED BY AppInit, <1>1, PTL DEF Spec

\* Every variable of the entity and of its transport keeps its type.
THEOREM AppTypeCorrect == Spec => []TypeOK
<1>1. AppInv => TypeOK
  <2> SUFFICES ASSUME AppInv PROVE TypeOK
    OBVIOUS
  <2>1. starts \in 0 .. MaxStarts /\ typed \in 0 .. MaxTyped /\ mismatch \in 0 .. MaxStarts
        /\ Len(events) <= MaxQueued
    BY AppSessionAssumption DEF AppInv, CountType, QueueSound
  <2>2. tunnels \subseteq Rules
    BY DEF AppInv, ShownType, TunnelsHeld
  <2> QED BY <2>1, <2>2 DEF AppInv, ShownType, TypeOK
<1> QED BY AppInductive, <1>1, PTL

\* A session shown as connecting or connected has a transport or awaits the
\* keychain, one shown as ended neither, however starts, disconnects and the
\* keychain's answers interleave (start, connect, disconnect, on_ssh_event).
THEOREM LiveSessionsHaveTransports == Spec => []TransportIffLive
<1>1. AppInv => TransportIffLive
  BY DEF AppInv
<1> QED BY AppInductive, <1>1, PTL

\* Every forwarding shown is one the session's own transport listens for, or its
\* withdrawal is queued, for every set of rules (OpenTunnels::observe).
THEOREM ForwardingsShownAreHeld == Spec => []TunnelsHeld
<1>1. AppInv => TunnelsHeld
  BY DEF AppInv
<1> QED BY AppInductive, <1>1, PTL

\* The offer to replace a host key never outlives the failure it explains
\* (HostKeyRecovery::observe and the resets of start and connect).
THEOREM OffersBelongToTheirAttempt == Spec => []MismatchExplainsFailure
<1>1. AppInv => MismatchExplainsFailure
  BY DEF AppInv
<1> QED BY AppInductive, <1>1, PTL

\* A Ready that makes a session Connected is always that of the transport it has
\* now: no start leaves an event of the one before in its queue (connect).
THEOREM ConnectedIsOfThisTransport == Spec => []ConnectedMeansReady
<1>1. AppInv => ConnectedMeansReady
  BY DEF AppInv
<1> QED BY AppInductive, <1>1, PTL

\* The push of on_transport_ready makes up for every resize lost before it: the
\* pty has the terminal's size for as long as the session is connected.
THEOREM SizesMeet == Spec => []SizeAgrees
<1>1. AppInv => SizeAgrees
  BY DEF AppInv
<1> QED BY AppInductive, <1>1, PTL

\* What a tab shows of its connection is so, whatever starts, ends, disconnects and
\* answers of the keychain interleave.
THEOREM TabsAreHonest == Spec => []StatusHonest
<1>1. TypeOK /\ TransportIffLive /\ TunnelsHeld /\ ConnectedMeansReady /\ SizeAgrees
      => StatusHonest
  BY DEF StatusHonest
<1> QED BY <1>1, AppTypeCorrect, LiveSessionsHaveTransports, ForwardingsShownAreHeld,
           ConnectedIsOfThisTransport, SizesMeet, PTL

\* An ended session is brought back by a start and by nothing else: not by the
\* keychain's late answer, nor by an event still queued when it ended.
THEOREM EndsAreFinal == Spec => EndedStaysEnded
<1>1. ASSUME AppInv, [Next]_vars, ~Live, Live'
      PROVE  starts' = starts + 1
  <2>1. ~transport /\ ~credentials /\ events = << >>
    BY <1>1 DEF AppInv, TransportIffLive, QueueSound
  <2>2. ~SecretsRead /\ ~Pump /\ ~TransportStep
    BY <2>1 DEF SecretsRead, Pump, TransportStep
  <2>3. status' # status
    BY <1>1 DEF Live
  <2>4. Reconnect
    BY <1>1, <2>2, <2>3 DEF Next, Disconnect, Live, SendInput, Resize, ReadForeground,
       HostAnswers, ForegroundIs, ForegroundStale, ShellStep, vars, view
  <2> QED BY <2>4 DEF Reconnect, Start
<1>2. AppInv /\ [Next]_vars => [~Live /\ Live' => starts' = starts + 1]_vars
  BY <1>1
<1> QED BY AppInductive, <1>2, PTL DEF Spec, EndedStaysEnded
-----------------------------------------------------------------------------
(* Closing a window over remote shells (CloseGuard).                       *)

ReadRecords == [shell : Shells, window : Windows, left : 0 .. Timeout,
                answer : {"pending", "unknown", "prompt", "busy"}, before : BOOLEAN]
HeldRecords == [intent : {Closed, "window", "quit"}, reads : SUBSET Shells]
CallRecords == [window : Windows \union {Nobody}, intent : {Closed, "window", "quit"},
                agreed : SUBSET Windows]
AskRecords == [intent : {Closed, "window", "quit"}, agreed : SUBSET Windows]

\* The shells: what each does, what was found of it and how long ago.
ShellTypes ==
    /\ shell \in [Shells -> {"off", "prompt", "busy"}]
    /\ found \in [Shells -> {"unknown", "prompt", "busy"}] /\ age \in [Shells -> 0 .. Fresh]
    /\ before \in [Shells -> BOOLEAN]
\* The windows: what is open, held and asked.
WindowTypes ==
    /\ home \in [Shells -> Windows] /\ confirm \in BOOLEAN
    /\ windows \subseteq Windows /\ edited \subseteq Windows
    /\ held \in [Windows -> HeldRecords] /\ call \in CallRecords
    /\ asking \in [Windows -> AskRecords]

\* A gesture is answered by a window that is open.
CallOpen == call # NoCall => call.window \in windows

\* A shell found at its prompt is at its prompt, unless the host was asked before
\* what was typed at it or connected since; and so is one that the host just found.
SeenBefore ==
    \A s \in Shells : IsFresh(s) /\ found[s] = "prompt" /\ shell[s] = "busy" => before[s]
AskedBefore ==
    \A r \in reading : r.answer = "prompt" /\ shell[r.shell] = "busy" => r.before

\* The read of a shell a gesture is held for is on its way, or came in no longer ago
\* than the time the reads still on their way have waited.
HeldFresh ==
    \A w \in Windows : \A s \in held[w].reads :
        \/ \E r \in WaitsOn(w) : r.shell = s
        \/ IsFresh(s) /\ \A r \in WaitsOn(w) : age[s] + r.left <= Timeout

GuardInv ==
    /\ ShellTypes /\ WindowTypes /\ reading \subseteq ReadRecords /\ ended = {}
    /\ CallOpen /\ SeenBefore /\ AskedBefore /\ HeldFresh

LEMMA GuardInvIsSound == GuardInv => GuardSound
<1> SUFFICES ASSUME GuardInv PROVE GuardSound
  OBVIOUS
<1>1. GuardTypes
  BY DEF GuardInv, GuardTypes, ShellTypes, WindowTypes, ReadRecords, HeldRecords, CallRecords,
     AskRecords
<1>2. NothingEndedUnasked
  BY DEF GuardInv, NothingEndedUnasked
<1>3. FindsThemFresh
  BY DEF GuardInv, FindsThemFresh, HeldFresh
<1> QED BY <1>1, <1>2, <1>3 DEF GuardSound

LEMMA InitGuard == GuardInit => GuardInv
<1> SUFFICES ASSUME GuardInit PROVE GuardInv
  OBVIOUS
<1>1. Fresh \in Nat /\ Timeout \in Nat /\ Fresh \in 0 .. Fresh
  BY CloseGuardAssumption
<1>2. NoCall \in CallRecords /\ NotHeld \in HeldRecords /\ NotAsked \in AskRecords
      /\ NotHeld.reads = {}
  BY DEF NoCall, NotHeld, NotAsked, CallRecords, HeldRecords, AskRecords
<1>3. /\ shell = [s \in Shells |-> "prompt"] /\ found = [s \in Shells |-> "unknown"]
      /\ age = [s \in Shells |-> Fresh] /\ reading = {} /\ ended = {} /\ call = NoCall
      /\ held = [w \in Windows |-> NotHeld] /\ asking = [w \in Windows |-> NotAsked]
  BY DEF GuardInit
<1>4. before \in [Shells -> BOOLEAN]
  BY Zenon DEF GuardInit
<1>5. ShellTypes
  BY <1>1, <1>3, <1>4 DEF ShellTypes
<1>6. WindowTypes
  <2>1. /\ home \in [Shells -> Windows] /\ confirm \in BOOLEAN
        /\ windows \subseteq Windows /\ edited \subseteq Windows
    BY DEF GuardInit
  <2> QED BY <1>2, <1>3, <2>1 DEF WindowTypes
<1>7. SeenBefore /\ AskedBefore
  BY <1>3 DEF SeenBefore, AskedBefore
<1>8. HeldFresh
  BY <1>2, <1>3 DEF HeldFresh
<1> QED BY <1>3, <1>5, <1>6, <1>7, <1>8 DEF GuardInv, CallOpen

\* Shells that end, reads that are dropped and gestures no longer held for them
\* leave what is known of the others.
LEMMA FewerKeeps ==
    ASSUME ShellTypes, SeenBefore, AskedBefore, HeldFresh, reading \subseteq ReadRecords,
           UNCHANGED <<found, age, before>>,
           \A s \in Shells : shell'[s] = "busy" => shell[s] = "busy",
           reading' \subseteq reading,
           \A w \in Windows : held'[w].reads \subseteq held[w].reads,
           \A w \in Windows : \A s \in held'[w].reads : \A r \in reading :
               r.window = w /\ r.shell = s => r \in reading'
    PROVE  SeenBefore' /\ AskedBefore' /\ HeldFresh'
<1>1. SeenBefore'
  BY DEF SeenBefore, IsFresh
<1>2. AskedBefore'
  BY DEF AskedBefore, ReadRecords
<1>3. ASSUME NEW w \in Windows, NEW s \in held'[w].reads
      PROVE  \/ \E r \in WaitsOn(w)' : r.shell = s
             \/ IsFresh(s)' /\ \A r \in WaitsOn(w)' : age'[s] + r.left <= Timeout
  <2>1. s \in held[w].reads
    BY <1>3
  <2>2. CASE \E r \in WaitsOn(w) : r.shell = s
    BY <1>3, <2>2 DEF WaitsOn
  <2>3. CASE IsFresh(s) /\ \A r \in WaitsOn(w) : age[s] + r.left <= Timeout
    BY <2>3 DEF WaitsOn, IsFresh
  <2> QED BY <2>1, <2>2, <2>3 DEF HeldFresh
<1> QED BY <1>1, <1>2, <1>3 DEF HeldFresh

LEMMA GestureKeeps == ASSUME GuardInv, Gesture PROVE GuardInv'
<1>1. UNCHANGED <<home, confirm, windows, edited, shell, found, age, before, reading, held,
                  asking, ended>>
  BY DEF Gesture
<1>2. PICK w \in windows, i \in {"window", "quit"} :
          call' = [window |-> w, intent |-> i, agreed |-> {}]
  BY DEF Gesture
<1>3. call' \in CallRecords /\ call'.window \in windows
  BY <1>2 DEF GuardInv, WindowTypes, CallRecords
<1>4. SeenBefore' /\ AskedBefore' /\ HeldFresh'
  BY <1>1, FewerKeeps DEF GuardInv
<1>5. ShellTypes' /\ WindowTypes' /\ CallOpen'
  BY <1>1, <1>3 DEF GuardInv, ShellTypes, WindowTypes, CallOpen
<1> QED BY <1>1, <1>4, <1>5 DEF GuardInv

\* The files of a window are saved, or a program ends.
LEMMA SmallKeeps == ASSUME GuardInv, SaveFiles \/ ProgramEnds PROVE GuardInv'
<1>1. UNCHANGED <<home, confirm, windows, found, age, before, reading, held, call, asking,
                  ended>>
  BY DEF SaveFiles, ProgramEnds
<1>2. /\ edited' \subseteq Windows /\ shell' \in [Shells -> {"off", "prompt", "busy"}]
      /\ \A s \in Shells : shell'[s] = "busy" => shell[s] = "busy"
  BY DEF GuardInv, SaveFiles, ProgramEnds, ShellTypes, WindowTypes
<1>3. SeenBefore' /\ AskedBefore' /\ HeldFresh'
  BY <1>1, <1>2, FewerKeeps DEF GuardInv
<1>4. ShellTypes' /\ WindowTypes' /\ CallOpen'
  BY <1>1, <1>2 DEF GuardInv, ShellTypes, WindowTypes, CallOpen
<1> QED BY <1>1, <1>3, <1>4 DEF GuardInv

LEMMA MadeAgainKeeps == ASSUME GuardInv, MadeAgain PROVE GuardInv'
<1>1. UNCHANGED <<home, confirm, windows, edited, shell, found, age, before, reading,
                  asking, ended>>
  BY DEF MadeAgain
<1>2. PICK w \in windows :
          /\ held' = [held EXCEPT ![w] = NotHeld]
          /\ call' = [window |-> w, intent |-> held[w].intent, agreed |-> {}]
  BY DEF MadeAgain
<1>3. held \in [Windows -> HeldRecords] /\ w \in Windows
  BY DEF GuardInv, WindowTypes
<1>4. NotHeld \in HeldRecords /\ NotHeld.reads = {}
  BY DEF NotHeld, HeldRecords
<1>5. held' \in [Windows -> HeldRecords] /\ \A v \in Windows : held'[v].reads \subseteq held[v].reads
  BY <1>2, <1>3, <1>4
<1>6. call' \in CallRecords /\ call'.window \in windows
  BY <1>2, <1>3 DEF CallRecords, HeldRecords
<1>7. SeenBefore' /\ AskedBefore' /\ HeldFresh'
  BY <1>1, <1>5, FewerKeeps DEF GuardInv
<1>8. ShellTypes' /\ WindowTypes' /\ CallOpen'
  BY <1>1, <1>5, <1>6 DEF GuardInv, ShellTypes, WindowTypes, CallOpen
<1> QED BY <1>1, <1>7, <1>8 DEF GuardInv

LEMMA HoldKeeps == ASSUME GuardInv, Hold PROVE GuardInv'
<1> DEFINE w == call.window
           missing == ToRead(w, call.intent)
<1>1. /\ UNCHANGED <<home, confirm, windows, edited, shell, found, age, before, asking, ended>>
      /\ call # NoCall /\ call' = NoCall
  BY DEF Hold
<1>2. /\ w \in windows /\ w \in Windows /\ call.intent \in {Closed, "window", "quit"}
      /\ held \in [Windows -> HeldRecords] /\ reading \subseteq ReadRecords
  BY <1>1 DEF GuardInv, CallOpen, WindowTypes, CallRecords
<1>3. missing \subseteq Shells
  BY DEF ToRead, Ends, In
<1>4. NoCall \in CallRecords
  BY DEF NoCall, CallRecords
<1> HIDE DEF w, missing
<1>5. CASE held' = [held EXCEPT ![w].intent = call.intent] /\ reading' = reading
  <2>1. /\ held' \in [Windows -> HeldRecords]
        /\ \A v \in Windows : held'[v].reads = held[v].reads
    BY <1>2, <1>5 DEF HeldRecords
  <2>2. SeenBefore' /\ AskedBefore' /\ HeldFresh'
    BY <1>1, <1>5, <2>1, FewerKeeps DEF GuardInv
  <2> QED BY <1>1, <1>4, <1>5, <2>1, <2>2
          DEF GuardInv, ShellTypes, WindowTypes, CallOpen
<1>6. CASE /\ held' = [held EXCEPT ![w] = [intent |-> call.intent, reads |-> missing]]
           /\ reading' = reading \union {ReadOf(s, w) : s \in missing}
  <2>1. [intent |-> call.intent, reads |-> missing] \in HeldRecords
    BY <1>2, <1>3 DEF HeldRecords
  <2>2. /\ held' \in [Windows -> HeldRecords] /\ held'[w].reads = missing
        /\ \A v \in Windows : v # w => held'[v] = held[v]
    BY <1>2, <1>6, <2>1
  <2>3. \A s \in missing :
          /\ ReadOf(s, w) \in ReadRecords /\ ReadOf(s, w).shell = s
          /\ ReadOf(s, w).window = w /\ ReadOf(s, w).answer = "pending"
    <3>1. FALSE \in BOOLEAN /\ Timeout \in 0 .. Timeout
      BY CloseGuardAssumption
    <3> QED BY <1>2, <1>3, <3>1, Zenon DEF ReadOf, ReadRecords
  <2>4. /\ reading' \subseteq ReadRecords /\ reading \subseteq reading'
        /\ \A r \in reading' : r \in reading \/ (r.window = w /\ r.answer = "pending")
    BY <1>2, <1>6, <2>3
  <2>5. SeenBefore'
    BY <1>1 DEF GuardInv, SeenBefore, IsFresh
  <2>6. AskedBefore'
    BY <1>1, <2>4 DEF GuardInv, AskedBefore
  <2>7. HeldFresh'
    <3> SUFFICES ASSUME NEW v \in Windows, NEW s \in held'[v].reads
                 PROVE  \/ \E r \in WaitsOn(v)' : r.shell = s
                        \/ IsFresh(s)' /\ \A r \in WaitsOn(v)' : age'[s] + r.left <= Timeout
      BY DEF HeldFresh
    <3>1. CASE v = w
      <4>1. ReadOf(s, w) \in WaitsOn(v)' /\ ReadOf(s, w).shell = s
        BY <1>6, <2>2, <2>3, <3>1 DEF WaitsOn
      <4> QED BY <4>1
    <3>2. CASE v # w
      <4>1. WaitsOn(v)' = WaitsOn(v) /\ s \in held[v].reads
        BY <2>2, <2>4, <3>2 DEF WaitsOn
      <4> QED BY <1>1, <4>1 DEF GuardInv, HeldFresh, IsFresh
    <3> QED BY <3>1, <3>2
  <2> QED BY <1>1, <1>4, <2>2, <2>4, <2>5, <2>6, <2>7
          DEF GuardInv, ShellTypes, WindowTypes, CallOpen
<1> QED BY <1>5, <1>6 DEF Hold, w, missing

\* A gesture that is granted closes what it may, or passes on to the next window.
LEMMA GrantedKeeps ==
    ASSUME GuardInv, NEW w \in windows, NEW intent, NEW agreed \in SUBSET Windows,
           intent \in {Closed, "window", "quit"},
           Granted(w, intent, agreed), UNCHANGED <<home, confirm, edited, found, age, before>>
    PROVE  /\ ShellTypes' /\ WindowTypes' /\ reading' \subseteq ReadRecords
           /\ CallOpen' /\ SeenBefore' /\ AskedBefore' /\ HeldFresh'
<1> DEFINE left == windows \ (agreed \union {w})
           gone == IF intent = "window" THEN {w} ELSE windows
           over == {s \in Shells : home[s] \in gone}
<1>1. /\ windows \subseteq Windows /\ held \in [Windows -> HeldRecords]
      /\ asking \in [Windows -> AskRecords] /\ reading \subseteq ReadRecords
  BY DEF GuardInv, WindowTypes
<1> HIDE DEF left, gone, over
<1>2. CASE /\ \E next \in left :
                  call' = [window |-> next, intent |-> intent, agreed |-> agreed \union {w}]
           /\ UNCHANGED <<windows, shell, reading, held, asking>>
  <2>1. call' \in CallRecords /\ call'.window \in windows
    BY <1>1, <1>2 DEF CallRecords, left
  <2>2. SeenBefore' /\ AskedBefore' /\ HeldFresh'
    BY <1>2, FewerKeeps DEF GuardInv
  <2> QED BY <1>2, <2>1, <2>2 DEF GuardInv, ShellTypes, WindowTypes, CallOpen
<1>3. CASE /\ windows' = windows \ gone /\ call' = NoCall
           /\ shell' = [s \in Shells |-> IF s \in over THEN "off" ELSE shell[s]]
           /\ reading' = {r \in reading : r.window \notin gone /\ r.shell \notin over}
           /\ held' = [v \in Windows |-> IF v \in gone THEN NotHeld ELSE NotOf(held[v], over)]
           /\ asking' = [v \in Windows |-> IF v \in gone THEN NotAsked ELSE asking[v]]
  <2>1. /\ NoCall \in CallRecords /\ NotHeld \in HeldRecords /\ NotHeld.reads = {}
        /\ NotAsked \in AskRecords
    BY DEF NoCall, NotHeld, NotAsked, CallRecords, HeldRecords, AskRecords
  <2>2. shell' \in [Shells -> {"off", "prompt", "busy"}]
        /\ \A s \in Shells : shell'[s] = "busy" => shell[s] = "busy"
    BY <1>3 DEF GuardInv, ShellTypes
  <2>3. \A v \in Windows : NotOf(held[v], over) \in HeldRecords
                           /\ NotOf(held[v], over).reads = held[v].reads \ over
    BY <1>1 DEF NotOf, HeldRecords
  <2>4. /\ held' \in [Windows -> HeldRecords]
        /\ \A v \in Windows : /\ held'[v].reads \subseteq held[v].reads
                              /\ v \in gone => held'[v].reads = {}
                              /\ held'[v].reads \intersect over = {}
    BY <1>3, <2>1, <2>3
  <2>5. asking' \in [Windows -> AskRecords]
    BY <1>1, <1>3, <2>1
  <2>6. \A v \in Windows : \A s \in held'[v].reads : \A r \in reading :
            r.window = v /\ r.shell = s => r \in reading'
    BY <1>3, <2>4
  <2>7. reading' \subseteq reading
    BY <1>3
  <2>8. SeenBefore' /\ AskedBefore' /\ HeldFresh'
    BY <2>2, <2>4, <2>6, <2>7, FewerKeeps DEF GuardInv
  <2> QED BY <1>1, <1>3, <2>1, <2>2, <2>4, <2>5, <2>7, <2>8
          DEF GuardInv, ShellTypes, WindowTypes, CallOpen
<1> QED BY <1>2, <1>3 DEF Granted, left, gone, over

\* A window that says yes without a question loses no program it does not know of.
LEMMA NothingLost ==
    ASSUME GuardInv, NEW w \in Windows, confirm, ~UnsavedWork(w)
    PROVE  LostUnasked(w) = {}
<1> SUFFICES ASSUME NEW s \in Shells, home[s] = w, shell[s] = "busy", ~before[s] PROVE FALSE
  BY DEF LostUnasked, In
<1>1. ~EndsWork(s)
  BY DEF UnsavedWork, In
<1>2. IsFresh(s) /\ found[s] = "prompt"
  BY <1>1 DEF EndsWork
<1> QED BY <1>2 DEF GuardInv, SeenBefore

LEMMA GuardAsksKeeps == ASSUME GuardInv, GuardAsks PROVE GuardInv'
<1> DEFINE w == call.window
<1>1. /\ UNCHANGED <<home, confirm, edited, found, age, before>>
      /\ call # NoCall
  BY DEF GuardAsks
<1>2. /\ w \in windows /\ w \in Windows /\ call.intent \in {Closed, "window", "quit"}
      /\ call.agreed \in SUBSET Windows /\ NoCall \in CallRecords
      /\ asking \in [Windows -> AskRecords]
  BY <1>1 DEF GuardInv, CallOpen, WindowTypes, CallRecords, NoCall
<1> HIDE DEF w
<1>3. CASE /\ asking' = asking \/ asking' = [asking EXCEPT
                ![w] = [intent |-> call.intent, agreed |-> call.agreed]]
           /\ call' = NoCall /\ UNCHANGED <<windows, shell, reading, held, ended>>
  <2>1. asking' \in [Windows -> AskRecords]
    BY <1>2, <1>3 DEF AskRecords
  <2>2. SeenBefore' /\ AskedBefore' /\ HeldFresh'
    BY <1>1, <1>3, FewerKeeps DEF GuardInv
  <2> QED BY <1>1, <1>2, <1>3, <2>1, <2>2 DEF GuardInv, ShellTypes, WindowTypes, CallOpen
<1>4. CASE /\ ~UnsavedWork(w) /\ ended' = (IF confirm THEN LostUnasked(w) ELSE {})
           /\ Granted(w, call.intent, call.agreed)
  <2>1. ended' = {}
    BY <1>2, <1>4, NothingLost
  <2>2. /\ ShellTypes' /\ WindowTypes' /\ reading' \subseteq ReadRecords
        /\ CallOpen' /\ SeenBefore' /\ AskedBefore' /\ HeldFresh'
    BY <1>1, <1>2, <1>4, GrantedKeeps
  <2> QED BY <2>1, <2>2 DEF GuardInv
<1> QED BY <1>3, <1>4 DEF GuardAsks, w

LEMMA GuardAnswerKeeps == ASSUME GuardInv, GuardAnswer PROVE GuardInv'
<1>1. /\ UNCHANGED <<home, confirm, edited, found, age, before, ended>> /\ call = NoCall
      /\ windows \subseteq Windows /\ asking \in [Windows -> AskRecords]
  BY DEF GuardAnswer, GuardInv, WindowTypes
<1>2. PICK w \in windows :
        \/ asking' = [asking EXCEPT ![w] = NotAsked]
           /\ UNCHANGED <<windows, shell, reading, held, call>>
        \/ Granted(w, asking[w].intent, asking[w].agreed \intersect windows)
  BY DEF GuardAnswer
<1>3. CASE asking' = [asking EXCEPT ![w] = NotAsked]
           /\ UNCHANGED <<windows, shell, reading, held, call>>
  <2>1. asking' \in [Windows -> AskRecords]
    BY <1>1, <1>3 DEF AskRecords, NotAsked
  <2>2. SeenBefore' /\ AskedBefore' /\ HeldFresh'
    BY <1>1, <1>3, FewerKeeps DEF GuardInv
  <2> QED BY <1>1, <1>3, <2>1, <2>2 DEF GuardInv, ShellTypes, WindowTypes, CallOpen
<1>4. CASE Granted(w, asking[w].intent, asking[w].agreed \intersect windows)
  <2>1. /\ asking[w].intent \in {Closed, "window", "quit"}
        /\ asking[w].agreed \intersect windows \in SUBSET Windows
    BY <1>1 DEF AskRecords
  <2>2. /\ ShellTypes' /\ WindowTypes' /\ reading' \subseteq ReadRecords
        /\ CallOpen' /\ SeenBefore' /\ AskedBefore' /\ HeldFresh'
    BY <1>1, <1>4, <2>1, GrantedKeeps
  <2> QED BY <1>1, <2>2 DEF GuardInv
<1> QED BY <1>2, <1>3, <1>4

\* Where the reads on their way are as they were, but for what they answer, and the
\* shells held for as fresh as they were, nothing changes for what is held.
LEMMA SameWaits ==
    ASSUME HeldFresh, held' \in [Windows -> HeldRecords],
           \A w \in Windows : held'[w].reads \subseteq held[w].reads,
           \A w \in Windows : \A s \in held'[w].reads : age'[s] = age[s],
           \A r \in reading : \E q \in reading' : q.shell = r.shell /\ q.window = r.window,
           \A q \in reading' : \E r \in reading :
               q.shell = r.shell /\ q.window = r.window /\ q.left = r.left
    PROVE  HeldFresh'
<1> SUFFICES ASSUME NEW w \in Windows, NEW s \in held'[w].reads
             PROVE  \/ \E r \in WaitsOn(w)' : r.shell = s
                    \/ IsFresh(s)' /\ \A r \in WaitsOn(w)' : age'[s] + r.left <= Timeout
  BY DEF HeldFresh
<1>1. s \in held[w].reads /\ age'[s] = age[s]
  OBVIOUS
<1>2. CASE \E r \in WaitsOn(w) : r.shell = s
  BY <1>2 DEF WaitsOn
<1>3. CASE IsFresh(s) /\ \A r \in WaitsOn(w) : age[s] + r.left <= Timeout
  BY <1>1, <1>3 DEF WaitsOn, IsFresh
<1> QED BY <1>1, <1>2, <1>3 DEF HeldFresh

\* A shell that runs a program is not found at its prompt.
LEMMA HostTells ==
    ASSUME NEW s
    PROVE  /\ Parse(Processes(s), 1) \in {"unknown", "prompt", "busy"}
           /\ shell[s] = "busy" => Parse(Processes(s), 1) # "prompt"
<1>1. Parse(Processes(s), 1) \in {"unknown", "prompt", "busy"}
  BY DEF Parse
<1>2. ASSUME shell[s] = "busy" PROVE Parse(Processes(s), 1) # "prompt"
  <2> DEFINE row == [pid |-> 2, ppid |-> 1, tpgid |-> 3]
             shells == {r \in Processes(s) : r.ppid = 1 /\ r.tpgid > 0}
  <2>1. row \in shells
    BY <1>2 DEF Processes
  <2>2. row.tpgid # row.pid
    OBVIOUS
  <2> HIDE DEF row, shells
  <2>3. shells # {} /\ ~(\A r \in shells : r.tpgid = r.pid)
    BY <2>1, <2>2
  <2>4. Parse(Processes(s), 1) = IF shells = {} THEN "unknown"
                                ELSE IF \A r \in shells : r.tpgid = r.pid THEN "prompt"
                                ELSE "busy"
    BY DEF Parse, shells
  <2> QED BY <2>3, <2>4
<1> QED BY <1>1, <1>2

LEMMA HostSaysKeeps == ASSUME GuardInv, HostSays PROVE GuardInv'
<1>1. UNCHANGED <<home, confirm, windows, edited, shell, found, age, before, held, call,
                  asking, ended>>
  BY DEF HostSays
<1>2. PICK r \in reading : reading' = (reading \ {r}) \union
                             {[r EXCEPT !.answer = Parse(Processes(r.shell), 1)]}
  BY DEF HostSays
<1>3. reading \subseteq ReadRecords
  BY DEF GuardInv
<1> DEFINE q == [r EXCEPT !.answer = Parse(Processes(r.shell), 1)]
<1>4. /\ q \in ReadRecords /\ q.shell = r.shell /\ q.window = r.window /\ q.left = r.left
      /\ q.answer = "prompt" => shell[q.shell] # "busy"
  BY <1>2, <1>3, HostTells DEF ReadRecords
<1>5. reading' = (reading \ {r}) \union {q}
  BY <1>2
<1> HIDE DEF q
<1>6. reading' \subseteq ReadRecords
  BY <1>3, <1>4, <1>5
<1>7. AskedBefore'
  BY <1>1, <1>4, <1>5 DEF GuardInv, AskedBefore
<1>8. HeldFresh'
  <2>1. \A p \in reading : \E n \in reading' : n.shell = p.shell /\ n.window = p.window
    BY <1>4, <1>5
  <2>2. \A n \in reading' : \E p \in reading :
            n.shell = p.shell /\ n.window = p.window /\ n.left = p.left
    BY <1>2, <1>4, <1>5
  <2> QED BY <1>1, <2>1, <2>2, SameWaits DEF GuardInv, WindowTypes
<1>9. SeenBefore' /\ ShellTypes' /\ WindowTypes' /\ CallOpen'
  BY <1>1 DEF GuardInv, SeenBefore, IsFresh, ShellTypes, WindowTypes, CallOpen
<1> QED BY <1>1, <1>6, <1>7, <1>8, <1>9 DEF GuardInv

LEMMA ReadInKeeps == ASSUME GuardInv, ReadIn PROVE GuardInv'
<1>1. UNCHANGED <<home, confirm, windows, edited, shell, held, call, asking, ended>>
  BY DEF ReadIn
<1>2. PICK r \in reading : Lands(r)
  BY DEF ReadIn
<1>3. /\ r \in ReadRecords /\ reading \subseteq ReadRecords /\ r.shell \in Shells
      /\ r.before \in BOOLEAN /\ r.answer \in {"pending", "unknown", "prompt", "busy"}
  BY <1>2 DEF GuardInv, ReadRecords
<1>4. /\ Fresh \in Nat /\ Timeout \in Nat /\ 0 \in 0 .. Fresh /\ 0 < Fresh
  BY CloseGuardAssumption
<1>5. /\ age' \in [Shells -> 0 .. Fresh] /\ age'[r.shell] = 0
      /\ \A s \in Shells : s # r.shell => age'[s] = age[s]
  BY <1>2, <1>3, <1>4 DEF Lands, GuardInv, ShellTypes
<1>6. /\ found' \in [Shells -> {"unknown", "prompt", "busy"}]
      /\ found'[r.shell] = "prompt" => r.answer = "prompt"
      /\ \A s \in Shells : s # r.shell => found'[s] = found[s]
  BY <1>2, <1>3 DEF Lands, GuardInv, ShellTypes
<1>7. /\ before' \in [Shells -> BOOLEAN] /\ before'[r.shell] = r.before
      /\ \A s \in Shells : s # r.shell => before'[s] = before[s]
  BY <1>2, <1>3 DEF Lands, GuardInv, ShellTypes
<1>8. reading' = reading \ {r}
  BY <1>2 DEF Lands
<1>9. SeenBefore'
  <2> SUFFICES ASSUME NEW s \in Shells, IsFresh(s)', found'[s] = "prompt", shell[s] = "busy"
               PROVE  before'[s]
    BY <1>1 DEF SeenBefore
  <2>1. CASE s = r.shell
    BY <1>2, <1>6, <1>7, <2>1 DEF GuardInv, AskedBefore
  <2>2. CASE s # r.shell
    <3>1. before[s]
      BY <1>5, <1>6, <2>2 DEF GuardInv, SeenBefore, IsFresh
    <3> QED BY <1>7, <2>2, <3>1
  <2> QED BY <2>1, <2>2
<1>10. AskedBefore'
  BY <1>1, <1>8 DEF GuardInv, AskedBefore
<1>11. HeldFresh'
  <2> SUFFICES ASSUME NEW w \in Windows, NEW s \in held[w].reads
               PROVE  \/ \E q \in WaitsOn(w)' : q.shell = s
                      \/ IsFresh(s)' /\ \A q \in WaitsOn(w)' : age'[s] + q.left <= Timeout
    BY <1>1 DEF HeldFresh
  <2>1. s \in Shells
    BY DEF GuardInv, WindowTypes, HeldRecords
  <2>2. CASE s = r.shell
    <3>1. IsFresh(s)'
      BY <1>4, <1>5, <2>2 DEF IsFresh
    <3>2. \A q \in WaitsOn(w)' : age'[s] + q.left <= Timeout
      BY <1>3, <1>4, <1>5, <1>8, <2>2 DEF WaitsOn, ReadRecords
    <3> QED BY <3>1, <3>2
  <2>3. CASE s # r.shell
    <3>1. CASE \E q \in WaitsOn(w) : q.shell = s
      BY <1>8, <2>3, <3>1 DEF WaitsOn
    <3>2. CASE IsFresh(s) /\ \A q \in WaitsOn(w) : age[s] + q.left <= Timeout
      BY <1>5, <1>8, <2>1, <2>3, <3>2 DEF WaitsOn, IsFresh
    <3> QED BY <3>1, <3>2 DEF GuardInv, HeldFresh
  <2> QED BY <2>2, <2>3
<1>12. ShellTypes' /\ WindowTypes' /\ CallOpen' /\ reading' \subseteq ReadRecords
  BY <1>1, <1>3, <1>5, <1>6, <1>7, <1>8 DEF GuardInv, ShellTypes, WindowTypes, CallOpen
<1> QED BY <1>1, <1>9, <1>10, <1>11, <1>12 DEF GuardInv

\* Reads that go stale are as none.
LEMMA Aged ==
    ASSUME ShellTypes, NEW new \in [Shells -> 0 .. Fresh], Ages(new)
    PROVE  /\ age' = new /\ found' \in [Shells -> {"unknown", "prompt", "busy"}]
           /\ before' \in [Shells -> BOOLEAN]
           /\ \A s \in Shells : new[s] < Fresh => found'[s] = found[s] /\ (before'[s] <=> before[s])
<1>1. age' = new /\ found' \in [Shells -> {"unknown", "prompt", "busy"}]
      /\ \A s \in Shells : new[s] < Fresh => found'[s] = found[s]
  BY DEF Ages, ShellTypes
<1>2. before' = [s \in Shells |-> new[s] < Fresh /\ before[s]]
  BY DEF Ages
<1>3. before' \in [Shells -> BOOLEAN]
  BY <1>2, Zenon
<1>4. ASSUME NEW s \in Shells, new[s] < Fresh PROVE before'[s] <=> before[s]
  <2>1. before'[s] = (new[s] < Fresh /\ before[s])
    BY <1>2, Zenon
  <2> QED BY <1>4, <2>1
<1> QED BY <1>1, <1>3, <1>4

LEMMA TickKeeps == ASSUME GuardInv, Tick PROVE GuardInv'
<1> DEFINE new == [s \in Shells |-> IF IsFresh(s) THEN age[s] + 1 ELSE Fresh]
<1>1. /\ UNCHANGED <<home, confirm, windows, edited, shell, held, call, asking, ended>>
      /\ \A r \in reading : r.left > 0 /\ r.answer = "pending"
      /\ \A w \in Windows : held[w] # NotHeld => WaitsOn(w) # {}
      /\ Ages(new) /\ reading' = {[r EXCEPT !.left = @ - 1] : r \in reading}
  BY DEF Tick
<1>2. /\ Fresh \in Nat /\ Timeout \in Nat /\ Timeout < Fresh
      /\ age \in [Shells -> 0 .. Fresh] /\ reading \subseteq ReadRecords
  BY CloseGuardAssumption DEF GuardInv, ShellTypes
<1>3. new \in [Shells -> 0 .. Fresh]
  BY <1>2 DEF IsFresh
<1>4. \A s \in Shells : /\ IsFresh(s) => new[s] = age[s] + 1
                        /\ new[s] < Fresh => IsFresh(s)
  BY <1>2
<1> HIDE DEF new
<1>5. /\ age' = new /\ found' \in [Shells -> {"unknown", "prompt", "busy"}]
      /\ before' \in [Shells -> BOOLEAN]
      /\ \A s \in Shells : new[s] < Fresh => found'[s] = found[s] /\ (before'[s] <=> before[s])
  BY <1>1, <1>3, Aged DEF GuardInv
<1>6. \A r \in reading : LET q == [r EXCEPT !.left = @ - 1]
                         IN /\ q \in ReadRecords /\ q.shell = r.shell /\ q.window = r.window
                            /\ q.left = r.left - 1 /\ q.answer = "pending"
  BY <1>1, <1>2 DEF ReadRecords
<1>7. /\ \A q \in reading' : /\ q \in ReadRecords /\ q.answer = "pending"
                             /\ \E r \in reading : /\ q.shell = r.shell /\ q.window = r.window
                                                   /\ q.left = r.left - 1
      /\ \A r \in reading : \E q \in reading' : q.shell = r.shell /\ q.window = r.window
  BY <1>1, <1>6
<1>8. SeenBefore'
  BY <1>1, <1>4, <1>5 DEF GuardInv, SeenBefore, IsFresh
<1>9. AskedBefore'
  BY <1>7 DEF AskedBefore
<1>10. HeldFresh'
  <2> SUFFICES ASSUME NEW w \in Windows, NEW s \in held[w].reads
               PROVE  \/ \E q \in WaitsOn(w)' : q.shell = s
                      \/ IsFresh(s)' /\ \A q \in WaitsOn(w)' : age'[s] + q.left <= Timeout
    BY <1>1 DEF HeldFresh
  <2>1. s \in Shells
    BY DEF GuardInv, WindowTypes, HeldRecords
  <2>2. CASE \E r \in WaitsOn(w) : r.shell = s
    BY <1>7, <2>2 DEF WaitsOn
  <2>3. CASE IsFresh(s) /\ \A r \in WaitsOn(w) : age[s] + r.left <= Timeout
    \* a gesture is held, so a read is on its way and has time left
    <3>1. held[w] # NotHeld
      BY DEF NotHeld
    <3>2. PICK r \in WaitsOn(w) : TRUE
      BY <1>1, <3>1
    <3>3. r \in reading /\ r.left \in 0 .. Timeout /\ r.left > 0 /\ age[s] + r.left <= Timeout
      BY <1>1, <1>2, <2>3, <3>2 DEF WaitsOn, ReadRecords
    <3>4. age'[s] = age[s] + 1 /\ age[s] \in 0 .. Fresh
      BY <1>2, <1>4, <1>5, <2>1, <2>3
    <3>5. IsFresh(s)'
      BY <1>2, <3>3, <3>4 DEF IsFresh
    <3>6. ASSUME NEW q \in WaitsOn(w)' PROVE age'[s] + q.left <= Timeout
      <4>1. PICK p \in reading : q.window = p.window /\ q.left = p.left - 1
        BY <1>7, <3>6 DEF WaitsOn
      <4>2. p \in WaitsOn(w) /\ p.left \in 0 .. Timeout
        BY <1>2, <3>6, <4>1 DEF WaitsOn, ReadRecords
      <4>3. age[s] + p.left <= Timeout
        BY <2>3, <4>2
      <4> QED BY <1>2, <3>4, <4>1, <4>2, <4>3
    <3> QED BY <3>5, <3>6
  <2> QED BY <2>2, <2>3 DEF GuardInv, HeldFresh
<1>11. ShellTypes' /\ WindowTypes' /\ CallOpen' /\ reading' \subseteq ReadRecords
  BY <1>1, <1>3, <1>5, <1>7 DEF GuardInv, ShellTypes, WindowTypes, CallOpen
<1> QED BY <1>1, <1>8, <1>9, <1>10, <1>11 DEF GuardInv

\* A read asked of a shell before it changed, b telling so.
Overtook(r, s, b) == IF r.shell = s THEN [r EXCEPT !.before = b] ELSE r

\* What was asked of a shell before it changed is not held for, and is marked.
LEMMA OvertakenIs ==
    ASSUME WindowTypes, reading \subseteq ReadRecords, NEW s \in Shells, Overtaken(s)
    PROVE  /\ held' \in [Windows -> HeldRecords] /\ reading' \subseteq ReadRecords
           /\ \A w \in Windows : /\ held'[w].reads \subseteq held[w].reads
                                 /\ s \notin held'[w].reads
           /\ \A r \in reading : \E q \in reading' : q.shell = r.shell /\ q.window = r.window
           /\ \A q \in reading' : /\ q.shell = s => q.before
                                  /\ q.shell # s => q \in reading
                                  /\ \E r \in reading : /\ q.shell = r.shell
                                                        /\ q.window = r.window
                                                        /\ q.left = r.left
<1>1. /\ held' = [w \in Windows |-> NotOf(held[w], {s})]
      /\ held \in [Windows -> HeldRecords]
  BY DEF Overtaken, WindowTypes
<1>2. \A w \in Windows : NotOf(held[w], {s}) \in HeldRecords
                         /\ NotOf(held[w], {s}).reads = held[w].reads \ {s}
  BY <1>1 DEF NotOf, HeldRecords
<1>3. PICK b \in BOOLEAN : b /\ reading' = {Overtook(r, s, b) : r \in reading}
  BY Zenon DEF Overtaken, Overtook
<1>4. ASSUME NEW r \in reading
      PROVE  /\ Overtook(r, s, b) \in ReadRecords /\ Overtook(r, s, b).shell = r.shell
             /\ Overtook(r, s, b).window = r.window /\ Overtook(r, s, b).left = r.left
             /\ r.shell = s => Overtook(r, s, b).before
             /\ r.shell # s => Overtook(r, s, b) = r
  <2>1. r \in ReadRecords
    OBVIOUS
  <2>2. CASE r.shell = s
    <3>1. Overtook(r, s, b) = [r EXCEPT !.before = b]
      BY <2>2 DEF Overtook
    <3> QED BY <1>3, <2>1, <2>2, <3>1 DEF ReadRecords
  <2>3. CASE r.shell # s
    BY <2>1, <2>3 DEF Overtook
  <2> QED BY <2>2, <2>3
<1>5. /\ held' \in [Windows -> HeldRecords]
      /\ \A w \in Windows : held'[w].reads \subseteq held[w].reads /\ s \notin held'[w].reads
  BY <1>1, <1>2
<1>6. \A r \in reading : \E q \in reading' : q.shell = r.shell /\ q.window = r.window
  BY <1>3, <1>4
<1>7. ASSUME NEW q \in reading'
      PROVE  /\ q \in ReadRecords
             /\ q.shell = s => q.before
             /\ q.shell # s => q \in reading
             /\ \E r \in reading : /\ q.shell = r.shell
                                   /\ q.window = r.window
                                   /\ q.left = r.left
  <2>1. PICK r \in reading : q = Overtook(r, s, b)
    BY <1>3
  <2> QED BY <1>4, <2>1
<1> QED BY <1>5, <1>6, <1>7

LEMMA TypeLineKeeps == ASSUME GuardInv, TypeLine PROVE GuardInv'
<1>1. UNCHANGED <<home, confirm, windows, edited, call, asking, ended>>
  BY DEF TypeLine
<1>2. PICK s \in Shells, now \in {"prompt", "busy"} :
        /\ shell' = [shell EXCEPT ![s] = now]
        /\ Ages(NotTrusted(s)) /\ Overtaken(s)
  BY DEF TypeLine
<1>3. /\ NotTrusted(s) \in [Shells -> 0 .. Fresh] /\ NotTrusted(s)[s] = Fresh /\ Fresh \in Nat
      /\ \A t \in Shells : t # s => NotTrusted(s)[t] = age[t]
  BY CloseGuardAssumption DEF NotTrusted, GuardInv, ShellTypes
<1>4. /\ age' = NotTrusted(s) /\ found' \in [Shells -> {"unknown", "prompt", "busy"}]
      /\ before' \in [Shells -> BOOLEAN]
      /\ \A t \in Shells : age'[t] < Fresh => found'[t] = found[t] /\ (before'[t] <=> before[t])
  BY <1>2, <1>3, Aged DEF GuardInv
<1>5. /\ shell' \in [Shells -> {"off", "prompt", "busy"}]
      /\ \A t \in Shells : t # s => shell'[t] = shell[t]
  BY <1>2 DEF GuardInv, ShellTypes
<1>6. /\ held' \in [Windows -> HeldRecords] /\ reading' \subseteq ReadRecords
      /\ \A w \in Windows : held'[w].reads \subseteq held[w].reads /\ s \notin held'[w].reads
      /\ \A r \in reading : \E q \in reading' : q.shell = r.shell /\ q.window = r.window
      /\ \A q \in reading' : /\ q.shell = s => q.before
                             /\ q.shell # s => q \in reading
                             /\ \E r \in reading : /\ q.shell = r.shell
                                                   /\ q.window = r.window
                                                   /\ q.left = r.left
  BY <1>2, OvertakenIs DEF GuardInv
<1>7. SeenBefore'
  <2> SUFFICES ASSUME NEW t \in Shells, IsFresh(t)', found'[t] = "prompt", shell'[t] = "busy"
               PROVE  before'[t]
    BY DEF SeenBefore
  <2>1. t # s /\ age[t] < Fresh
    BY <1>3, <1>4 DEF IsFresh
  <2> QED BY <1>4, <1>5, <2>1 DEF GuardInv, SeenBefore, IsFresh
<1>8. AskedBefore'
  BY <1>5, <1>6 DEF GuardInv, AskedBefore, ReadRecords
<1>9. HeldFresh'
  <2>1. \A w \in Windows : \A t \in held'[w].reads : age'[t] = age[t]
    BY <1>3, <1>4, <1>6 DEF HeldRecords
  <2> QED BY <1>6, <2>1, SameWaits DEF GuardInv
<1> QED BY <1>1, <1>3, <1>4, <1>5, <1>6, <1>7, <1>8, <1>9
        DEF GuardInv, ShellTypes, WindowTypes, CallOpen

LEMMA ShellReconnectsKeeps == ASSUME GuardInv, ShellReconnects PROVE GuardInv'
<1>1. UNCHANGED <<home, confirm, windows, edited, found, age, call, asking, ended>>
  BY DEF ShellReconnects
<1>2. PICK s \in Shells, now \in {"prompt", "busy", "off"} :
        /\ shell' = [shell EXCEPT ![s] = now]
        /\ before' = [before EXCEPT ![s] = IsFresh(s)] /\ Overtaken(s)
  BY DEF ShellReconnects
<1>3. /\ before' \in [Shells -> BOOLEAN] /\ (before'[s] <=> IsFresh(s))
      /\ \A t \in Shells : t # s => before'[t] = before[t]
  <2>0. IsFresh(s) \in BOOLEAN
    BY DEF IsFresh
  <2>1. PICK b \in BOOLEAN : b = IsFresh(s) /\ before' = [before EXCEPT ![s] = b]
    BY <1>2, <2>0, Zenon
  <2>2. before \in [Shells -> BOOLEAN]
    BY DEF GuardInv, ShellTypes
  <2> QED BY <2>1, <2>2
<1>4. /\ shell' \in [Shells -> {"off", "prompt", "busy"}]
      /\ \A t \in Shells : t # s => shell'[t] = shell[t]
  BY <1>2 DEF GuardInv, ShellTypes
<1>5. /\ held' \in [Windows -> HeldRecords] /\ reading' \subseteq ReadRecords
      /\ \A w \in Windows : held'[w].reads \subseteq held[w].reads /\ s \notin held'[w].reads
      /\ \A r \in reading : \E q \in reading' : q.shell = r.shell /\ q.window = r.window
      /\ \A q \in reading' : /\ q.shell = s => q.before
                             /\ q.shell # s => q \in reading
                             /\ \E r \in reading : /\ q.shell = r.shell
                                                   /\ q.window = r.window
                                                   /\ q.left = r.left
  BY <1>2, OvertakenIs DEF GuardInv
<1>6. SeenBefore'
  BY <1>1, <1>3, <1>4 DEF GuardInv, SeenBefore, IsFresh
<1>7. AskedBefore'
  BY <1>4, <1>5 DEF GuardInv, AskedBefore, ReadRecords
<1>8. HeldFresh'
  BY <1>1, <1>5, SameWaits DEF GuardInv
<1> QED BY <1>1, <1>3, <1>4, <1>5, <1>6, <1>7, <1>8
        DEF GuardInv, ShellTypes, WindowTypes, CallOpen

LEMMA GuardStutters == ASSUME GuardInv, UNCHANGED guardVars PROVE GuardInv'
<1>1. UNCHANGED <<home, confirm, windows, edited, shell, found, age, before, reading, held,
                  call, asking, ended>>
  BY DEF guardVars
<1>2. SeenBefore' /\ AskedBefore' /\ HeldFresh'
  BY <1>1, FewerKeeps DEF GuardInv
<1> QED BY <1>1, <1>2 DEF GuardInv, ShellTypes, WindowTypes, CallOpen

\* No window goes without a question over a shell that runs a program the host was
\* asked of since, and a close is not held twice for one read: for any number of
\* windows, shells, gestures and changes, and all timeouts shorter than a read stays
\* fresh (would_end_work, hold_for_remote_shells, read_foreground).
THEOREM GuardIsSound == GuardSpec => []GuardSound
<1>1. GuardInv /\ [GuardNext]_guardVars => GuardInv'
  BY GestureKeeps, HoldKeeps, GuardAsksKeeps, GuardAnswerKeeps, HostSaysKeeps, ReadInKeeps,
     MadeAgainKeeps, TickKeeps, TypeLineKeeps, SmallKeeps, ShellReconnectsKeeps,
     GuardStutters DEF GuardNext
<1> QED BY InitGuard, GuardInvIsSound, <1>1, PTL DEF GuardSpec

-----------------------------------------------------------------------------
(* The connection dialog: the inductive invariant, over whatever list, form *)
(* and job it is asked of.                                                  *)

\* A job of the keychain's task, and the fields of the form.
Job ==
    [at: {"none", "waiting", "ran"}, id: Nat, typed: Nat, read: BOOLEAN,
     entry: {"keep", "save", "delete"}, hopSave: Nat, hopDelete: Nat,
     after: {"stay", "connect"}, secret: Nat, told: BOOLEAN]
FormFields ==
    [editing: Nat, host: Nat, agent: BOOLEAN, saves: BOOLEAN, secret: Nat,
     hop: Nat, hopSaves: BOOLEAN, hopSecret: BOOLEAN]

\* Lists are functions, and their accounts were all handed out.
Listing(l, u) ==
    /\ DOMAIN l \subseteq 1 .. u
    /\ \A i \in DOMAIN l :
          l[i] \in Profile /\ l[i].hop <= u /\ (l[i].hop = 0 => ~l[i].hopSaves)

\* An account is a profile's, or the jump host's of one profile: within a list
\* and between two.
Apart(l, m) ==
    /\ \A i \in DOMAIN l : l[i].hop \notin DOMAIN m
    /\ \A i \in DOMAIN l, j \in DOMAIN m : l[i].hop = m[j].hop /\ l[i].hop # 0 => i = j

ListsInv ==
    /\ used \in 0 .. MaxAccounts
    /\ Listing(list, used) /\ Listing(copy, used)
    /\ Apart(list, list) /\ Apart(list, copy) /\ Apart(copy, list) /\ Apart(copy, copy)

\* The fields describe a profile, and a secret typed for it.
Fields(f, u) ==
    /\ f \in FormFields /\ f.host \in Hosts \cup {0} /\ f.editing <= u /\ f.hop <= u
    /\ f.secret \in {0, IF f.editing = 0 THEN Unnamed ELSE f.editing}
    /\ f.hop = 0 => ~f.hopSaves /\ ~f.hopSecret
    /\ f.editing = 0 => ~f.hopSaves

\* The form's jump host is its profile's own.
FormApart(f, l) ==
    /\ f.hop \notin DOMAIN l
    /\ \A i \in DOMAIN l : f.hop = l[i].hop /\ f.hop # 0 => f.editing = i

FormInv ==
    /\ Fields(form, used) /\ FormApart(form, list) /\ FormApart(form, copy)
    /\ form.editing \in DOMAIN list => form.editing \in DOMAIN copy

\* Claimed, of any list.
ClaimedIn(l, a) ==
    \E id \in DOMAIN l : (a = id /\ l[id].saves) \/ (a = l[id].hop /\ l[id].hopSaves)

\* A job carries a secret of its own account only.
Carries(j, u) ==
    /\ j \in Job /\ j.typed \in {0, j.id} /\ j.secret \in {0, j.id}
    /\ j.id <= u /\ j.hopSave <= u /\ j.hopDelete <= u

\* What a waiting job will write is what the list says by now.
Fits(j, l, m) ==
    /\ j.id # 0 /\ j.id \notin {j.hopSave, j.hopDelete}
    /\ j.hopSave = j.hopDelete => j.hopSave = 0
    /\ \A a \in Written(j) \ m :
          ClaimedIn(l, a) <=> (a = j.id /\ j.entry = "save") \/ a = j.hopSave

Stray(j, u, m) ==
    Carries(j, u) /\ j.at = "waiting" /\ j.id # 0 /\ Written(j) \subseteq m

JobsInv ==
    /\ Carries(work, used) /\ (work.at = "waiting" => Fits(work, list, muddled))
    /\ \A j \in strays : Stray(j, used, muddled)
    /\ work.at # "none" /\ work.after = "connect" => asked = work.id

\* A copy is what the file says, but for accounts a failure was met at.
CopiedFrom(l, c, m) ==
    \A i \in DOMAIN l \cap DOMAIN c :
       c[i] = l[i] \/ {i} \cup Own(l[i]) \cup Own(c[i]) \subseteq m

\* The box of the form's jump host is as the file has it.
Ticks(f, l, m) ==
    f.hop # 0 /\ f.hop \notin m /\ ~f.hopSecret /\ f.editing \in DOMAIN l =>
       (f.hopSaves <=> f.hop = l[f.editing].hop /\ l[f.editing].hopSaves)

ReadInv == CopiedFrom(list, copy, muddled) /\ (shown => Ticks(form, list, muddled))

VaultInv ==
    /\ vault \in [Accounts -> Nat] /\ SecretGoesHome
    /\ muddled \subseteq 1 .. used
    /\ \A a \in Accounts : a > used => vault[a] = 0

\* The keychain and the list agree, but for what a waiting job will write.
Due(js) == UNION {Written(j) : j \in {j \in js : j.at = "waiting"}}
Agree(v, l, js, m) == \A a \in Accounts : a \notin m /\ a \notin Due(js) => (v[a] # 0 <=> ClaimedIn(l, a))
AgreeInv == Agree(vault, list, strays \cup {work}, muddled)

CoverInv ==
    /\ shown \in BOOLEAN /\ readable \in BOOLEAN
    /\ question \in {"none", "discard", "delete", "import"}
    /\ question = "import" => subject \in Hosts \cup {0}

DialogInv == ListsInv /\ FormInv /\ JobsInv /\ ReadInv /\ VaultInv /\ AgreeInv /\ CoverInv

-----------------------------------------------------------------------------
(* Storing a profile in a list, and removing one.                           *)

\* What a profile must be to be stored under id beside those of list l.
Places(l, id, p) ==
    /\ p.hop # id /\ p.hop \notin DOMAIN l
    /\ \A i \in DOMAIN l : l[i].hop # id
    /\ \A i \in DOMAIN l : l[i].hop = p.hop /\ p.hop # 0 => i = id

LEMMA DialogBounds == MaxAccounts \in Nat /\ Accounts = 1 .. MaxAccounts /\ Hosts \subseteq Nat /\ 0 \notin Hosts
<1>. QED  BY ConnectionDialogAssumption DEF Accounts

LEMMA EnteredLists ==
    ASSUME NEW l, NEW u \in Nat, NEW v \in Nat, u <= v, Listing(l, u),
           NEW id \in 1 .. v, NEW p \in Profile, p.hop <= v, p.hop = 0 => ~p.hopSaves
    PROVE  Listing(Entered(l, id, p), v)
<1>. DEFINE e == Entered(l, id, p)
<1>0. DOMAIN e = DOMAIN l \cup {id} /\ e[id] = p /\ \A i \in DOMAIN l : i # id => e[i] = l[i]
      BY DEF Entered
<1>. HIDE DEF e
<1>1. DOMAIN e \subseteq 1 .. v  BY <1>0 DEF Listing
<1>2. ASSUME NEW i \in DOMAIN e
      PROVE  e[i] \in Profile /\ e[i].hop <= v /\ (e[i].hop = 0 => ~e[i].hopSaves)
  <2>1. CASE i = id  BY <2>1, <1>0
  <2>2. CASE i # id
    <3>1. i \in DOMAIN l /\ e[i] = l[i]  BY <2>2, <1>0, <1>2
    <3>2. l[i] \in Profile /\ l[i].hop <= u /\ (l[i].hop = 0 => ~l[i].hopSaves)
          BY <3>1 DEF Listing
    <3>3. l[i].hop \in Nat  BY <3>2, DialogBounds DEF Profile
    <3>. QED  BY <3>1, <3>2, <3>3
  <2>. QED  BY <2>1, <2>2
<1>. QED  BY <1>1, <1>2 DEF Listing, e

LEMMA GrownLists ==
    ASSUME NEW l, NEW u \in Nat, NEW v \in Nat, u <= v, Listing(l, u)
    PROVE  Listing(l, v)
<1>1. ASSUME NEW i \in DOMAIN l PROVE l[i] \in Profile /\ l[i].hop <= v /\ (l[i].hop = 0 => ~l[i].hopSaves)
  <2>1. l[i] \in Profile /\ l[i].hop <= u /\ (l[i].hop = 0 => ~l[i].hopSaves)  BY DEF Listing
  <2>2. l[i].hop \in Nat  BY <2>1, DialogBounds DEF Profile
  <2>. QED  BY <2>1, <2>2
<1>. QED  BY <1>1 DEF Listing

LEMMA WithoutLists ==
    ASSUME NEW l, NEW u \in Nat, Listing(l, u), NEW id
    PROVE  Listing(Without(l, id), u)
<1>1. DOMAIN Without(l, id) = DOMAIN l \ {id} /\ \A i \in DOMAIN l \ {id} : Without(l, id)[i] = l[i]
      BY DEF Without
<1>. QED  BY <1>1 DEF Listing

LEMMA EnteredApart ==
    ASSUME NEW l, NEW m, Apart(l, m), NEW id, NEW p, Places(l, id, p), Places(m, id, p)
    PROVE  /\ Apart(Entered(l, id, p), m) /\ Apart(l, Entered(m, id, p))
           /\ Apart(Entered(l, id, p), Entered(m, id, p))
<1>. DEFINE e == Entered(l, id, p)
            f == Entered(m, id, p)
<1>1. DOMAIN e = DOMAIN l \cup {id} /\ e[id] = p /\ \A i \in DOMAIN l : i # id => e[i] = l[i]
      BY DEF Entered
<1>2. DOMAIN f = DOMAIN m \cup {id} /\ f[id] = p /\ \A i \in DOMAIN m : i # id => f[i] = m[i]
      BY DEF Entered
<1>. HIDE DEF e, f
<1>3. ASSUME NEW i \in DOMAIN e PROVE e[i].hop \notin DOMAIN m \cup {id}
  <2>1. CASE i = id  BY <2>1, <1>1 DEF Places
  <2>2. CASE i # id  BY <2>2, <1>1 DEF Places, Apart
  <2>. QED  BY <2>1, <2>2
<1>4. ASSUME NEW i \in DOMAIN l PROVE l[i].hop \notin DOMAIN f
  BY <1>2 DEF Places, Apart
<1>5. ASSUME NEW i \in DOMAIN e, NEW j \in DOMAIN m, e[i].hop = m[j].hop, e[i].hop # 0 PROVE i = j
  <2>1. CASE i = id  BY <2>1, <1>1, <1>5 DEF Places
  <2>2. CASE i # id  BY <2>2, <1>1, <1>5 DEF Apart
  <2>. QED  BY <2>1, <2>2
<1>6. ASSUME NEW i \in DOMAIN l, NEW j \in DOMAIN f, l[i].hop = f[j].hop, l[i].hop # 0 PROVE i = j
  <2>1. CASE j = id  BY <2>1, <1>2, <1>6 DEF Places
  <2>2. CASE j # id  BY <2>2, <1>2, <1>6 DEF Apart
  <2>. QED  BY <2>1, <2>2
<1>7. ASSUME NEW i \in DOMAIN e, NEW j \in DOMAIN f, e[i].hop = f[j].hop, e[i].hop # 0 PROVE i = j
  <2>1. CASE j = id
    <3>1. CASE i = id  BY <3>1, <2>1
    <3>2. CASE i # id  BY <3>2, <2>1, <1>1, <1>2, <1>7 DEF Places
    <3>. QED  BY <3>1, <3>2
  <2>2. CASE j # id
    <3>1. j \in DOMAIN m /\ f[j] = m[j]  BY <2>2, <1>2
    <3>. QED  BY <3>1, <1>5, <1>7
  <2>. QED  BY <2>1, <2>2
<1>8. ASSUME NEW i \in DOMAIN e PROVE e[i].hop \notin DOMAIN f  BY <1>3, <1>2
<1>9. Apart(e, m)  BY <1>3, <1>5 DEF Apart
<1>10. Apart(l, f)  BY <1>4, <1>6 DEF Apart
<1>11. Apart(e, f)  BY <1>8, <1>7 DEF Apart
<1>. QED  BY <1>9, <1>10, <1>11 DEF e, f

LEMMA WithoutApart ==
    ASSUME NEW l, NEW m, Apart(l, m), NEW id
    PROVE  Apart(Without(l, id), m) /\ Apart(l, Without(m, id)) /\ Apart(Without(l, id), Without(m, id))
<1>1. DOMAIN Without(l, id) = DOMAIN l \ {id} /\ \A i \in DOMAIN l \ {id} : Without(l, id)[i] = l[i]
      BY DEF Without
<1>2. DOMAIN Without(m, id) = DOMAIN m \ {id} /\ \A i \in DOMAIN m \ {id} : Without(m, id)[i] = m[i]
      BY DEF Without
<1>. QED  BY <1>1, <1>2 DEF Apart

\* An account that was not handed out yet can name a profile.
LEMMA FreshPlaces ==
    ASSUME NEW l, NEW u \in Nat, Listing(l, u), NEW id \in Nat, u < id,
           NEW p, p.hop \in Nat, p.hop # id, p.hop = 0 \/ u < p.hop
    PROVE  Places(l, id, p)
<1>1. ASSUME NEW i \in DOMAIN l PROVE i \in Nat /\ i <= u /\ i # 0 /\ l[i].hop \in Nat /\ l[i].hop <= u
      BY DialogBounds DEF Listing, Profile
<1>2. p.hop \notin DOMAIN l  BY <1>1
<1>3. ASSUME NEW i \in DOMAIN l PROVE l[i].hop # id  BY <1>1
<1>4. ASSUME NEW i \in DOMAIN l, l[i].hop = p.hop, p.hop # 0 PROVE i = id  BY <1>1, <1>4
<1>. QED  BY <1>2, <1>3, <1>4 DEF Places

\* The claims of a list with a new entry, and without one.
LEMMA FreshClaims ==
    ASSUME NEW l, NEW u \in Nat, Listing(l, u), NEW id \in Nat, u < id,
           NEW p, ~p.saves, ~p.hopSaves, NEW a
    PROVE  ClaimedIn(Entered(l, id, p), a) <=> ClaimedIn(l, a)
<1>1. DOMAIN Entered(l, id, p) = DOMAIN l \cup {id} /\ Entered(l, id, p)[id] = p
      /\ \A i \in DOMAIN l : i # id => Entered(l, id, p)[i] = l[i]
      BY DEF Entered
<1>2. id \notin DOMAIN l  BY DEF Listing
<1>. QED  BY <1>1, <1>2 DEF ClaimedIn

LEMMA WithoutClaims ==
    ASSUME NEW l, NEW id \in DOMAIN l, NEW a, a # id, a # l[id].hop
    PROVE  ClaimedIn(Without(l, id), a) <=> ClaimedIn(l, a)
<1>1. DOMAIN Without(l, id) = DOMAIN l \ {id} /\ \A i \in DOMAIN l \ {id} : Without(l, id)[i] = l[i]
      BY DEF Without
<1>. QED  BY <1>1 DEF ClaimedIn

LEMMA GoneClaimsNothing ==
    ASSUME NEW l, Apart(l, l), NEW id \in DOMAIN l, NEW a, a # 0, a = id \/ a = l[id].hop
    PROVE  ~ClaimedIn(Without(l, id), a)
<1>1. DOMAIN Without(l, id) = DOMAIN l \ {id} /\ \A i \in DOMAIN l \ {id} : Without(l, id)[i] = l[i]
      BY DEF Without
<1>2. ASSUME NEW i \in DOMAIN l \ {id} PROVE a # i /\ a # l[i].hop
      BY DEF Apart
<1>. QED  BY <1>1, <1>2 DEF ClaimedIn

LEMMA ClaimIs == \A a : Claimed(a) <=> ClaimedIn(list, a)
<1>. QED  BY Zenon DEF Claimed, ClaimedIn

-----------------------------------------------------------------------------
(* The form over the lists.                                                 *)

LEMMA FieldsOf ==
    ASSUME NEW f, NEW u \in Nat, Fields(f, u)
    PROVE  /\ f.editing \in Nat /\ f.host \in Nat /\ f.secret \in Nat /\ f.hop \in Nat
           /\ f.agent \in BOOLEAN /\ f.saves \in BOOLEAN
           /\ f.hopSaves \in BOOLEAN /\ f.hopSecret \in BOOLEAN
<1>. QED  BY DEF Fields, FormFields

LEMMA ProfileOf ==
    ASSUME NEW p \in Profile
    PROVE  /\ p.host \in Hosts /\ p.host \in Nat /\ p.host # 0 /\ p.agent \in BOOLEAN
           /\ p.saves \in BOOLEAN /\ p.hop \in Nat /\ p.hop <= MaxAccounts
           /\ p.hopSaves \in BOOLEAN
<1>1. /\ p.host \in Hosts /\ p.agent \in BOOLEAN /\ p.saves \in BOOLEAN
      /\ p.hop \in 0 .. MaxAccounts /\ p.hopSaves \in BOOLEAN
      BY DEF Profile
<1>2. p.host \in Nat /\ p.host # 0  BY <1>1, DialogBounds
<1>3. p.hop \in Nat /\ p.hop <= MaxAccounts  BY <1>1, DialogBounds
<1>. QED  BY <1>1, <1>2, <1>3

LEMMA EmptyFields ==
    ASSUME NEW u \in Nat
    PROVE  Fields(EmptyForm, u)
<1>. QED  BY DialogBounds DEF Fields, FormFields, EmptyForm

LEMMA EmptyApart ==
    ASSUME NEW u \in Nat, NEW l, Listing(l, u)
    PROVE  FormApart(EmptyForm, l) /\ EmptyForm.editing \notin DOMAIN l
<1>. QED  BY DEF FormApart, EmptyForm, Listing

LEMMA EmptyTicks ==
    ASSUME NEW l, NEW m
    PROVE  Ticks(EmptyForm, l, m)
<1>. QED  BY DEF Ticks, EmptyForm

LEMMA FilledIs ==
    ASSUME NEW id, NEW p
    PROVE  /\ Filled(id, p).editing = id /\ Filled(id, p).hop = p.hop
           /\ Filled(id, p).hopSaves = p.hopSaves /\ ~Filled(id, p).hopSecret
<1>. QED  BY DEF Filled

LEMMA FilledFields ==
    ASSUME NEW u \in Nat, NEW c, Listing(c, u), NEW id \in DOMAIN c
    PROVE  Fields(Filled(id, c[id]), u)
<1>1. id \in Nat /\ id # 0 /\ id <= u /\ c[id] \in Profile /\ c[id].hop <= u /\ (c[id].hop = 0 => ~c[id].hopSaves)
      BY DEF Listing
<1>. DEFINE p == c[id]
<1>0. p \in Profile  BY <1>1
<1>5. p.hop <= u /\ (p.hop = 0 => ~p.hopSaves)  BY <1>1
<1>. HIDE DEF p
<1>2. /\ p.host \in Hosts /\ p.host \in Nat /\ p.agent \in BOOLEAN /\ p.saves \in BOOLEAN
      /\ p.hop \in Nat /\ p.hopSaves \in BOOLEAN
      BY <1>0, ProfileOf
<1>3. Filled(id, p) \in FormFields
      BY <1>1, <1>2 DEF Filled, FormFields
<1>4. /\ Filled(id, p).host = p.host /\ Filled(id, p).editing = id /\ Filled(id, p).hop = p.hop
      /\ Filled(id, p).secret = 0 /\ Filled(id, p).hopSaves = p.hopSaves
      /\ Filled(id, p).hopSecret = FALSE
      BY DEF Filled
<1>6. Fields(Filled(id, p), u)  BY <1>1, <1>2, <1>3, <1>4, <1>5 DEF Fields
<1>. QED  BY <1>6 DEF p

LEMMA FilledApart ==
    ASSUME NEW c, NEW l, Apart(c, l), NEW id \in DOMAIN c
    PROVE  FormApart(Filled(id, c[id]), l)
<1>. DEFINE f == Filled(id, c[id])
<1>1. f.editing = id /\ f.hop = c[id].hop  BY DEF Filled
<1>. HIDE DEF f
<1>2. FormApart(f, l)  BY <1>1 DEF FormApart, Apart
<1>. QED  BY <1>2 DEF f

LEMMA FilledTicks ==
    ASSUME NEW u \in Nat, NEW l, NEW c, NEW m, CopiedFrom(l, c, m), Listing(c, u), NEW id \in DOMAIN c
    PROVE  Ticks(Filled(id, c[id]), l, m)
<1>. DEFINE f == Filled(id, c[id])
<1>1. f.editing = id /\ f.hop = c[id].hop /\ f.hopSaves = c[id].hopSaves  BY DEF Filled
<1>. HIDE DEF f
<1>2. id \in DOMAIN l => c[id] = l[id] \/ Own(c[id]) \subseteq m  BY DEF CopiedFrom
<1>3. c[id] \in Profile /\ c[id].hopSaves \in BOOLEAN  BY DEF Listing, Profile
<1>4. Own(c[id]) \subseteq m /\ f.hop # 0 => f.hop \in m  BY <1>1 DEF Own
<1>5. ASSUME f.hop # 0, f.hop \notin m, id \in DOMAIN l
      PROVE  f.hopSaves <=> f.hop = l[id].hop /\ l[id].hopSaves
  <2>1. c[id] = l[id]  BY <1>2, <1>4, <1>5
  <2>2. f.hop = l[id].hop /\ f.hopSaves = l[id].hopSaves /\ l[id].hopSaves \in BOOLEAN
        BY <2>1, <1>1, <1>3
  <2>. QED  BY <2>2
<1>6. Ticks(f, l, m)  BY <1>1, <1>5 DEF Ticks
<1>. QED  BY <1>6 DEF f

\* The box stays right while the list of the profile does and more is muddled.
LEMMA TicksKept ==
    ASSUME NEW f, NEW l, NEW n, NEW m, NEW k, Ticks(f, l, m), m \subseteq k,
           f.editing \in DOMAIN n => f.editing \in DOMAIN l /\ n[f.editing] = l[f.editing]
    PROVE  Ticks(f, n, k)
<1>. QED  BY DEF Ticks

LEMMA CopiedKept ==
    ASSUME NEW l, NEW c, NEW m, NEW k, CopiedFrom(l, c, m), m \subseteq k
    PROVE  CopiedFrom(l, c, k)
<1>. QED  BY DEF CopiedFrom

\* Two lists that agree where both speak.
LEMMA CopiedWhenEqual ==
    ASSUME NEW l, NEW c, NEW m, \A i \in DOMAIN l \cap DOMAIN c : c[i] = l[i]
    PROVE  CopiedFrom(l, c, m)
<1>. QED  BY DEF CopiedFrom

LEMMA ClearedIs ==
    ASSUME NEW f, NEW u \in Nat, Fields(f, u)
    PROVE  /\ Fields(Cleared(f), u) /\ Cleared(f).editing = f.editing
           /\ Cleared(f).hop = f.hop
<1>. PICK b \in BOOLEAN : b = FALSE /\ Cleared(f) = [f EXCEPT !.secret = 0, !.hopSecret = b]
     BY Zenon DEF Cleared
<1>. DEFINE g == [f EXCEPT !.secret = 0, !.hopSecret = b]
<1>1. f \in FormFields  BY DEF Fields
<1>2. /\ g \in FormFields /\ g.editing = f.editing /\ g.hop = f.hop /\ g.host = f.host
      /\ g.secret = 0 /\ g.hopSaves = f.hopSaves /\ g.hopSecret = FALSE
      BY <1>1 DEF FormFields
<1>. HIDE DEF g
<1>3. Fields(g, u)  BY <1>2 DEF Fields
<1>. QED  BY <1>2, <1>3 DEF g

LEMMA FormApartSame ==
    ASSUME NEW f, NEW g, NEW l, FormApart(f, l), g.editing = f.editing, g.hop = f.hop
    PROVE  FormApart(g, l)
<1>. QED  BY DEF FormApart

LEMMA FormApartWithout ==
    ASSUME NEW f, NEW l, FormApart(f, l), NEW id
    PROVE  FormApart(f, Without(l, id))
<1>1. DOMAIN Without(l, id) = DOMAIN l \ {id} /\ \A i \in DOMAIN l \ {id} : Without(l, id)[i] = l[i]
      BY DEF Without
<1>. QED  BY <1>1 DEF FormApart

LEMMA FormApartEntered ==
    ASSUME NEW f, NEW l, FormApart(f, l), NEW id, NEW p, f.hop # id,
           f.hop = p.hop /\ f.hop # 0 => f.editing = id
    PROVE  FormApart(f, Entered(l, id, p))
<1>1. DOMAIN Entered(l, id, p) = DOMAIN l \cup {id} /\ Entered(l, id, p)[id] = p
      /\ \A i \in DOMAIN l : i # id => Entered(l, id, p)[i] = l[i]
      BY DEF Entered
<1>2. f.hop \notin DOMAIN Entered(l, id, p)  BY <1>1 DEF FormApart
<1>3. ASSUME NEW i \in DOMAIN Entered(l, id, p), f.hop = Entered(l, id, p)[i].hop, f.hop # 0
      PROVE  f.editing = i
  <2>1. CASE i = id  BY <2>1, <1>1, <1>3
  <2>2. CASE i # id  BY <2>2, <1>1, <1>3 DEF FormApart
  <2>. QED  BY <2>1, <2>2
<1>. QED  BY <1>2, <1>3 DEF FormApart

-----------------------------------------------------------------------------
(* The keychain's half, in a step that changes no claim and no job.         *)

LEMMA CarriesGrown ==
    ASSUME NEW j, NEW u \in Nat, NEW v \in Nat, u <= v, Carries(j, u)
    PROVE  Carries(j, v)
<1>1. j.id \in Nat /\ j.hopSave \in Nat /\ j.hopDelete \in Nat  BY DEF Carries, Job
<1>. QED  BY <1>1 DEF Carries

LEMMA StrayGrown ==
    ASSUME NEW j, NEW u \in Nat, NEW v \in Nat, u <= v, NEW m, NEW k, m \subseteq k, Stray(j, u, m)
    PROVE  Stray(j, v, k)
<1>. QED  BY CarriesGrown DEF Stray

LEMMA FitsKept ==
    ASSUME NEW j, NEW l, NEW n, NEW m, NEW k, Fits(j, l, m), m \subseteq k,
           \A a \in Written(j) \ k : ClaimedIn(n, a) <=> ClaimedIn(l, a)
    PROVE  Fits(j, n, k)
<1>. QED  BY DEF Fits

LEMMA SameClaims ==
    ASSUME ListsInv, JobsInv, VaultInv, AgreeInv, used' \in Nat, used <= used',
           \A a : ClaimedIn(list', a) <=> ClaimedIn(list, a),
           UNCHANGED <<vault, work, strays, asked, muddled>>, opened' = NoSession
    PROVE  JobsInv' /\ VaultInv' /\ AgreeInv'
<1>0. used \in Nat  BY DialogBounds DEF ListsInv
<1>1. JobsInv'
  <2>1. Carries(work', used')  BY <1>0, CarriesGrown DEF JobsInv
  <2>2. work'.at = "waiting" => Fits(work', list', muddled')
        BY FitsKept DEF JobsInv
  <2>3. \A j \in strays' : Stray(j, used', muddled')  BY <1>0, StrayGrown DEF JobsInv
  <2>4. work'.at # "none" /\ work'.after = "connect" => asked' = work'.id  BY DEF JobsInv
  <2>. QED  BY <2>1, <2>2, <2>3, <2>4 DEF JobsInv
<1>2. VaultInv'
  <2>1. SecretGoesHome'  BY DEF VaultInv, SecretGoesHome, NoSession
  <2>2. muddled' \subseteq 1 .. used'  BY <1>0 DEF VaultInv
  <2>3. \A a \in Accounts : a > used' => vault'[a] = 0  BY <1>0, DialogBounds DEF VaultInv
  <2>. QED  BY <2>1, <2>2, <2>3 DEF VaultInv
<1>3. AgreeInv'  BY DEF AgreeInv, Agree
<1>. QED  BY <1>1, <1>2, <1>3

-----------------------------------------------------------------------------
(* The steps of the form and of the list.                                   *)

LEMMA InvParts ==
    ASSUME DialogInv
    PROVE  /\ ListsInv /\ FormInv /\ JobsInv /\ ReadInv /\ VaultInv /\ AgreeInv /\ CoverInv
           /\ used \in Nat
<1>. QED  BY DialogBounds DEF DialogInv, ListsInv

\* A step that leaves the lists, the jobs and the keychain alone.
LEMMA SameRest ==
    ASSUME DialogInv, UNCHANGED <<list, used, copy, vault, work, strays, asked, muddled>>, opened' = NoSession
    PROVE  ListsInv' /\ JobsInv' /\ VaultInv' /\ AgreeInv' /\ CopiedFrom(list', copy', muddled')
<1>1. JobsInv' /\ VaultInv' /\ AgreeInv'  BY InvParts, SameClaims
<1>. QED  BY <1>1, InvParts DEF ListsInv, ReadInv

LEMMA SameForm ==
    ASSUME DialogInv, UNCHANGED <<list, used, copy, shown, form, muddled>>
    PROVE  FormInv' /\ (shown' => Ticks(form', list', muddled'))
<1>. QED  BY InvParts DEF FormInv, ReadInv

LEMMA CoverSteps ==
    ASSUME DialogInv, opened' = NoSession,
           StepBack \/ AskDelete \/ OpenImport \/ (Dismiss /\ ~Close)
    PROVE  DialogInv'
<1>1. /\ UNCHANGED <<list, used, copy, vault, work, strays, asked, muddled>>
      /\ UNCHANGED <<shown, form, readable>>
      BY DEF StepBack, AskDelete, OpenImport, Dismiss, file
<1>2. question' \in {"none", "discard", "delete", "import"}
      BY DEF StepBack, AskDelete, OpenImport, Dismiss
<1>3. question' = "import" => subject' \in Hosts \cup {0}
  <2>1. CASE StepBack  BY <2>1 DEF StepBack
  <2>2. CASE AskDelete  BY <2>2 DEF AskDelete
  <2>3. CASE OpenImport  BY <2>3 DEF OpenImport
  <2>4. CASE Dismiss /\ ~Close  BY <2>4 DEF Dismiss
  <2>. QED  BY <2>1, <2>2, <2>3, <2>4
<1>4. CoverInv'  BY <1>1, <1>2, <1>3, InvParts DEF CoverInv
<1>. QED  BY <1>1, <1>4, SameRest, SameForm DEF DialogInv, ReadInv

LEMMA FilledForm ==
    ASSUME ListsInv', CopiedFrom(list', copy', muddled'),
           \E id \in DOMAIN copy' : form' = Filled(id, copy'[id])
    PROVE  /\ Fields(form', used') /\ FormApart(form', list') /\ FormApart(form', copy')
           /\ Ticks(form', list', muddled') /\ form'.editing \in DOMAIN copy'
<1>. PICK id \in DOMAIN copy' : form' = Filled(id, copy'[id])  OBVIOUS
<1>0. used' \in Nat  BY DialogBounds DEF ListsInv
<1>1. Fields(form', used')  BY <1>0, FilledFields DEF ListsInv
<1>2. FormApart(form', list') /\ FormApart(form', copy')  BY FilledApart DEF ListsInv
<1>3. Ticks(form', list', muddled')  BY <1>0, FilledTicks DEF ListsInv
<1>4. form'.editing = id  BY FilledIs
<1>. QED  BY <1>1, <1>2, <1>3, <1>4

LEMMA EmptyFormStep ==
    ASSUME ListsInv', form' = EmptyForm
    PROVE  FormInv' /\ Ticks(form', list', muddled')
<1>0. used' \in Nat  BY DialogBounds DEF ListsInv
<1>. QED  BY <1>0, EmptyFields, EmptyApart, EmptyTicks DEF FormInv, ListsInv

\* The list is read afresh, or the copy kept.
LEMMA ReadAfresh ==
    ASSUME DialogInv, UNCHANGED <<list, used, muddled>>, copy' \in {list, copy}
    PROVE  /\ ListsInv' /\ CopiedFrom(list', copy', muddled')
           /\ FormApart(form, copy')
           /\ form.editing \in DOMAIN list => form.editing \in DOMAIN copy'
<1>1. ListsInv'  BY InvParts DEF ListsInv
<1>2. CopiedFrom(list', copy', muddled')
  <2>1. CASE copy' = list  BY <2>1, CopiedWhenEqual
  <2>2. CASE copy' = copy  BY <2>2, InvParts DEF ReadInv
  <2>. QED  BY <2>1, <2>2
<1>. QED  BY <1>1, <1>2, InvParts DEF FormInv

LEMMA OpenStep ==
    ASSUME DialogInv, Open, opened' = NoSession
    PROVE  DialogInv'
<1>0. /\ UNCHANGED <<list, readable, used, vault, question, subject, work, strays, asked, muddled>>
      /\ copy' \in {list, copy} /\ shown' = TRUE
      /\ form' = EmptyForm \/ \E id \in DOMAIN copy' : form' = Filled(id, copy'[id])
      BY DEF Open, file, covers, Stored
<1>1. ListsInv' /\ CopiedFrom(list', copy', muddled')  BY <1>0, ReadAfresh
<1>2. FormInv' /\ Ticks(form', list', muddled')
  <2>1. CASE form' = EmptyForm  BY <2>1, <1>1, EmptyFormStep
  <2>2. CASE \E id \in DOMAIN copy' : form' = Filled(id, copy'[id])
        BY <2>2, <1>1, FilledForm DEF FormInv
  <2>. QED  BY <2>1, <2>2, <1>0
<1>3. JobsInv' /\ VaultInv' /\ AgreeInv'  BY <1>0, InvParts, SameClaims
<1>4. CoverInv'  BY <1>0, InvParts DEF CoverInv
<1>. QED  BY <1>1, <1>2, <1>3, <1>4 DEF DialogInv, ReadInv

LEMMA SelectStep ==
    ASSUME DialogInv, Select, opened' = NoSession
    PROVE  DialogInv'
<1>0. /\ UNCHANGED <<list, readable, used, copy, shown, vault, question, subject, work, strays, asked, muddled>>
      /\ \E id \in DOMAIN copy' : form' = Filled(id, copy'[id])
      BY DEF Select, file, covers
<1>1. ListsInv' /\ JobsInv' /\ VaultInv' /\ AgreeInv' /\ CopiedFrom(list', copy', muddled')
      BY <1>0, SameRest
<1>2. FormInv' /\ Ticks(form', list', muddled')  BY <1>0, <1>1, FilledForm DEF FormInv
<1>3. CoverInv'  BY <1>0, InvParts DEF CoverInv
<1>. QED  BY <1>1, <1>2, <1>3 DEF DialogInv, ReadInv

LEMMA FileTurnsStep ==
    ASSUME DialogInv, FileTurns, opened' = NoSession
    PROVE  DialogInv'
<1>0. UNCHANGED <<list, used, copy, shown, form, vault, question, subject, work, strays, asked, muddled>>
      BY DEF FileTurns, covers
<1>1. readable' \in BOOLEAN  BY Zenon DEF FileTurns
<1>2. CoverInv'  BY <1>0, <1>1, InvParts DEF CoverInv
<1>. QED  BY <1>0, <1>2, SameRest, SameForm DEF DialogInv, ReadInv

LEMMA DialogStutters ==
    ASSUME DialogInv, UNCHANGED dialogVars
    PROVE  DialogInv'
<1>0. /\ UNCHANGED <<list, readable, used, copy, shown, form, vault, question, subject, work, strays>>
      /\ UNCHANGED <<opened, asked, muddled>>
      BY DEF dialogVars, file, covers, counts
<1>. QED  BY <1>0 DEF DialogInv, ListsInv, FormInv, JobsInv, ReadInv, VaultInv, SecretGoesHome,
          AgreeInv, Agree, CoverInv, Due

\* An edit leaves the profile and the kept secrets of the form as they were, or
\* takes the jump host's row away.
LEMMA EditForms ==
    ASSUME FormInv, used \in Nat, Edit
    PROVE  /\ Fields(form', used) /\ form'.editing = form.editing
           /\ \/ form'.hop = 0
              \/ form'.hop = form.hop /\ (form'.hopSaves <=> form.hopSaves)
                 /\ (form'.hopSecret \/ (form'.hopSecret <=> form.hopSecret))
<1>. DEFINE f == form
<1>0. Fields(f, used) /\ f \in FormFields  BY DEF FormInv, Fields
<1>1. CASE \E h \in Hosts : form' = [form EXCEPT !.host = h]
  <2>. PICK h \in Hosts : form' = [form EXCEPT !.host = h]  BY <1>1
  <2>1. h \in Nat  BY DialogBounds
  <2>2. /\ form' \in FormFields /\ form'.host = h /\ form'.editing = f.editing /\ form'.hop = f.hop
        /\ form'.secret = f.secret /\ form'.hopSaves = f.hopSaves /\ form'.hopSecret = f.hopSecret
        BY <1>0, <2>1 DEF FormFields
  <2>. HIDE DEF f
  <2>3. Fields(form', used)  BY <1>0, <2>2 DEF Fields
  <2>. QED  BY <2>2, <2>3 DEF f
<1>2. CASE form' = [form EXCEPT !.agent = ~@, !.secret = 0]
  <2>. PICK b \in BOOLEAN : b = ~f.agent /\ form' = [form EXCEPT !.agent = b, !.secret = 0]
       BY <1>2, Zenon
  <2>2. /\ form' \in FormFields /\ form'.host = f.host /\ form'.editing = f.editing /\ form'.hop = f.hop
        /\ form'.secret = 0 /\ form'.hopSaves = f.hopSaves /\ form'.hopSecret = f.hopSecret
        BY <1>0 DEF FormFields
  <2>. HIDE DEF f
  <2>3. Fields(form', used)  BY <1>0, <2>2 DEF Fields
  <2>. QED  BY <2>2, <2>3 DEF f
<1>3. CASE form' = [form EXCEPT !.saves = ~@]
  <2>. PICK b \in BOOLEAN : b = ~f.saves /\ form' = [form EXCEPT !.saves = b]
       BY <1>3, Zenon
  <2>2. /\ form' \in FormFields /\ form'.host = f.host /\ form'.editing = f.editing /\ form'.hop = f.hop
        /\ form'.secret = f.secret /\ form'.hopSaves = f.hopSaves /\ form'.hopSecret = f.hopSecret
        BY <1>0 DEF FormFields
  <2>. HIDE DEF f
  <2>3. Fields(form', used)  BY <1>0, <2>2 DEF Fields
  <2>. QED  BY <2>2, <2>3 DEF f
<1>4. CASE form' = [form EXCEPT !.secret = IF form.editing = 0 THEN Unnamed ELSE form.editing]
  <2>. PICK n \in Nat : n = (IF f.editing = 0 THEN Unnamed ELSE f.editing) /\ form' = [form EXCEPT !.secret = n]
    <3>1. (IF f.editing = 0 THEN Unnamed ELSE f.editing) \in Nat
          BY <1>0, DialogBounds DEF Unnamed, FormFields
    <3>. QED  BY <1>4, <3>1
  <2>2. /\ form' \in FormFields /\ form'.host = f.host /\ form'.editing = f.editing /\ form'.hop = f.hop
        /\ form'.secret = n /\ form'.hopSaves = f.hopSaves /\ form'.hopSecret = f.hopSecret
        BY <1>0 DEF FormFields
  <2>. HIDE DEF f
  <2>3. Fields(form', used)  BY <1>0, <2>2 DEF Fields
  <2>. QED  BY <2>2, <2>3 DEF f
<1>5. CASE form.hop # 0 /\ form' = [form EXCEPT !.hopSecret = TRUE]
  <2>. PICK b \in BOOLEAN : b = TRUE /\ form' = [form EXCEPT !.hopSecret = b]
       BY <1>5, Zenon
  <2>2. /\ form' \in FormFields /\ form'.host = f.host /\ form'.editing = f.editing /\ form'.hop = f.hop
        /\ form'.secret = f.secret /\ form'.hopSaves = f.hopSaves /\ form'.hopSecret = TRUE
        /\ f.hop # 0
        BY <1>0, <1>5 DEF FormFields
  <2>. HIDE DEF f
  <2>3. Fields(form', used)  BY <1>0, <2>2 DEF Fields
  <2>. QED  BY <2>2, <2>3 DEF f
<1>6. CASE form' = [form EXCEPT !.hop = 0, !.hopSaves = FALSE, !.hopSecret = FALSE]
  <2>. PICK b \in BOOLEAN : b = FALSE /\ form' = [form EXCEPT !.hop = 0, !.hopSaves = b, !.hopSecret = b]
       BY <1>6, Zenon
  <2>2. /\ form' \in FormFields /\ form'.host = f.host /\ form'.editing = f.editing /\ form'.hop = 0
        /\ form'.secret = f.secret /\ form'.hopSaves = FALSE /\ form'.hopSecret = FALSE
        BY <1>0 DEF FormFields
  <2>. HIDE DEF f
  <2>3. Fields(form', used)  BY <1>0, <2>2 DEF Fields
  <2>. QED  BY <2>2, <2>3 DEF f
<1>7. \/ \E h \in Hosts : form' = [form EXCEPT !.host = h]
      \/ form' = [form EXCEPT !.agent = ~@, !.secret = 0]
      \/ form' = [form EXCEPT !.saves = ~@]
      \/ form' = [form EXCEPT !.secret = IF form.editing = 0 THEN Unnamed ELSE form.editing]
      \/ form.hop # 0 /\ form' = [form EXCEPT !.hopSecret = TRUE]
      \/ form' = [form EXCEPT !.hop = 0, !.hopSaves = FALSE, !.hopSecret = FALSE]
      BY Zenon DEF Edit
<1>. QED  BY Zenon, <1>1, <1>2, <1>3, <1>4, <1>5, <1>6, <1>7

LEMMA EditStep ==
    ASSUME DialogInv, Edit, opened' = NoSession
    PROVE  DialogInv'
<1>0. UNCHANGED <<list, readable, used, copy, shown, vault, question, subject, work, strays, asked, muddled>>
      BY DEF Edit, file, covers
<1>1. ListsInv' /\ JobsInv' /\ VaultInv' /\ AgreeInv' /\ CopiedFrom(list', copy', muddled')
      BY <1>0, SameRest
<1>2. /\ Fields(form', used) /\ form'.editing = form.editing
      /\ \/ form'.hop = 0
         \/ form'.hop = form.hop /\ (form'.hopSaves <=> form.hopSaves)
            /\ (form'.hopSecret \/ (form'.hopSecret <=> form.hopSecret))
      BY InvParts, EditForms
<1>3. FormApart(form', list') /\ FormApart(form', copy')
  <2>1. 0 \notin DOMAIN list /\ 0 \notin DOMAIN copy  BY InvParts DEF ListsInv, Listing
  <2>. QED  BY <1>0, <1>2, <2>1, InvParts DEF FormInv, FormApart
<1>4. FormInv'  BY <1>0, <1>2, <1>3, InvParts DEF FormInv
<1>5. shown' => Ticks(form', list', muddled')  BY <1>0, <1>2, InvParts DEF ReadInv, Ticks
<1>6. CoverInv'  BY <1>0, InvParts DEF CoverInv
<1>. QED  BY <1>1, <1>4, <1>5, <1>6 DEF DialogInv, ReadInv

LEMMA GrownListsInv ==
    ASSUME ListsInv, UNCHANGED <<list, copy>>, used' \in 0 .. MaxAccounts, used <= used'
    PROVE  ListsInv'
<1>. QED  BY DialogBounds, GrownLists DEF ListsInv

LEMMA AddHopStep ==
    ASSUME DialogInv, AddHop, opened' = NoSession
    PROVE  DialogInv'
<1>0. /\ UNCHANGED <<list, readable, copy, shown, vault, question, subject, work, strays, asked, muddled>>
      /\ used' = used + 1 /\ used < MaxAccounts /\ form.hop = 0
      /\ form' = [form EXCEPT !.hop = used']
      BY DEF AddHop, covers
<1>1. used' \in Nat /\ used \in Nat /\ used' \in 0 .. MaxAccounts /\ used <= used' /\ used < used'
      BY <1>0, InvParts, DialogBounds
<1>2. ListsInv'  BY <1>0, <1>1, InvParts, GrownListsInv
<1>3. JobsInv' /\ VaultInv' /\ AgreeInv'  BY <1>0, <1>1, InvParts, SameClaims
<1>4. Fields(form, used) /\ form \in FormFields  BY InvParts DEF FormInv, Fields
<1>5. /\ form' \in FormFields /\ form'.host = form.host /\ form'.editing = form.editing
      /\ form'.hop = used' /\ form'.secret = form.secret
      /\ form'.hopSaves = form.hopSaves /\ form'.hopSecret = form.hopSecret
      /\ form.editing \in Nat /\ form.hopSaves \in BOOLEAN /\ form.hopSecret \in BOOLEAN
      BY <1>0, <1>1, <1>4 DEF FormFields
<1>6. ~form.hopSaves /\ ~form.hopSecret /\ form.editing <= used  BY <1>0, <1>4 DEF Fields
<1>7. Fields(form', used')  BY <1>1, <1>4, <1>5, <1>6 DEF Fields
<1>8. ASSUME NEW l, Listing(l, used) PROVE FormApart(form', l)
  <2>1. used' \notin DOMAIN l  BY <1>8, <1>1 DEF Listing
  <2>2. ASSUME NEW i \in DOMAIN l PROVE l[i].hop # used'
    <3>1. l[i] \in Profile /\ l[i].hop <= used  BY <1>8 DEF Listing
    <3>2. l[i].hop \in Nat  BY <3>1, ProfileOf
    <3>. QED  BY <3>1, <3>2, <1>1
  <2>. QED  BY <2>1, <2>2, <1>5 DEF FormApart
<1>9. FormInv'  BY <1>0, <1>5, <1>7, <1>8, InvParts DEF FormInv, ListsInv
<1>10. ASSUME form.editing \in DOMAIN list PROVE list[form.editing].hop # used'
  <2>1. list[form.editing] \in Profile /\ list[form.editing].hop <= used
        BY <1>10, InvParts DEF ListsInv, Listing
  <2>2. list[form.editing].hop \in Nat  BY <2>1, ProfileOf
  <2>. QED  BY <2>1, <2>2, <1>1
<1>11. Ticks(form', list', muddled')  BY <1>0, <1>5, <1>6, <1>10 DEF Ticks
<1>12. CoverInv'  BY <1>0, InvParts DEF CoverInv
<1>. QED  BY <1>0, <1>2, <1>3, <1>9, <1>11, <1>12, InvParts DEF DialogInv, ReadInv

\* A new profile under a new account, in the file, in the copy, or in both.
LEMMA NewProfile ==
    ASSUME DialogInv, NEW id, id = used + 1, used' \in 0 .. MaxAccounts, id <= used',
           NEW p \in Profile, ~p.saves, ~p.hopSaves, p.hop = 0 \/ (p.hop = used' /\ p.hop # id),
           list' \in {list, Entered(list, id, p)},
           copy' \in {copy, Entered(list, id, p)}, list' = list \/ copy' = list' \/ copy' = copy,
           UNCHANGED <<vault, work, strays, asked, muddled>>, opened' = NoSession
    PROVE  /\ ListsInv' /\ JobsInv' /\ VaultInv' /\ AgreeInv' /\ CopiedFrom(list', copy', muddled')
           /\ FormApart(form, list') /\ FormApart(form, copy') /\ Fields(form, used')
           /\ shown => Ticks(form, list', muddled')
<1>. DEFINE e == Entered(list, id, p)
<1>0. /\ used \in Nat /\ used' \in Nat /\ used <= used' /\ used < used' /\ id \in Nat /\ used < id
      /\ id \in 1 .. used' /\ p.hop \in Nat /\ (p.hop = 0 \/ used < p.hop) /\ p.hop <= used'
      /\ p.hop # id /\ id # 0
      BY InvParts, DialogBounds
<1>1. Places(list, id, p) /\ Places(copy, id, p)
      BY <1>0, FreshPlaces, InvParts DEF ListsInv
<1>2. Listing(list, used') /\ Listing(copy, used') /\ Listing(e, used')
      BY <1>0, GrownLists, EnteredLists, InvParts DEF ListsInv
<1>3. /\ Apart(e, e) /\ Apart(e, list) /\ Apart(list, e)
      /\ Apart(e, copy) /\ Apart(copy, e)
      BY <1>1, EnteredApart, InvParts DEF ListsInv
<1>4. ListsInv'
  <2>. HIDE DEF e
  <2>1. list' \in {list, e} /\ copy' \in {copy, e}  BY DEF e
  <2>. QED  BY <1>2, <1>3, <2>1, InvParts DEF ListsInv
<1>5. \A a : ClaimedIn(list', a) <=> ClaimedIn(list, a)
  <2>1. \A a : ClaimedIn(e, a) <=> ClaimedIn(list, a)  BY <1>0, FreshClaims, InvParts DEF ListsInv
  <2>. HIDE DEF e
  <2>2. list' \in {list, e}  BY DEF e
  <2>. QED  BY <2>1, <2>2
<1>6. JobsInv' /\ VaultInv' /\ AgreeInv'  BY <1>0, <1>5, InvParts, SameClaims
<1>7. DOMAIN e = DOMAIN list \cup {id} /\ e[id] = p /\ \A i \in DOMAIN list : i # id => e[i] = list[i]
      BY DEF Entered
<1>8. id \notin DOMAIN list /\ id \notin DOMAIN copy  BY <1>0, InvParts DEF ListsInv, Listing
<1>. HIDE DEF e
<1>9. list' \in {list, e} /\ copy' \in {copy, e}  BY DEF e
<1>10. CopiedFrom(list', copy', muddled')
  <2>1. CASE copy' = copy
    <3>1. ASSUME NEW i \in DOMAIN list' \cap DOMAIN copy PROVE i \in DOMAIN list /\ list'[i] = list[i]
          BY <1>7, <1>8, <1>9
    <3>. QED  BY <2>1, <3>1, InvParts DEF ReadInv, CopiedFrom
  <2>2. CASE copy' = e
    <3>1. CASE list' = e  BY <2>2, <3>1, CopiedWhenEqual
    <3>2. CASE list' = list
      <4>1. \A i \in DOMAIN list' \cap DOMAIN copy' : copy'[i] = list'[i]
            BY <2>2, <3>2, <1>7, <1>8
      <4>. QED  BY <4>1, CopiedWhenEqual
    <3>. QED  BY <3>1, <3>2, <1>9
  <2>. QED  BY <2>1, <2>2, <1>9
<1>11. Fields(form, used) /\ form.hop \in Nat /\ form.editing \in Nat /\ form.hop <= used /\ form.editing <= used
       BY InvParts, FieldsOf DEF FormInv, Fields
<1>12. Fields(form, used')  BY <1>0, <1>11 DEF Fields
<1>13. form.hop # id /\ (form.hop = p.hop => form.hop = 0)  BY <1>0, <1>11
<1>14. FormApart(form, e)  BY <1>13, FormApartEntered, InvParts DEF FormInv, e
<1>15. FormApart(form, list') /\ FormApart(form, copy')
       BY <1>9, <1>14, InvParts DEF FormInv
<1>16. form.editing # id  BY <1>0, <1>11
<1>17. shown => Ticks(form, list', muddled')
  <2>1. form.editing \in DOMAIN list' => form.editing \in DOMAIN list /\ list'[form.editing] = list[form.editing]
        BY <1>7, <1>9, <1>16
  <2>2. shown => Ticks(form, list, muddled)  BY InvParts DEF ReadInv
  <2>. QED  BY <2>1, <2>2, TicksKept
<1>. QED  BY <1>4, <1>6, <1>10, <1>12, <1>15, <1>17

LEMMA NewListed ==
    ASSUME DialogInv, NEW id, id = used + 1, NEW p,
           list' \in {list, Entered(list, id, p)}, copy' \in {copy, Entered(list, id, p)}
    PROVE  form.editing \in DOMAIN list' => form.editing \in DOMAIN copy'
<1>1. DOMAIN Entered(list, id, p) = DOMAIN list \cup {id}  BY DEF Entered
<1>2. form.editing # id
  <2>1. form.editing \in Nat /\ form.editing <= used /\ used \in Nat
        BY InvParts, FieldsOf DEF FormInv, Fields
  <2>. QED  BY <2>1
<1>3. form.editing \in DOMAIN list => form.editing \in DOMAIN copy  BY InvParts DEF FormInv
<1>. QED  BY <1>1, <1>2, <1>3

\* The profile ElsewhereAdds and ConfirmImport store.
BareProfile(h) == [host |-> h, agent |-> FALSE, saves |-> FALSE, hop |-> 0, hopSaves |-> FALSE]
LEMMA BareIs ==
    ASSUME NEW h \in Hosts
    PROVE  /\ BareProfile(h) \in Profile /\ ~BareProfile(h).saves /\ ~BareProfile(h).hopSaves
           /\ BareProfile(h).hop = 0
<1>1. 0 \in 0 .. MaxAccounts  BY DialogBounds
<1>. PICK z \in 0 .. MaxAccounts : z = 0  BY <1>1
<1>. DEFINE p == [host |-> h, agent |-> FALSE, saves |-> FALSE, hop |-> z, hopSaves |-> FALSE]
<1>2. p \in Profile /\ ~p.saves /\ ~p.hopSaves /\ p.hop = 0  BY DEF Profile
<1>3. p = BareProfile(h)  BY DEF BareProfile
<1>. QED  BY <1>2, <1>3

LEMMA ElsewhereAddsStep ==
    ASSUME DialogInv, ElsewhereAdds, opened' = NoSession
    PROVE  DialogInv'
<1>0. /\ UNCHANGED <<readable, vault, copy, shown, form, question, subject, work, strays, asked, muddled>>
      /\ used < MaxAccounts /\ used' = used + 1
      /\ \E h \in Hosts : list' = Entered(list, used', BareProfile(h))
      BY DEF ElsewhereAdds, covers, BareProfile
<1>. PICK h \in Hosts : list' = Entered(list, used', BareProfile(h))  BY <1>0
<1>1. used' \in 0 .. MaxAccounts /\ used' <= used' /\ used' = used + 1  BY <1>0, InvParts, DialogBounds
<1>. PICK id : id = used'  OBVIOUS
<1>. PICK p \in Profile : p = BareProfile(h) /\ ~p.saves /\ ~p.hopSaves /\ p.hop = 0  BY BareIs
<1>2. list' = Entered(list, id, p) /\ id = used + 1 /\ id <= used'  BY <1>1
<1>3. /\ ListsInv' /\ JobsInv' /\ VaultInv' /\ AgreeInv' /\ CopiedFrom(list', copy', muddled')
      /\ FormApart(form, list') /\ FormApart(form, copy') /\ Fields(form, used')
      /\ shown => Ticks(form, list', muddled')
      BY <1>0, <1>1, <1>2, NewProfile
<1>4. form.editing \in DOMAIN list' => form.editing \in DOMAIN copy'
      BY <1>0, <1>2, NewListed
<1>5. FormInv' /\ (shown' => Ticks(form', list', muddled'))  BY <1>0, <1>3, <1>4 DEF FormInv
<1>6. CoverInv'  BY <1>0, InvParts DEF CoverInv
<1>. QED  BY <1>3, <1>5, <1>6 DEF DialogInv, ReadInv

LEMMA SameAfterCover ==
    ASSUME DialogInv, UNCHANGED <<list, readable, used, copy, shown, form, vault, work, strays, asked, muddled>>,
           opened' = NoSession, question' = "none"
    PROVE  DialogInv'
<1>1. CoverInv'  BY InvParts DEF CoverInv
<1>. QED  BY <1>1, SameRest, SameForm DEF DialogInv, ReadInv

LEMMA ConfirmImportStep ==
    ASSUME DialogInv, ConfirmImport, opened' = NoSession
    PROVE  DialogInv'
<1>0. /\ UNCHANGED <<readable, vault, shown, form, work, strays, asked, muddled>>
      /\ used < MaxAccounts /\ question' = "none" /\ question = "import" /\ subject # 0
      BY DEF ConfirmImport
<1>1. CASE readable
  <2>1. /\ used' = used + 1 /\ copy' = Entered(list, used', BareProfile(subject))
        /\ list' \in {list, copy'}
        BY <1>1 DEF ConfirmImport, Stored, BareProfile
  <2>2. subject \in Hosts  BY <1>0, InvParts DEF CoverInv
  <2>3. used' \in 0 .. MaxAccounts /\ used' <= used' /\ used' = used + 1  BY <1>0, <2>1, InvParts, DialogBounds
  <2>. PICK id : id = used'  OBVIOUS
  <2>. PICK p \in Profile : p = BareProfile(subject) /\ ~p.saves /\ ~p.hopSaves /\ p.hop = 0
       BY <2>2, BareIs
  <2>4. /\ list' \in {list, Entered(list, id, p)} /\ copy' \in {copy, Entered(list, id, p)}
        /\ id = used + 1 /\ id <= used' /\ (list' = list \/ copy' = list' \/ copy' = copy)
        BY <2>1, <2>3
  <2>5. /\ ListsInv' /\ JobsInv' /\ VaultInv' /\ AgreeInv' /\ CopiedFrom(list', copy', muddled')
        /\ FormApart(form, list') /\ FormApart(form, copy') /\ Fields(form, used')
        /\ shown => Ticks(form, list', muddled')
        BY <1>0, <2>3, <2>4, NewProfile
  <2>6. form.editing \in DOMAIN list' => form.editing \in DOMAIN copy'
        BY <2>4, NewListed
  <2>7. FormInv' /\ (shown' => Ticks(form', list', muddled'))  BY <1>0, <2>5, <2>6 DEF FormInv
  <2>8. CoverInv'  BY <1>0, InvParts DEF CoverInv
  <2>. QED  BY <2>5, <2>7, <2>8 DEF DialogInv, ReadInv
<1>2. CASE ~readable
  <2>1. UNCHANGED <<list, used, copy>>  BY <1>2 DEF ConfirmImport
  <2>. QED  BY <1>0, <2>1, SameAfterCover
<1>. QED  BY <1>1, <1>2

LEMMA DuplicatedIs ==
    ASSUME NEW q \in Profile, NEW id \in Nat,
           IF q.hop = 0 THEN TRUE ELSE id + 1 <= MaxAccounts
    PROVE  /\ Duplicated(q, id) \in Profile /\ ~Duplicated(q, id).saves /\ ~Duplicated(q, id).hopSaves
           /\ Duplicated(q, id).hop = (IF q.hop = 0 THEN 0 ELSE id + 1)
<1>1. (IF q.hop = 0 THEN 0 ELSE id + 1) \in 0 .. MaxAccounts  BY ProfileOf, DialogBounds
<1>. PICK n \in 0 .. MaxAccounts : n = (IF q.hop = 0 THEN 0 ELSE id + 1)  BY <1>1
<1>. PICK b \in BOOLEAN : b = FALSE /\ Duplicated(q, id) = [q EXCEPT !.saves = b, !.hop = n, !.hopSaves = b]
     BY Zenon DEF Duplicated
<1>. DEFINE p == [q EXCEPT !.saves = b, !.hop = n, !.hopSaves = b]
<1>2. p \in Profile /\ p.saves = FALSE /\ p.hopSaves = FALSE /\ p.hop = n  BY DEF Profile
<1>. HIDE DEF p
<1>3. Duplicated(q, id) = p  BY DEF p
<1>. QED  BY <1>2, <1>3

LEMMA DuplicateStep ==
    ASSUME DialogInv, Duplicate, opened' = NoSession
    PROVE  DialogInv'
<1>0. /\ UNCHANGED <<readable, vault, shown, question, subject, work, strays, asked, muddled>>
      /\ readable
      BY DEF Duplicate, covers
<1>1. CoverInv'  BY <1>0, InvParts DEF CoverInv
<1>2. PICK k \in DOMAIN copy :
        IF k \in DOMAIN list
        THEN LET p == Duplicated(list[k], used + 1)
             IN /\ used' = (IF p.hop = 0 THEN used + 1 ELSE used + 2)
                /\ used' <= MaxAccounts
                /\ copy' = Entered(list, used + 1, p)
                /\ list' \in {list, copy'}
                /\ form' = (IF shown THEN Filled(used + 1, p) ELSE form)
        ELSE copy' = list /\ UNCHANGED <<list, used, form>>
      BY Zenon DEF Duplicate, Stored
<1>3. CASE k \notin DOMAIN list
  <2>1. copy' = list /\ UNCHANGED <<list, used, form>>  BY <1>2, <1>3
  <2>2. /\ ListsInv' /\ CopiedFrom(list', copy', muddled') /\ FormApart(form, copy')
        /\ form.editing \in DOMAIN list => form.editing \in DOMAIN copy'
        BY <1>0, <2>1, ReadAfresh
  <2>3. JobsInv' /\ VaultInv' /\ AgreeInv'  BY <1>0, <2>1, InvParts, SameClaims
  <2>4. FormInv' /\ (shown' => Ticks(form', list', muddled'))
        BY <1>0, <2>1, <2>2, InvParts DEF FormInv, ReadInv
  <2>. QED  BY <2>2, <2>3, <2>4, <1>1 DEF DialogInv, ReadInv
<1>4. CASE k \in DOMAIN list
  <2>. PICK q \in Profile : q = list[k]  BY <1>4, InvParts DEF ListsInv, Listing
  <2>. PICK id \in Nat : id = used + 1  BY InvParts
  <2>. DEFINE d == Duplicated(q, id)
  <2>1. /\ used' = (IF d.hop = 0 THEN used + 1 ELSE used + 2)
        /\ used' <= MaxAccounts
        /\ copy' = Entered(list, id, d)
        /\ list' \in {list, copy'}
        /\ form' = (IF shown THEN Filled(id, d) ELSE form)
        BY <1>2, <1>4
  <2>2. d.hop = (IF q.hop = 0 THEN 0 ELSE id + 1)  BY DEF Duplicated, Profile
  <2>. HIDE DEF d
  <2>3. q.hop \in Nat /\ used \in Nat /\ MaxAccounts \in Nat  BY ProfileOf, InvParts, DialogBounds
  <2>4. IF q.hop = 0 THEN TRUE ELSE id + 1 <= MaxAccounts  BY <2>1, <2>2, <2>3
  <2>5. d \in Profile /\ ~d.saves /\ ~d.hopSaves  BY <2>4, DuplicatedIs DEF d
  <2>6. used' \in 0 .. MaxAccounts /\ id <= used' /\ (d.hop = 0 \/ (d.hop = used' /\ d.hop # id))
        BY <2>1, <2>2, <2>3
  <2>7. /\ list' \in {list, Entered(list, id, d)} /\ copy' \in {copy, Entered(list, id, d)}
        /\ (list' = list \/ copy' = list' \/ copy' = copy) /\ id = used + 1
        BY <2>1
  <2>8. /\ ListsInv' /\ JobsInv' /\ VaultInv' /\ AgreeInv' /\ CopiedFrom(list', copy', muddled')
        /\ FormApart(form, list') /\ FormApart(form, copy') /\ Fields(form, used')
        /\ shown => Ticks(form, list', muddled')
        BY <1>0, <2>5, <2>6, <2>7, NewProfile
  <2>9. form.editing \in DOMAIN list' => form.editing \in DOMAIN copy'
        BY <2>7, NewListed
  <2>10. FormInv' /\ (shown' => Ticks(form', list', muddled'))
    <3>1. CASE shown
      <4>1. id \in DOMAIN copy' /\ copy'[id] = d  BY <2>1 DEF Entered
      <4>2. form' = Filled(id, copy'[id])  BY <2>1, <3>1, <4>1
      <4>. QED  BY <4>1, <4>2, <2>8, FilledForm DEF FormInv
    <3>2. CASE ~shown
      <4>1. form' = form  BY <2>1, <3>2
      <4>2. FormInv'  BY <4>1, <2>8, <2>9 DEF FormInv
      <4>. QED  BY <1>0, <3>2, <4>2
    <3>. QED  BY <3>1, <3>2
  <2>. QED  BY <2>8, <2>10, <1>1 DEF DialogInv, ReadInv
<1>. QED  BY <1>3, <1>4

-----------------------------------------------------------------------------
(* The keychain's steps.                                                    *)

LEMMA VaultIs ==
    ASSUME VaultInv
    PROVE  vault \in [Accounts -> Nat] /\ \A a \in Accounts : vault[a] \in {0, a}
<1>. QED  BY DEF VaultInv, SecretGoesHome

\* What KeychainWork::run leaves: an entry it did not fail at holds what it was to.
ToHold(j, a) == (a = j.id /\ j.entry = "save") \/ a = j.hopSave
Obtained(j, reply) == IF ~j.read THEN j.typed ELSE IF reply THEN vault[j.id] ELSE 0

Heard(j) == {TRUE, ~j.read}
LEMMA RunsAre ==
    ASSUME NEW j, NEW r \in Runs(j)
    PROVE  \E failed \in SUBSET Written(j), reply \in Heard(j) : r = Run(j, failed, reply)
<1>1. Runs(j) = {Run(j, failed, reply) : failed \in SUBSET Written(j), reply \in Heard(j)}
      BY DEF Runs, Heard
<1>. QED  BY <1>1

LEMMA RunIs ==
    ASSUME VaultInv, NEW u \in Nat, u <= MaxAccounts, NEW j, Carries(j, u), j.id # 0,
           NEW r \in Runs(j)
    PROVE  /\ r.vault \in [Accounts -> Nat]
           /\ \A a \in Accounts : r.vault[a] \in {0, a} /\ (a \notin Written(j) => r.vault[a] = vault[a])
           /\ r.bad \subseteq Written(j)
           /\ \A a \in Accounts : a \in Written(j) /\ a \notin r.bad => (r.vault[a] # 0 <=> ToHold(j, a))
           /\ Carries(r.job, u) /\ r.job.at = "ran" /\ r.job.id = j.id /\ r.job.after = j.after
<1>. PICK failed \in SUBSET Written(j), reply \in Heard(j) : r = Run(j, failed, reply)
     BY RunsAre
<1>0. j \in Job /\ j.id \in Nat /\ j.typed \in {0, j.id} /\ j.id <= u /\ j.hopSave <= u /\ j.hopDelete <= u
      /\ j.hopSave \in Nat /\ j.hopDelete \in Nat /\ j.entry \in {"keep", "save", "delete"}
      BY DEF Carries, Job
<1>1. vault \in [Accounts -> Nat] /\ \A a \in Accounts : vault[a] \in {0, a}  BY VaultIs
<1>2. j.id \in Accounts  BY <1>0, DialogBounds
<1>. DEFINE s == Obtained(j, reply)
            none == j.entry = "save" /\ s = 0
            Value(a) == IF a \in failed \/ a \notin Written(j) THEN vault[a]
                        ELSE IF a = j.id /\ j.entry = "save"
                             THEN IF none THEN vault[a] ELSE s
                        ELSE IF a = j.hopSave THEN a ELSE 0
<1>3. s \in {0, j.id} /\ s \in Nat
  <2>1. vault[j.id] \in {0, j.id}  BY <1>1, <1>2
  <2>. QED  BY <2>1, <1>0 DEF Obtained
<1>4. /\ r.vault = [a \in Accounts |-> Value(a)]
      /\ r.bad = failed \cup (IF none THEN {j.id} ELSE {})
      BY Zenon DEF Run, Obtained
<1>5. PICK b \in BOOLEAN : r.job = [j EXCEPT !.at = "ran", !.secret = s, !.told = b]
  <2>1. r.job = [j EXCEPT !.at = "ran", !.secret = s,
                    !.told = @ \/ failed # {} \/ none \/ (j.read /\ ~reply)]
        BY Zenon DEF Run, Obtained
  <2>. QED  BY <2>1, Zenon
<1>. HIDE DEF s
<1>6. ASSUME NEW a \in Accounts
      PROVE  /\ Value(a) \in Nat /\ Value(a) \in {0, a} /\ (a \notin Written(j) => Value(a) = vault[a])
  <2>1. vault[a] \in Nat /\ vault[a] \in {0, a} /\ a \in Nat  BY <1>1, DialogBounds
  <2>. QED  BY <2>1, <1>3
<1>7. ASSUME NEW a \in Accounts, a \in Written(j), a \notin r.bad
      PROVE  Value(a) # 0 <=> ToHold(j, a)
  <2>1. a \notin failed /\ (none => a # j.id) /\ a # 0  BY <1>4, <1>7, DialogBounds
  <2>2. CASE a = j.id /\ j.entry = "save"
    <3>1. ~none  BY <2>1, <2>2
    <3>2. s # 0  BY <3>1, <2>2
    <3>3. Value(a) = s  BY <1>7, <2>1, <2>2, <3>1
    <3>. QED  BY <2>2, <3>2, <3>3 DEF ToHold
  <2>3. CASE ~(a = j.id /\ j.entry = "save")
    <3>1. Value(a) = IF a = j.hopSave THEN a ELSE 0  BY <1>7, <2>1, <2>3
    <3>. HIDE DEF Value
    <3>2. CASE a = j.hopSave  BY <3>1, <3>2, <2>1 DEF ToHold
    <3>3. CASE a # j.hopSave  BY <3>1, <3>3, <2>3 DEF ToHold
    <3>. QED  BY <3>2, <3>3
  <2>. QED  BY <2>2, <2>3
<1>8. Carries(r.job, u) /\ r.job.at = "ran" /\ r.job.id = j.id /\ r.job.after = j.after
  <2>. PICK w \in {"none", "waiting", "ran"} : w = "ran"  OBVIOUS
  <2>1. r.job = [j EXCEPT !.at = w, !.secret = s, !.told = b]  BY <1>5
  <2>2. /\ r.job \in Job /\ r.job.at = "ran" /\ r.job.id = j.id /\ r.job.after = j.after
        /\ r.job.typed = j.typed /\ r.job.secret = s /\ r.job.hopSave = j.hopSave
        /\ r.job.hopDelete = j.hopDelete
        BY <1>0, <1>3, <2>1 DEF Job
  <2>. QED  BY <2>2, <1>0, <1>3 DEF Carries
<1>9. r.bad \subseteq Written(j)
  <2>1. none => j.id \in Written(j)
    <3>1. j.entry # "keep" => j.id \in Written(j)  BY DEF Written
    <3>2. none => j.entry # "keep"  OBVIOUS
    <3>. QED  BY <3>1, <3>2
  <2>. HIDE DEF none
  <2>. QED  BY <2>1, <1>4
<1>. HIDE DEF Value
<1>10. \A a \in Accounts : r.vault[a] = Value(a)  BY <1>4
<1>11. r.vault \in [Accounts -> Nat]  BY <1>4, <1>6
<1>. QED  BY <1>6, <1>7, <1>8, <1>9, <1>10, <1>11

\* One job of many: what is due is what it writes, or is due of the others.
LEMMA DueIs ==
    ASSUME NEW js, NEW a
    PROVE  a \in Due(js) <=> \E j \in js : j.at = "waiting" /\ a \in Written(j)
<1>. QED  BY DEF Due

LEMMA WrittenAre ==
    ASSUME NEW j, NEW u \in Nat, Carries(j, u), j.id # 0
    PROVE  Written(j) \subseteq 1 .. u /\ Written(j) \subseteq Touched(j)
<1>1. j.id \in Nat /\ j.hopSave \in Nat /\ j.hopDelete \in Nat
      /\ j.id <= u /\ j.hopSave <= u /\ j.hopDelete <= u
      BY DEF Carries, Job
<1>. QED  BY <1>1 DEF Written, Touched

LEMMA KeychainRunsStep ==
    ASSUME DialogInv, KeychainRuns, opened' = NoSession
    PROVE  DialogInv'
<1>0. /\ UNCHANGED <<list, readable, used, copy, shown, form, question, subject, strays, asked>>
      /\ work.at = "waiting"
      /\ \E r \in Runs(work) : muddled' = muddled \cup r.bad /\ vault' = r.vault /\ work' = r.job
      BY DEF KeychainRuns, file, covers
<1>1. Carries(work, used) /\ Fits(work, list, muddled) /\ work.id # 0
      BY <1>0, InvParts DEF JobsInv, Fits
<1>. PICK r \in Runs(work) : muddled' = muddled \cup r.bad /\ vault' = r.vault /\ work' = r.job
     BY <1>0
<1>u. used \in Nat /\ used <= MaxAccounts  BY InvParts, DialogBounds DEF ListsInv
<1>2. /\ r.vault \in [Accounts -> Nat]
      /\ \A a \in Accounts : r.vault[a] \in {0, a} /\ (a \notin Written(work) => r.vault[a] = vault[a])
      /\ r.bad \subseteq Written(work)
      /\ \A a \in Accounts : a \in Written(work) /\ a \notin r.bad => (r.vault[a] # 0 <=> ToHold(work, a))
      /\ Carries(r.job, used) /\ r.job.at = "ran" /\ r.job.id = work.id /\ r.job.after = work.after
      BY <1>1, <1>u, InvParts, RunIs
<1>3. Written(work) \subseteq 1 .. used  BY <1>1, <1>u, WrittenAre
<1>4. muddled \subseteq muddled' /\ muddled' \subseteq 1 .. used
      BY <1>2, <1>3, InvParts DEF VaultInv
<1>5. JobsInv'
  <2>1. \A j \in strays' : Stray(j, used', muddled')  BY <1>0, <1>u, <1>4, StrayGrown, InvParts DEF JobsInv
  <2>2. work'.at # "none" /\ work'.after = "connect" => asked' = work'.id
        BY <1>0, <1>2, InvParts DEF JobsInv
  <2>. QED  BY <1>0, <1>2, <2>1, <2>2 DEF JobsInv
<1>6. VaultInv'
  <2>1. SecretGoesHome'  BY <1>2 DEF SecretGoesHome, NoSession
  <2>2. \A a \in Accounts : a > used' => vault'[a] = 0
    <3>1. ASSUME NEW a \in Accounts, a > used PROVE a \notin Written(work) /\ vault[a] = 0
          BY <3>1, <1>3, <1>u, DialogBounds, InvParts DEF VaultInv
    <3>. QED  BY <3>1, <1>0, <1>2
  <2>. QED  BY <2>1, <2>2, <1>0, <1>2, <1>4 DEF VaultInv
<1>7. AgreeInv'
  <2>1. ASSUME NEW a \in Accounts, a \notin muddled', a \notin Due((strays \cup {work})')
        PROVE  vault'[a] # 0 <=> ClaimedIn(list, a)
    <3>1. a \notin muddled /\ a \notin r.bad  BY <2>1
    <3>2. CASE a \in Written(work)
      <4>1. r.vault[a] # 0 <=> ToHold(work, a)  BY <1>2, <3>1, <3>2
      <4>2. ClaimedIn(list, a) <=> ToHold(work, a)  BY <1>1, <3>1, <3>2 DEF Fits, ToHold
      <4>. QED  BY <4>1, <4>2
    <3>3. CASE a \notin Written(work)
      <4>1. a \notin Due(strays \cup {work})
        <5>1. ASSUME NEW j \in strays \cup {work}, j.at = "waiting", a \in Written(j) PROVE FALSE
          <6>1. j \in strays  BY <5>1, <3>3
          <6>2. Written(j) \subseteq muddled  BY <6>1, InvParts DEF JobsInv, Stray
          <6>. QED  BY <6>2, <5>1, <3>1
        <5>. QED  BY <5>1, DueIs
      <4>2. vault[a] # 0 <=> ClaimedIn(list, a)  BY <3>1, <4>1, InvParts DEF AgreeInv, Agree
      <4>3. vault'[a] = vault[a]  BY <1>2, <3>3
      <4>. QED  BY <4>2, <4>3
    <3>. QED  BY <3>2, <3>3
  <2>. QED  BY <2>1, <1>0 DEF AgreeInv, Agree
<1>8. ReadInv'
  <2>1. CopiedFrom(list', copy', muddled')  BY <1>0, <1>4, CopiedKept, InvParts DEF ReadInv
  <2>2. shown => Ticks(form, list, muddled')  BY <1>4, TicksKept, InvParts DEF ReadInv
  <2>. QED  BY <2>1, <2>2, <1>0 DEF ReadInv
<1>9. ListsInv' /\ FormInv' /\ CoverInv'  BY <1>0, InvParts DEF ListsInv, FormInv, CoverInv
<1>. QED  BY <1>5, <1>6, <1>7, <1>8, <1>9 DEF DialogInv

LEMMA StrayRunsStep ==
    ASSUME DialogInv, StrayRuns, opened' = NoSession
    PROVE  DialogInv'
<1>0. /\ UNCHANGED <<list, readable, used, copy, shown, form, question, subject, work, asked>>
      /\ \E j \in strays : \E r \in Runs(j) : muddled' = muddled \cup r.bad /\ vault' = r.vault /\ strays' = strays \ {j}
      BY DEF StrayRuns, file, covers
<1>. PICK j \in strays : \E r \in Runs(j) : muddled' = muddled \cup r.bad /\ vault' = r.vault /\ strays' = strays \ {j}
     BY <1>0
<1>. PICK r \in Runs(j) : muddled' = muddled \cup r.bad /\ vault' = r.vault /\ strays' = strays \ {j}
     OBVIOUS
<1>1. Carries(j, used) /\ j.id # 0 /\ Written(j) \subseteq muddled
      BY InvParts DEF JobsInv, Stray
<1>u. used \in Nat /\ used <= MaxAccounts  BY InvParts, DialogBounds DEF ListsInv
<1>2. /\ r.vault \in [Accounts -> Nat]
      /\ \A a \in Accounts : r.vault[a] \in {0, a} /\ (a \notin Written(j) => r.vault[a] = vault[a])
      /\ r.bad \subseteq Written(j)
      BY <1>1, <1>u, InvParts, RunIs
<1>3. Written(j) \subseteq 1 .. used  BY <1>1, <1>u, WrittenAre
<1>4. muddled' = muddled  BY <1>1, <1>2
<1>5. JobsInv'
  <2>1. \A k \in strays' : Stray(k, used', muddled')  BY <1>0, <1>4, InvParts DEF JobsInv
  <2>. QED  BY <2>1, <1>0, <1>4, InvParts DEF JobsInv
<1>6. VaultInv'
  <2>1. SecretGoesHome'  BY <1>2 DEF SecretGoesHome, NoSession
  <2>2. \A a \in Accounts : a > used' => vault'[a] = 0
    <3>1. ASSUME NEW a \in Accounts, a > used PROVE a \notin Written(j) /\ vault[a] = 0
          BY <3>1, <1>3, <1>u, DialogBounds, InvParts DEF VaultInv
    <3>. QED  BY <3>1, <1>0, <1>2
  <2>. QED  BY <2>1, <2>2, <1>0, <1>2, <1>4, InvParts DEF VaultInv
<1>7. AgreeInv'
  <2>1. ASSUME NEW a \in Accounts, a \notin muddled', a \notin Due((strays \cup {work})')
        PROVE  vault'[a] # 0 <=> ClaimedIn(list, a)
    <3>1. a \notin muddled /\ a \notin Written(j)  BY <2>1, <1>1, <1>4
    <3>2. a \notin Due(strays \cup {work})
      <4>1. ASSUME NEW k \in strays \cup {work}, k.at = "waiting", a \in Written(k) PROVE FALSE
        <5>1. CASE k \in strays
          <6>1. Written(k) \subseteq muddled  BY <5>1, InvParts DEF JobsInv, Stray
          <6>. QED  BY <6>1, <4>1, <3>1
        <5>2. CASE k = work  BY <5>2, <4>1, <2>1, <1>0, DueIs
        <5>. QED  BY <5>1, <5>2
      <4>. QED  BY <4>1, DueIs
    <3>3. vault[a] # 0 <=> ClaimedIn(list, a)  BY <3>1, <3>2, InvParts DEF AgreeInv, Agree
    <3>4. vault'[a] = vault[a]  BY <1>2, <3>1
    <3>. QED  BY <3>3, <3>4
  <2>. QED  BY <2>1, <1>0 DEF AgreeInv, Agree
<1>8. ReadInv' /\ ListsInv' /\ FormInv' /\ CoverInv'
      BY <1>0, <1>4, InvParts DEF ReadInv, ListsInv, FormInv, CoverInv
<1>. QED  BY <1>5, <1>6, <1>7, <1>8 DEF DialogInv

LEMMA NoWorkIs ==
    ASSUME NEW u \in Nat
    PROVE  Carries(NoWork, u) /\ NoWork.at = "none"
<1>. QED  BY DEF NoWork, Carries, Job

LEMMA FinishIs ==
    ASSUME NEW j, NEW f, Finish(j, f)
    PROVE  /\ work' = NoWork /\ asked' = 0
           /\ \/ j.after = "stay" /\ opened' = NoSession
              \/ j.after # "stay" /\ opened'.profile = j.id /\ opened'.secret = j.secret
           /\ \/ form' = f /\ shown' = shown
              \/ form' = Cleared(f) /\ shown' = FALSE
           /\ \/ question' = question /\ subject' = subject
              \/ question' = "none"
<1>1. work' = NoWork /\ asked' = 0  BY DEF Finish
<1>2. CASE j.after = "stay"
      BY <1>1, <1>2 DEF Finish, covers
<1>3. CASE j.after # "stay"
  <2>1. opened' = [profile |-> j.id, secret |-> j.secret]  BY <1>3 DEF Finish
  <2>2. opened'.profile = j.id /\ opened'.secret = j.secret  BY <2>1
  <2>3. \/ form' = f /\ UNCHANGED <<shown, question, subject>>
        \/ form' = Cleared(f) /\ shown' = FALSE /\ question' = "none"
        BY <1>3, Zenon DEF Finish, covers
  <2>. QED  BY <1>1, <1>3, <2>2, <2>3
<1>. QED  BY <1>2, <1>3

LEMMA FinishedCover ==
    ASSUME CoverInv, shown' \in {shown, FALSE}, readable' = readable,
           (question' = question /\ subject' = subject) \/ question' = "none"
    PROVE  CoverInv'
<1>. QED  BY DEF CoverInv

LEMMA KeychainAnswersStep ==
    ASSUME DialogInv, KeychainAnswers
    PROVE  DialogInv'
<1>0. /\ UNCHANGED <<list, readable, used, vault, copy, strays, muddled>>
      /\ work.at = "ran" /\ Finish(work, form)
      BY DEF KeychainAnswers, file
<1>1. /\ work' = NoWork /\ asked' = 0
      /\ \/ work.after = "stay" /\ opened' = NoSession
         \/ work.after # "stay" /\ opened'.profile = work.id /\ opened'.secret = work.secret
      /\ \/ form' = form /\ shown' = shown
         \/ form' = Cleared(form) /\ shown' = FALSE
      /\ \/ question' = question /\ subject' = subject
         \/ question' = "none"
      BY <1>0, FinishIs
<1>2. ListsInv'  BY <1>0, InvParts DEF ListsInv
<1>3. FormInv' /\ (shown' => Ticks(form', list', muddled'))
  <2>1. CASE form' = form /\ shown' = shown  BY <2>1, <1>0, SameForm
  <2>2. CASE form' = Cleared(form) /\ shown' = FALSE
    <3>1. Fields(form', used) /\ form'.editing = form.editing /\ form'.hop = form.hop
          BY <2>2, ClearedIs, InvParts DEF FormInv
    <3>2. FormInv'  BY <3>1, <1>0, FormApartSame, InvParts DEF FormInv
    <3>. QED  BY <3>2, <2>2
  <2>. QED  BY <1>1, <2>1, <2>2
<1>4. JobsInv'  BY <1>0, <1>1, NoWorkIs, InvParts DEF JobsInv
<1>5. VaultInv'
  <2>1. Carries(work, used)  BY InvParts DEF JobsInv
  <2>2. opened'.secret \in {0, opened'.profile}  BY <1>1, <2>1 DEF Carries, NoSession
  <2>3. SecretGoesHome'  BY <1>0, <2>2, InvParts DEF VaultInv, SecretGoesHome
  <2>. QED  BY <1>0, <2>3, InvParts DEF VaultInv
<1>6. AgreeInv'
  <2>1. NoWork.at # "waiting"  BY DEF NoWork
  <2>2. ASSUME NEW a PROVE a \in Due((strays \cup {work})') <=> a \in Due(strays \cup {work})
        BY <1>0, <1>1, <2>1, DueIs
  <2>. QED  BY <1>0, <2>2, InvParts DEF AgreeInv, Agree
<1>7. ReadInv'  BY <1>0, <1>3, InvParts DEF ReadInv
<1>8. CoverInv'  BY <1>0, <1>1, InvParts, FinishedCover
<1>. QED  BY <1>2, <1>3, <1>4, <1>5, <1>6, <1>7, <1>8 DEF DialogInv

\* The job of a dialog that closed.
StrayOf(j) == [j EXCEPT !.after = "stay", !.told = FALSE]
LEMMA StrayOfIs ==
    ASSUME NEW j, NEW u \in Nat, Carries(j, u), j.at = "waiting", j.id # 0, NEW m, Written(j) \subseteq m
    PROVE  Stray(StrayOf(j), u, m) /\ Written(StrayOf(j)) = Written(j)
<1>. PICK b \in BOOLEAN, w \in {"stay", "connect"} :
        b = FALSE /\ w = "stay" /\ StrayOf(j) = [j EXCEPT !.after = w, !.told = b]
     BY Zenon DEF StrayOf
<1>. DEFINE k == [j EXCEPT !.after = w, !.told = b]
<1>1. j \in Job  BY DEF Carries
<1>2. /\ k \in Job /\ k.at = "waiting" /\ k.id = j.id /\ k.typed = j.typed /\ k.secret = j.secret
      /\ k.entry = j.entry /\ k.hopSave = j.hopSave /\ k.hopDelete = j.hopDelete
      BY <1>1 DEF Job
<1>. HIDE DEF k
<1>3. Written(k) = Written(j)  BY <1>2 DEF Written
<1>4. Stray(k, u, m)  BY <1>2, <1>3 DEF Stray, Carries
<1>. QED  BY <1>3, <1>4 DEF k

LEMMA CloseStep ==
    ASSUME DialogInv, Close, opened' = NoSession
    PROVE  DialogInv'
<1>0. /\ UNCHANGED <<list, readable, used, vault, copy>>
      /\ shown' = FALSE /\ question' = "none" /\ form' = Cleared(form) /\ work' = NoWork
      BY DEF Close, file, AfterClose
<1>u. used \in Nat  BY InvParts
<1>3. /\ muddled \subseteq muddled' /\ muddled' \subseteq 1 .. used
      /\ \A j \in strays' : Stray(j, used', muddled')
      /\ \A a \in Accounts : a \notin muddled' /\ a \notin Due((strays \cup {work})') =>
           a \notin muddled /\ a \notin Due(strays \cup {work})
  <2>1. CASE work.at = "waiting"
    <3>1. muddled' = muddled \cup Written(work) /\ (strays' = strays \/ strays' = {StrayOf(work)})
          BY <2>1 DEF Close, StrayOf
    <3>2. Carries(work, used) /\ work.id # 0  BY <2>1, InvParts DEF JobsInv, Fits
    <3>3. Written(work) \subseteq 1 .. used  BY <3>2, <1>u, WrittenAre
    <3>4. muddled \subseteq muddled' /\ Written(work) \subseteq muddled' /\ muddled' \subseteq 1 .. used
          BY <3>1, <3>3, InvParts DEF VaultInv
    <3>5. Stray(StrayOf(work), used, muddled')  BY <2>1, <3>2, <3>4, <1>u, StrayOfIs
    <3>6. ASSUME NEW j \in strays PROVE Stray(j, used, muddled')
      <4>1. Stray(j, used, muddled)  BY InvParts DEF JobsInv
      <4>. QED  BY <4>1, <3>4 DEF Stray
    <3>7. \A j \in strays' : Stray(j, used', muddled')  BY <3>1, <3>5, <3>6, <1>0
    <3>8. ASSUME NEW a, a \notin muddled', NEW j \in strays \cup {work}, j.at = "waiting" PROVE a \notin Written(j)
          BY <3>8, <3>4, InvParts DEF JobsInv, Stray
    <3>9. ASSUME NEW a, a \notin muddled' PROVE a \notin muddled /\ a \notin Due(strays \cup {work})
      <4>1. a \notin Due(strays \cup {work})  BY <3>8, <3>9, DueIs
      <4>. QED  BY <4>1, <3>9, <3>4
    <3>. QED  BY <3>4, <3>7, <3>9
  <2>2. CASE work.at # "waiting"
    <3>1. strays' = strays /\ muddled' = muddled  BY <2>2 DEF Close
    <3>2. \A j \in strays' : Stray(j, used', muddled')  BY <3>1, <1>0, InvParts DEF JobsInv
    <3>3. \A a : a \in Due(strays \cup {work}) => a \in Due((strays \cup {work})')
          BY <2>2, <3>1, DueIs
    <3>. QED  BY <3>1, <3>2, <3>3, InvParts DEF VaultInv
  <2>. QED  BY <2>1, <2>2
<1>4. ListsInv'  BY <1>0, InvParts DEF ListsInv
<1>5. FormInv'
  <2>1. Fields(form', used) /\ form'.editing = form.editing /\ form'.hop = form.hop
        BY <1>0, ClearedIs, InvParts DEF FormInv
  <2>. QED  BY <2>1, <1>0, FormApartSame, InvParts DEF FormInv
<1>6. JobsInv'  BY <1>0, <1>3, <1>u, NoWorkIs DEF JobsInv
<1>7. VaultInv'  BY <1>0, <1>3, InvParts DEF VaultInv, SecretGoesHome, NoSession
<1>8. AgreeInv'  BY <1>0, <1>3, InvParts DEF AgreeInv, Agree
<1>9. ReadInv'  BY <1>0, <1>3, CopiedKept, InvParts DEF ReadInv
<1>10. CoverInv'  BY <1>0, InvParts, FinishedCover
<1>. QED  BY <1>4, <1>5, <1>6, <1>7, <1>8, <1>9, <1>10 DEF DialogInv

-----------------------------------------------------------------------------
(* A profile is deleted, its secrets with it.                               *)

Gone(l, id) == {id} \cup Own(l[id])
Reached(js) == UNION {Touched(j) : j \in {j \in js : j.at = "waiting"}}

LEMMA ReachedIs ==
    ASSUME NEW js, NEW a
    PROVE  a \in Reached(js) <=> \E j \in js : j.at = "waiting" /\ a \in Touched(j)
<1>. QED  BY DEF Reached

LEMMA DeletedKeeps ==
    ASSUME DialogInv, NEW id \in DOMAIN list, NEW failed \in SUBSET Gone(list, id),
           UNCHANGED <<used, work, strays, asked>>, opened' = NoSession,
           NEW wrote \in BOOLEAN,
           list' = (IF wrote THEN Without(list, id) ELSE list),
           vault' = [a \in Accounts |-> IF a \in Gone(list, id) \ failed THEN 0 ELSE vault[a]],
           muddled \subseteq muddled', failed \subseteq muddled',
           wrote = FALSE => Gone(list, id) \subseteq muddled',
           Gone(list, id) \cap Reached(strays \cup {work}) \subseteq muddled',
           muddled' \subseteq muddled \cup Gone(list, id)
    PROVE  JobsInv' /\ VaultInv' /\ AgreeInv' /\ Listing(list', used') /\ Apart(list', list')
<1>. DEFINE gone == Gone(list, id)
<1>0. used \in Nat /\ Listing(list, used) /\ Apart(list, list)  BY InvParts DEF ListsInv
<1>1. /\ gone \subseteq 1 .. used
      /\ \A a : a \in gone <=> a # 0 /\ (a = id \/ a = list[id].hop)
  <2>1. id \in 1 .. used /\ list[id] \in Profile /\ list[id].hop <= used  BY <1>0 DEF Listing
  <2>2. list[id].hop \in Nat  BY <2>1, ProfileOf
  <2>. QED  BY <1>0, <2>1, <2>2 DEF Gone, Own
<1>2. ASSUME NEW a, a \notin muddled', a \in gone PROVE ~ClaimedIn(list', a) /\ wrote = TRUE
  <2>1. wrote = TRUE  BY <1>2
  <2>2. a # 0 /\ (a = id \/ a = list[id].hop)  BY <1>1, <1>2
  <2>3. ~ClaimedIn(Without(list, id), a)  BY <2>2, <1>0, GoneClaimsNothing
  <2>. QED  BY <2>1, <2>3
<1>3. ASSUME NEW a, a \notin gone, a # 0 PROVE ClaimedIn(list', a) <=> ClaimedIn(list, a)
  <2>1. CASE wrote = TRUE
    <3>1. a # id /\ a # list[id].hop  BY <1>1, <1>3
    <3>2. ClaimedIn(Without(list, id), a) <=> ClaimedIn(list, a)  BY <3>1, WithoutClaims
    <3>. QED  BY <3>2, <2>1
  <2>2. CASE wrote = FALSE  BY <2>2
  <2>. QED  BY <2>1, <2>2
<1>4. JobsInv'
  <2>1. work.at = "waiting" => Fits(work, list', muddled')
    <3>. SUFFICES ASSUME work.at = "waiting" PROVE Fits(work, list', muddled')
         OBVIOUS
    <3>1. Fits(work, list, muddled) /\ work.id # 0 /\ Carries(work, used)
          BY InvParts DEF JobsInv, Fits
    <3>2. Written(work) \subseteq 1 .. used /\ Written(work) \subseteq Touched(work)
          BY <3>1, <1>0, WrittenAre
    <3>3. ASSUME NEW a \in Written(work) \ muddled' PROVE ClaimedIn(list', a) <=> ClaimedIn(list, a)
      <4>1. a \in Reached(strays \cup {work})  BY <3>2, ReachedIs
      <4>2. a \notin gone  BY <4>1
      <4>3. a # 0  BY <3>2
      <4>. QED  BY <4>2, <4>3, <1>3
    <3>. QED  BY <3>1, <3>3, FitsKept
  <2>2. ASSUME NEW j \in strays PROVE Stray(j, used, muddled')
    <3>1. Stray(j, used, muddled)  BY InvParts DEF JobsInv
    <3>. QED  BY <3>1 DEF Stray
  <2>. QED  BY <2>1, <2>2, InvParts DEF JobsInv
<1>5. VaultInv'
  <2>1. vault \in [Accounts -> Nat] /\ \A a \in Accounts : vault[a] \in {0, a}  BY InvParts, VaultIs
  <2>2. vault' \in [Accounts -> Nat] /\ \A a \in Accounts : vault'[a] \in {0, a}
    <3>. HIDE DEF gone
    <3>1. vault' = [a \in Accounts |-> IF a \in gone \ failed THEN 0 ELSE vault[a]]  BY DEF gone
    <3>. QED  BY <2>1, <3>1
  <2>3. \A a \in Accounts : a > used' => vault'[a] = 0  BY InvParts DEF VaultInv
  <2>4. muddled' \subseteq 1 .. used'  BY <1>1, InvParts DEF VaultInv
  <2>5. SecretGoesHome'  BY <2>2 DEF SecretGoesHome, NoSession
  <2>. QED  BY <2>2, <2>3, <2>4, <2>5 DEF VaultInv
<1>6. AgreeInv'
  <2>1. ASSUME NEW a \in Accounts, a \notin muddled', a \notin Due((strays \cup {work})')
        PROVE  vault'[a] # 0 <=> ClaimedIn(list', a)
    <3>1. a \notin muddled /\ a \notin failed /\ a \notin Due(strays \cup {work}) /\ a # 0
          BY <2>1, DialogBounds
    <3>2. CASE a \in gone
      <4>1. vault'[a] = 0  BY <3>1, <3>2
      <4>. QED  BY <4>1, <2>1, <3>2, <1>2
    <3>3. CASE a \notin gone
      <4>1. vault'[a] = vault[a]  BY <3>3
      <4>2. vault[a] # 0 <=> ClaimedIn(list, a)  BY <3>1, InvParts DEF AgreeInv, Agree
      <4>. QED  BY <4>1, <4>2, <1>3, <3>1, <3>3
    <3>. QED  BY <3>2, <3>3
  <2>. QED  BY <2>1 DEF AgreeInv, Agree
<1>7. Listing(list', used') /\ Apart(list', list')
  <2>1. CASE wrote = TRUE  BY <2>1, <1>0, WithoutLists, WithoutApart
  <2>2. CASE wrote = FALSE  BY <2>2, <1>0
  <2>. QED  BY <2>1, <2>2
<1>. QED  BY <1>4, <1>5, <1>6, <1>7

LEMMA GoneAre ==
    \A id : Gone(list, id) = {id} \cup Own(list[id])
<1>. QED  BY DEF Gone

LEMMA ReachedAre == Reached(strays \cup {work}) = UNION {Touched(j) : j \in Unfinished}
<1>. QED  BY Zenon DEF Reached, Unfinished

LEMMA ElsewhereDeletesStep ==
    ASSUME DialogInv, ElsewhereDeletes, opened' = NoSession
    PROVE  DialogInv'
<1>0. /\ UNCHANGED <<readable, used, copy, shown, form, question, subject, work, strays, asked>>
      /\ \E id \in DOMAIN list :
            /\ list' = Without(list, id)
            /\ vault' = [a \in Accounts |-> IF a \in Gone(list, id) THEN 0 ELSE vault[a]]
            /\ muddled' = muddled \cup (Gone(list, id) \cap Reached(strays \cup {work}))
      BY ReachedAre DEF ElsewhereDeletes, covers, Gone
<1>. PICK id \in DOMAIN list :
            /\ list' = Without(list, id)
            /\ vault' = [a \in Accounts |-> IF a \in Gone(list, id) THEN 0 ELSE vault[a]]
            /\ muddled' = muddled \cup (Gone(list, id) \cap Reached(strays \cup {work}))
     BY <1>0
<1>p. PICK failed \in SUBSET Gone(list, id), wrote \in BOOLEAN : failed = {} /\ wrote = TRUE  BY Zenon
<1>1. vault' = [a \in Accounts |-> IF a \in Gone(list, id) \ failed THEN 0 ELSE vault[a]]
      BY <1>p
<1>r. /\ list' = (IF wrote THEN Without(list, id) ELSE list)
      /\ muddled \subseteq muddled' /\ failed \subseteq muddled'
      /\ wrote = FALSE => Gone(list, id) \subseteq muddled'
      /\ Gone(list, id) \cap Reached(strays \cup {work}) \subseteq muddled'
      /\ muddled' \subseteq muddled \cup Gone(list, id)
      BY <1>p
<1>2. JobsInv' /\ VaultInv' /\ AgreeInv' /\ Listing(list', used') /\ Apart(list', list')
      BY <1>0, <1>1, <1>r, DeletedKeeps
<1>3. DOMAIN list' = DOMAIN list \ {id} /\ \A i \in DOMAIN list \ {id} : list'[i] = list[i]
      BY DEF Without
<1>4. ListsInv'
  <2>1. Apart(list', copy) /\ Apart(copy, list')  BY WithoutApart, InvParts DEF ListsInv
  <2>. QED  BY <1>0, <1>2, <2>1, InvParts DEF ListsInv
<1>5. FormInv'
  <2>1. FormApart(form, list')  BY FormApartWithout, InvParts DEF FormInv
  <2>. QED  BY <1>0, <1>3, <2>1, InvParts DEF FormInv
<1>6. ReadInv'
  <2>1. CopiedFrom(list', copy', muddled')
    <3>1. ASSUME NEW i \in DOMAIN list' \cap DOMAIN copy
          PROVE  copy[i] = list'[i] \/ {i} \cup Own(list'[i]) \cup Own(copy[i]) \subseteq muddled'
      <4>1. i \in DOMAIN list /\ list'[i] = list[i]  BY <1>3
      <4>2. copy[i] = list[i] \/ {i} \cup Own(list[i]) \cup Own(copy[i]) \subseteq muddled
            BY <4>1, InvParts DEF ReadInv, CopiedFrom
      <4>. QED  BY <4>1, <4>2
    <3>. QED  BY <3>1, <1>0 DEF CopiedFrom
  <2>2. shown' => Ticks(form', list', muddled')
    <3>1. shown => Ticks(form, list, muddled)  BY InvParts DEF ReadInv
    <3>2. form.editing \in DOMAIN list' => form.editing \in DOMAIN list /\ list'[form.editing] = list[form.editing]
          BY <1>3
    <3>. QED  BY <1>0, <3>1, <3>2, TicksKept
  <2>. QED  BY <2>1, <2>2 DEF ReadInv
<1>7. CoverInv'  BY <1>0, InvParts DEF CoverInv
<1>. QED  BY <1>2, <1>4, <1>5, <1>6, <1>7 DEF DialogInv

LEMMA ConfirmDeleteStep ==
    ASSUME DialogInv, ConfirmDelete, opened' = NoSession
    PROVE  DialogInv'
<1>0. /\ UNCHANGED <<readable, used, shown, work, strays, asked>>
      /\ question' = "none"
      BY DEF ConfirmDelete
<1>1. CoverInv'  BY <1>0, InvParts DEF CoverInv
<1>2. CASE ~(readable /\ subject \in DOMAIN list)
  <2>1. copy' \in {list, copy} /\ UNCHANGED <<list, vault, form, muddled>>
        BY <1>2 DEF ConfirmDelete, Stored
  <2>2. /\ ListsInv' /\ CopiedFrom(list', copy', muddled') /\ FormApart(form, copy')
        /\ form.editing \in DOMAIN list => form.editing \in DOMAIN copy'
        BY <1>0, <2>1, ReadAfresh
  <2>3. JobsInv' /\ VaultInv' /\ AgreeInv'  BY <1>0, <2>1, InvParts, SameClaims
  <2>4. FormInv' /\ (shown' => Ticks(form', list', muddled'))
        BY <1>0, <2>1, <2>2, InvParts DEF FormInv, ReadInv
  <2>. QED  BY <2>2, <2>3, <2>4, <1>1 DEF DialogInv, ReadInv
<1>3. CASE readable /\ subject \in DOMAIN list
  <2>. PICK id \in DOMAIN list : id = subject  BY <1>3
  <2>1. /\ copy' = Without(list, id)
        /\ \E wrote \in BOOLEAN, failed \in SUBSET Gone(list, id) :
              /\ list' = (IF wrote THEN copy' ELSE list)
              /\ vault' = [a \in Accounts |-> IF a \in Gone(list, id) \ failed THEN 0 ELSE vault[a]]
              /\ muddled' = muddled \cup failed \cup (IF wrote THEN {} ELSE Gone(list, id)) \cup
                    (Gone(list, id) \cap Reached(strays \cup {work}))
        /\ form' = (IF form.editing = id THEN EmptyForm ELSE form)
    <3>1. /\ copy' = Without(list, subject)
          /\ \E wrote \in BOOLEAN, failed \in SUBSET Gone(list, subject) :
                /\ list' = (IF wrote THEN copy' ELSE list)
                /\ vault' = [a \in Accounts |-> IF a \in Gone(list, subject) \ failed THEN 0 ELSE vault[a]]
                /\ muddled' = muddled \cup failed \cup (IF wrote THEN {} ELSE Gone(list, subject)) \cup
                      (Gone(list, subject) \cap Reached(strays \cup {work}))
          /\ form' = (IF form.editing = subject THEN EmptyForm ELSE form)
          BY <1>3, ReachedAre DEF ConfirmDelete, Stored, Gone
    <3>. QED  BY <3>1
  <2>. PICK wrote \in BOOLEAN, failed \in SUBSET Gone(list, id) :
              /\ list' = (IF wrote THEN copy' ELSE list)
              /\ vault' = [a \in Accounts |-> IF a \in Gone(list, id) \ failed THEN 0 ELSE vault[a]]
              /\ muddled' = muddled \cup failed \cup (IF wrote THEN {} ELSE Gone(list, id)) \cup
                    (Gone(list, id) \cap Reached(strays \cup {work}))
       BY <2>1
  <2>2. /\ list' = (IF wrote THEN Without(list, id) ELSE list)
        /\ muddled \subseteq muddled' /\ failed \subseteq muddled'
        /\ wrote = FALSE => Gone(list, id) \subseteq muddled'
        /\ Gone(list, id) \cap Reached(strays \cup {work}) \subseteq muddled'
        /\ muddled' \subseteq muddled \cup Gone(list, id)
        BY <2>1
  <2>3. JobsInv' /\ VaultInv' /\ AgreeInv' /\ Listing(list', used') /\ Apart(list', list')
        BY <1>0, <2>2, DeletedKeeps
  <2>. DEFINE w == Without(list, id)
  <2>4. DOMAIN w = DOMAIN list \ {id} /\ \A i \in DOMAIN list \ {id} : w[i] = list[i]
        BY DEF Without
  <2>5. /\ Listing(w, used) /\ Apart(w, w) /\ Apart(w, list) /\ Apart(list, w)
        BY InvParts, WithoutLists, WithoutApart DEF ListsInv
  <2>6. FormApart(form, w)  BY FormApartWithout, InvParts DEF FormInv
  <2>. HIDE DEF w
  <2>7. copy' = w /\ list' \in {list, w}  BY <2>1, <2>2 DEF w
  <2>8. ListsInv'  BY <1>0, <2>3, <2>5, <2>7, InvParts DEF ListsInv
  <2>9. CopiedFrom(list', copy', muddled')
    <3>1. \A i \in DOMAIN list' \cap DOMAIN copy' : copy'[i] = list'[i]  BY <2>4, <2>7
    <3>. QED  BY <3>1, CopiedWhenEqual
  <2>10. FormInv' /\ (shown' => Ticks(form', list', muddled'))
    <3>1. CASE form.editing = id
      <4>1. form' = EmptyForm  BY <2>1, <3>1
      <4>. QED  BY <4>1, <2>8, EmptyFormStep
    <3>2. CASE form.editing # id
      <4>1. form' = form  BY <2>1, <3>2
      <4>2. FormApart(form, list') /\ FormApart(form, copy')  BY <2>6, <2>7, InvParts DEF FormInv
      <4>3. form.editing \in DOMAIN list' => form.editing \in DOMAIN copy'
            BY <2>4, <2>7, <3>2
      <4>4. FormInv'  BY <1>0, <4>1, <4>2, <4>3, InvParts DEF FormInv
      <4>5. shown => Ticks(form, list, muddled)  BY InvParts DEF ReadInv
      <4>6. form.editing \in DOMAIN list' => form.editing \in DOMAIN list /\ list'[form.editing] = list[form.editing]
            BY <2>4, <2>7
      <4>7. muddled \subseteq muddled'  BY <2>2
      <4>. QED  BY <1>0, <4>1, <4>4, <4>5, <4>6, <4>7, TicksKept
    <3>. QED  BY <3>1, <3>2
  <2>. QED  BY <2>3, <2>8, <2>9, <2>10, <1>1 DEF DialogInv, ReadInv
<1>. QED  BY <1>2, <1>3

-----------------------------------------------------------------------------
(* store_form, its parts by name.                                           *)

NowStored == IF readable THEN Stored ELSE << >>
Known == form.editing \in DOMAIN NowStored \cup DOMAIN copy
StoreId == IF Known THEN form.editing ELSE used + 1
Before ==
    IF form.editing \in DOMAIN NowStored THEN NowStored[form.editing]
    ELSE IF form.editing \in DOMAIN copy THEN copy[form.editing]
    ELSE [saves |-> FALSE, hop |-> 0]
TypedFor ==
    IF form.secret = (IF form.editing = 0 THEN Unnamed ELSE form.editing) THEN StoreId ELSE form.secret
NewEntry ==
    [host |-> form.host, agent |-> form.agent, saves |-> form.saves /\ ~form.agent,
     hop |-> form.hop, hopSaves |-> form.hopSaves \/ form.hopSecret]
BareJob(after) ==
    [NoWork EXCEPT !.at = "waiting", !.id = StoreId, !.typed = TypedFor, !.secret = TypedFor, !.after = after,
       !.read = TypedFor = 0 /\ form.editing # 0 /\ ~form.agent /\ after = "connect"]
StoredForm == [form EXCEPT !.editing = StoreId, !.secret = TypedFor]
JobOf(after, wrote) ==
    [(IF readable THEN Planned(BareJob(after), NewEntry, Before) ELSE BareJob(after)) EXCEPT !.told = ~wrote]
MuddledBy(wrote) ==
    IF readable /\ (~wrote \/ form.editing \notin DOMAIN NowStored \cup {0})
    THEN {StoreId, Before.hop, form.hop} \ {0} ELSE {}

StoreAs(after) ==
    /\ StoreId \in Accounts /\ used' = (IF Known THEN used ELSE StoreId)
    /\ copy' = (IF readable THEN Entered(Stored, StoreId, NewEntry) ELSE copy)
    /\ \E wrote \in {readable, FALSE} :
          /\ Trouble(readable /\ ~wrote)
          /\ list' = (IF wrote THEN copy' ELSE list)
          /\ muddled' = muddled \cup MuddledBy(wrote)
          /\ IF Nothing(JobOf(after, wrote))
             THEN Finish(JobOf(after, wrote), StoredForm)
             ELSE /\ work' = JobOf(after, wrote) /\ form' = StoredForm
                  /\ asked' = (IF after = "connect" THEN StoreId ELSE 0)
                  /\ opened' = NoSession /\ UNCHANGED <<shown, covers>>
    /\ UNCHANGED <<readable, vault, strays>>

LEMMA StoreIs ==
    ASSUME NEW after, Store(after)
    PROVE  StoreAs(after)
<1>. QED  BY ZenonT(120) DEF Store, StoreAs, StoreId, Known, NowStored, NewEntry, StoredForm, MuddledBy, JobOf,
     BareJob, TypedFor, Before


\* What the stored profile, its account and the one it replaces are.
LEMMA StoreFacts ==
    ASSUME DialogInv, form.host # 0, StoreId \in Accounts, used' = (IF Known THEN used ELSE StoreId)
    PROVE  /\ StoreId \in Nat /\ StoreId # 0 /\ used' \in 0 .. MaxAccounts /\ used <= used' /\ StoreId <= used'
           /\ \/ StoreId = form.editing /\ form.editing # 0 /\ Known
              \/ StoreId = used + 1 /\ ~Known
           /\ NewEntry \in Profile /\ NewEntry.hop = form.hop /\ (NewEntry.hop = 0 => ~NewEntry.hopSaves)
           /\ NewEntry.saves = (form.saves /\ ~form.agent) /\ NewEntry.agent = form.agent
           /\ NewEntry.hopSaves = (form.hopSaves \/ form.hopSecret)
           /\ TypedFor \in {0, StoreId}
           /\ Before.hop \in Nat /\ Before.hop <= used /\ Before.saves \in BOOLEAN
<1>0. used \in Nat /\ Fields(form, used) /\ Listing(list, used) /\ Listing(copy, used) /\ MaxAccounts \in Nat
      BY InvParts, DialogBounds DEF FormInv, ListsInv
<1>1. /\ form.editing \in Nat /\ form.host \in Nat /\ form.secret \in Nat /\ form.hop \in Nat
      /\ form.agent \in BOOLEAN /\ form.saves \in BOOLEAN
      /\ form.hopSaves \in BOOLEAN /\ form.hopSecret \in BOOLEAN
      /\ form.editing <= used /\ form.hop <= used /\ form.host \in Hosts
      BY <1>0, FieldsOf DEF Fields
<1>2. StoreId \in Nat /\ StoreId # 0 /\ StoreId <= MaxAccounts  BY DialogBounds
<1>3. \/ StoreId = form.editing /\ form.editing # 0 /\ Known
      \/ StoreId = used + 1 /\ ~Known
      BY <1>2 DEF StoreId
<1>4. used <= MaxAccounts  BY InvParts, DialogBounds DEF ListsInv
<1>5. used' \in 0 .. MaxAccounts /\ used <= used' /\ StoreId <= used'  BY <1>0, <1>1, <1>2, <1>3, <1>4
<1>6. NewEntry \in Profile
  <2>. PICK b \in BOOLEAN, c \in BOOLEAN : b = (form.saves /\ ~form.agent) /\ c = (form.hopSaves \/ form.hopSecret)
       BY Zenon
  <2>. PICK n \in 0 .. MaxAccounts : n = form.hop  BY <1>0, <1>1, <1>4
  <2>. PICK h \in Hosts : h = form.host  BY <1>1
  <2>. PICK g \in BOOLEAN : g = form.agent  BY <1>1
  <2>1. [host |-> h, agent |-> g, saves |-> b, hop |-> n, hopSaves |-> c] \in Profile  BY DEF Profile
  <2>2. NewEntry = [host |-> h, agent |-> g, saves |-> b, hop |-> n, hopSaves |-> c]
        BY Zenon DEF NewEntry
  <2>. QED  BY <2>1, <2>2
<1>7. /\ NewEntry.hop = form.hop
      /\ NewEntry.saves = (form.saves /\ ~form.agent) /\ NewEntry.agent = form.agent
      /\ NewEntry.hopSaves = (form.hopSaves \/ form.hopSecret)
      BY Zenon DEF NewEntry
<1>8. NewEntry.hop = 0 => ~NewEntry.hopSaves
  <2>1. form.hop = 0 => ~form.hopSaves /\ ~form.hopSecret  BY <1>0 DEF Fields
  <2>. QED  BY <1>7, <2>1
<1>9. TypedFor \in {0, StoreId}
  <2>1. form.secret \in {0, IF form.editing = 0 THEN Unnamed ELSE form.editing}  BY <1>0 DEF Fields
  <2>. QED  BY <2>1 DEF TypedFor
<1>10. Before.hop \in Nat /\ Before.hop <= used /\ Before.saves \in BOOLEAN
  <2>1. CASE form.editing \in DOMAIN NowStored
    <3>1. NowStored[form.editing] \in Profile /\ NowStored[form.editing].hop <= used
          BY <2>1, <1>0 DEF NowStored, Stored, Listing
    <3>2. Before = NowStored[form.editing]  BY <2>1 DEF Before
    <3>. QED  BY <3>1, <3>2, ProfileOf
  <2>2. CASE form.editing \notin DOMAIN NowStored /\ form.editing \in DOMAIN copy
    <3>1. copy[form.editing] \in Profile /\ copy[form.editing].hop <= used
          BY <2>2, <1>0 DEF Listing
    <3>2. Before = copy[form.editing]  BY <2>2 DEF Before
    <3>. QED  BY <3>1, <3>2, ProfileOf
  <2>3. CASE form.editing \notin DOMAIN NowStored /\ form.editing \notin DOMAIN copy
    <3>1. Before = [saves |-> FALSE, hop |-> 0]  BY <2>3 DEF Before
    <3>2. Before.hop = 0  BY <3>1
    <3>3. Before.saves \in BOOLEAN  BY <3>1, Zenon
    <3>4. Before.hop \in Nat /\ Before.hop <= used  BY <3>2, <1>0
    <3>. QED  BY <3>3, <3>4
  <2>. QED  BY <2>1, <2>2, <2>3
<1>. QED  BY <1>2, <1>3, <1>5, <1>6, <1>7, <1>8, <1>9, <1>10

\* What the work of a Save or a Connect is.
LEMMA BareJobIs ==
    ASSUME NEW after \in {"stay", "connect"}, StoreId \in Nat, TypedFor \in {0, StoreId}
    PROVE  /\ BareJob(after) \in Job
           /\ BareJob(after).at = "waiting" /\ BareJob(after).id = StoreId
           /\ BareJob(after).typed = TypedFor /\ BareJob(after).secret = TypedFor
           /\ BareJob(after).after = after /\ BareJob(after).entry = "keep"
           /\ BareJob(after).hopSave = 0 /\ BareJob(after).hopDelete = 0
<1>. PICK n \in Nat, t \in Nat : n = StoreId /\ t = TypedFor
     OBVIOUS
<1>. PICK b \in BOOLEAN : b = (TypedFor = 0 /\ form.editing # 0 /\ ~form.agent /\ after = "connect")
     BY Zenon
<1>1. BareJob(after) =
        [NoWork EXCEPT !.at = "waiting", !.id = n, !.typed = t, !.secret = t, !.after = after, !.read = b]
      BY Zenon DEF BareJob
<1>. PICK c \in BOOLEAN : c = FALSE  BY Zenon
<1>2. BareJob(after) =
        [at |-> "waiting", id |-> n, typed |-> t, read |-> b, entry |-> "keep",
         hopSave |-> 0, hopDelete |-> 0, after |-> after, secret |-> t, told |-> c]
      BY <1>1 DEF NoWork
<1>. QED  BY <1>2 DEF Job

LEMMA PlannedIs ==
    ASSUME NEW j \in Job, NEW p \in Profile, NEW was, was.hop \in Nat, was.saves \in BOOLEAN,
           form.hop \in Nat, form.hopSecret \in BOOLEAN
    PROVE  LET q == Planned(j, p, was)
           IN /\ q \in Job /\ q.at = j.at /\ q.id = j.id /\ q.typed = j.typed /\ q.secret = j.secret
              /\ q.after = j.after
              /\ (q.entry = "save" => p.saves) /\ (q.entry = "delete" => ~p.saves)
              /\ (q.entry = "keep" => (p.saves <=> was.saves))
              /\ q.hopSave = (IF form.hopSecret THEN form.hop ELSE 0)
              /\ q.hopDelete = (IF was.hop # p.hop THEN was.hop ELSE 0)
<1>. DEFINE entry == IF p.saves
                     THEN IF LeftAsItIs(j.after, j.typed, was) THEN "keep" ELSE "save"
                     ELSE IF p.agent /\ ~was.saves THEN "keep" ELSE "delete"
            hs == IF form.hopSecret THEN form.hop ELSE 0
            hd == IF was.hop # p.hop THEN was.hop ELSE 0
<1>1. hs \in Nat /\ hd \in Nat  OBVIOUS
<1>2. /\ entry \in {"keep", "save", "delete"}
      /\ (entry = "save" => p.saves) /\ (entry = "delete" => ~p.saves)
      /\ (entry = "keep" => (p.saves <=> was.saves))
  <2>1. LeftAsItIs(j.after, j.typed, was) => was.saves  BY DEF LeftAsItIs
  <2>2. CASE p.saves /\ LeftAsItIs(j.after, j.typed, was)
    <3>1. entry = "keep"  BY <2>2
    <3>. HIDE DEF entry
    <3>. QED  BY <3>1, <2>1, <2>2
  <2>3. CASE p.saves /\ ~LeftAsItIs(j.after, j.typed, was)
    <3>1. entry = "save"  BY <2>3
    <3>. HIDE DEF entry
    <3>. QED  BY <3>1, <2>3
  <2>4. CASE ~p.saves /\ p.agent /\ ~was.saves
    <3>1. entry = "keep"  BY <2>4
    <3>. HIDE DEF entry
    <3>. QED  BY <3>1, <2>4
  <2>5. CASE ~p.saves /\ ~(p.agent /\ ~was.saves)
    <3>1. entry = "delete"  BY <2>5
    <3>. HIDE DEF entry
    <3>. QED  BY <3>1, <2>5
  <2>. QED  BY <2>2, <2>3, <2>4, <2>5
<1>3. Planned(j, p, was) = [j EXCEPT !.entry = entry, !.hopSave = hs, !.hopDelete = hd]
      BY Zenon DEF Planned
<1>. HIDE DEF entry, hs, hd
<1>4. /\ Planned(j, p, was) \in Job /\ Planned(j, p, was).at = j.at /\ Planned(j, p, was).id = j.id
      /\ Planned(j, p, was).typed = j.typed
      /\ Planned(j, p, was).secret = j.secret /\ Planned(j, p, was).after = j.after
      /\ Planned(j, p, was).entry = entry /\ Planned(j, p, was).hopSave = hs
      /\ Planned(j, p, was).hopDelete = hd
      BY <1>1, <1>2, <1>3 DEF Job
<1>. QED  BY <1>2, <1>4 DEF hs, hd


\* What a job is to do for a profile p stored over before.
Plans(j, p, was) ==
    /\ (j.entry = "save" => p.saves) /\ (j.entry = "delete" => ~p.saves)
    /\ (j.entry = "keep" => (p.saves <=> was.saves))
    /\ j.hopSave = (IF form.hopSecret THEN form.hop ELSE 0)
    /\ j.hopDelete = (IF was.hop # p.hop THEN was.hop ELSE 0)

LEMMA JobIs ==
    ASSUME DialogInv, form.host # 0, StoreId \in Accounts, used' = (IF Known THEN used ELSE StoreId),
           NEW after \in {"stay", "connect"}, NEW wrote
    PROVE  LET j == JobOf(after, wrote)
           IN /\ Carries(j, used') /\ j.at = "waiting" /\ j.id = StoreId /\ j.after = after
              /\ j.entry \in {"keep", "save", "delete"}
              /\ (readable => Plans(j, NewEntry, Before))
              /\ (~readable => j.entry = "keep" /\ j.hopSave = 0 /\ j.hopDelete = 0)
<1>1. /\ StoreId \in Nat /\ StoreId # 0 /\ used' \in 0 .. MaxAccounts /\ used <= used' /\ StoreId <= used'
      /\ NewEntry \in Profile /\ NewEntry.hop = form.hop
      /\ TypedFor \in {0, StoreId} /\ Before.hop \in Nat /\ Before.hop <= used /\ Before.saves \in BOOLEAN
      BY StoreFacts
<1>2. used \in Nat /\ used' \in Nat /\ form.hop \in Nat /\ form.hop <= used /\ form.hopSecret \in BOOLEAN
      BY <1>1, InvParts, FieldsOf, DialogBounds DEF FormInv, Fields
<1>. DEFINE b == BareJob(after)
            q == IF readable THEN Planned(b, NewEntry, Before) ELSE b
<1>3. /\ b \in Job /\ b.at = "waiting" /\ b.id = StoreId /\ b.typed = TypedFor /\ b.secret = TypedFor
      /\ b.after = after /\ b.entry = "keep" /\ b.hopSave = 0 /\ b.hopDelete = 0
      BY <1>1, BareJobIs
<1>. HIDE DEF b
<1>4. /\ q \in Job /\ q.at = "waiting" /\ q.id = StoreId /\ q.typed = TypedFor /\ q.secret = TypedFor
      /\ q.after = after
      /\ (readable => Plans(q, NewEntry, Before))
      /\ (~readable => q.entry = "keep" /\ q.hopSave = 0 /\ q.hopDelete = 0)
  <2>1. CASE readable
    <3>. DEFINE r == Planned(b, NewEntry, Before)
    <3>1. /\ r \in Job /\ r.at = b.at /\ r.id = b.id /\ r.typed = b.typed /\ r.secret = b.secret
          /\ r.after = b.after
          /\ (r.entry = "save" => NewEntry.saves) /\ (r.entry = "delete" => ~NewEntry.saves)
          /\ (r.entry = "keep" => (NewEntry.saves <=> Before.saves))
          /\ r.hopSave = (IF form.hopSecret THEN form.hop ELSE 0)
          /\ r.hopDelete = (IF Before.hop # NewEntry.hop THEN Before.hop ELSE 0)
          BY <1>1, <1>2, <1>3, PlannedIs
    <3>2. q = r  BY <2>1
    <3>. HIDE DEF q, r
    <3>3. Plans(q, NewEntry, Before)  BY <3>1, <3>2 DEF Plans
    <3>. QED  BY <2>1, <3>1, <3>2, <3>3, <1>3
  <2>2. CASE ~readable
    <3>1. q = b  BY <2>2
    <3>. HIDE DEF q
    <3>. QED  BY <2>2, <3>1, <1>3
  <2>. QED  BY <2>1, <2>2
<1>5. JobOf(after, wrote) = [q EXCEPT !.told = ~wrote]  BY Zenon DEF JobOf, b
<1>. HIDE DEF q
<1>6. PICK t \in BOOLEAN : t = ~wrote  BY Zenon
<1>7. JobOf(after, wrote) = [q EXCEPT !.told = t]  BY <1>5, <1>6
<1>. DEFINE j == JobOf(after, wrote)
<1>8. /\ j \in Job /\ j.at = q.at /\ j.id = q.id /\ j.typed = q.typed /\ j.secret = q.secret
      /\ j.after = q.after /\ j.entry = q.entry /\ j.hopSave = q.hopSave /\ j.hopDelete = q.hopDelete
      BY <1>4, <1>7 DEF Job
<1>. HIDE DEF j
<1>9. readable => Plans(j, NewEntry, Before)  BY <1>4, <1>8 DEF Plans
<1>10. j.hopSave \in Nat /\ j.hopDelete \in Nat /\ j.hopSave <= used /\ j.hopDelete <= used
  <2>1. CASE readable  BY <2>1, <1>1, <1>2, <1>9 DEF Plans
  <2>2. CASE ~readable  BY <2>2, <1>2, <1>4, <1>8
  <2>. QED  BY <2>1, <2>2
<1>11. j.hopSave <= used' /\ j.hopDelete <= used'  BY <1>1, <1>2, <1>10
<1>12. Carries(j, used')  BY <1>1, <1>4, <1>8, <1>11 DEF Carries
<1>13. j.entry \in {"keep", "save", "delete"}  BY <1>8 DEF Job
<1>14. /\ Carries(j, used') /\ j.at = "waiting" /\ j.id = StoreId /\ j.after = after
       /\ j.entry \in {"keep", "save", "delete"}
       /\ (readable => Plans(j, NewEntry, Before))
       /\ (~readable => j.entry = "keep" /\ j.hopSave = 0 /\ j.hopDelete = 0)
       BY <1>4, <1>8, <1>9, <1>12, <1>13
<1>. QED  BY <1>14 DEF j

\* The stored profile among the others.
LEMMA StorePlaces ==
    ASSUME DialogInv, readable, form.host # 0, StoreId \in Accounts, used' = (IF Known THEN used ELSE StoreId)
    PROVE  /\ Places(list, StoreId, NewEntry)
           /\ Before.hop # StoreId
           /\ form.editing \in DOMAIN list => StoreId = form.editing /\ Before = list[form.editing]
           /\ form.editing \notin DOMAIN list => StoreId \notin DOMAIN list
           /\ form.editing = 0 => StoreId = used + 1
<1>1. /\ StoreId \in Nat /\ StoreId # 0
      /\ \/ StoreId = form.editing /\ form.editing # 0 /\ Known
         \/ StoreId = used + 1 /\ ~Known
      /\ NewEntry.hop = form.hop
      BY StoreFacts
<1>2. used \in Nat /\ form.hop \in Nat /\ form.hop <= used /\ Listing(list, used) /\ Listing(copy, used)
      BY InvParts, FieldsOf DEF FormInv, Fields, ListsInv
<1>3. NowStored = list  BY DEF NowStored, Stored
<1>4. Known <=> form.editing \in DOMAIN list \cup DOMAIN copy  BY <1>3 DEF Known
<1>5. /\ form.hop \notin DOMAIN list /\ form.hop \notin DOMAIN copy
      /\ \A i \in DOMAIN list : form.hop = list[i].hop /\ form.hop # 0 => form.editing = i
      BY InvParts DEF FormInv, FormApart
<1>6. \A i \in DOMAIN list : list[i].hop \in Nat /\ list[i].hop <= used /\ i \in Nat /\ i <= used
      BY <1>2, ProfileOf DEF Listing
<1>7. \A i \in DOMAIN copy : copy[i].hop \in Nat /\ copy[i].hop <= used /\ i \in Nat /\ i <= used
      BY <1>2, ProfileOf DEF Listing
<1>8. form.editing \in DOMAIN list => StoreId = form.editing /\ Before = list[form.editing]
      BY <1>1, <1>3, <1>4 DEF Before
<1>9. form.editing \notin DOMAIN list => StoreId \notin DOMAIN list
      BY <1>1, <1>2, <1>6
<1>10. form.editing = 0 => StoreId = used + 1  BY <1>1
<1>11. form.hop # StoreId  BY <1>1, <1>2, <1>4, <1>5
<1>12. ASSUME NEW i \in DOMAIN list PROVE list[i].hop # StoreId
  <2>1. CASE StoreId = used + 1  BY <2>1, <1>2, <1>6
  <2>2. CASE StoreId = form.editing /\ Known
        BY <2>2, <1>4, InvParts DEF ListsInv, Apart
  <2>. QED  BY <2>1, <2>2, <1>1
<1>13. ASSUME NEW i \in DOMAIN copy PROVE copy[i].hop # StoreId
  <2>1. CASE StoreId = used + 1  BY <2>1, <1>2, <1>7
  <2>2. CASE StoreId = form.editing /\ Known
        BY <2>2, <1>4, InvParts DEF ListsInv, Apart
  <2>. QED  BY <2>1, <2>2, <1>1
<1>14. Before.hop # StoreId
  <2>1. CASE form.editing \in DOMAIN list  BY <2>1, <1>8, <1>12
  <2>2. CASE form.editing \notin DOMAIN list /\ form.editing \in DOMAIN copy
    <3>1. Before = copy[form.editing]  BY <2>2, <1>3 DEF Before
    <3>. QED  BY <3>1, <2>2, <1>13
  <2>3. CASE form.editing \notin DOMAIN list /\ form.editing \notin DOMAIN copy
    <3>1. Before = [saves |-> FALSE, hop |-> 0]  BY <2>3, <1>3 DEF Before
    <3>2. Before.hop = 0  BY <3>1
    <3>. QED  BY <3>2, <1>1
  <2>. QED  BY <2>1, <2>2, <2>3
<1>15. ASSUME NEW i \in DOMAIN list, list[i].hop = NewEntry.hop, NewEntry.hop # 0 PROVE i = StoreId
       BY <1>15, <1>1, <1>5, <1>8
<1>16. Places(list, StoreId, NewEntry)  BY <1>1, <1>5, <1>11, <1>12, <1>15 DEF Places
<1>. QED  BY <1>8, <1>9, <1>10, <1>14, <1>16


\* What the others of a list claim.
OthersClaim(l, id, a) ==
    \E i \in DOMAIN l \ {id} : (a = i /\ l[i].saves) \/ (a = l[i].hop /\ l[i].hopSaves)

LEMMA EnteredClaims ==
    ASSUME NEW l, NEW id, NEW p, NEW a
    PROVE  ClaimedIn(Entered(l, id, p), a) <=>
              (a = id /\ p.saves) \/ (a = p.hop /\ p.hopSaves) \/ OthersClaim(l, id, a)
<1>. DEFINE e == Entered(l, id, p)
<1>1. DOMAIN e = DOMAIN l \cup {id} /\ e[id] = p /\ \A i \in DOMAIN l : i # id => e[i] = l[i]
      BY DEF Entered
<1>. HIDE DEF e
<1>2. ASSUME ClaimedIn(e, a)
      PROVE  (a = id /\ p.saves) \/ (a = p.hop /\ p.hopSaves) \/ OthersClaim(l, id, a)
  <2>. PICK i \in DOMAIN e : (a = i /\ e[i].saves) \/ (a = e[i].hop /\ e[i].hopSaves)
       BY <1>2 DEF ClaimedIn
  <2>1. CASE i = id  BY <2>1, <1>1
  <2>2. CASE i # id
    <3>1. i \in DOMAIN l \ {id} /\ e[i] = l[i]  BY <2>2, <1>1
    <3>. QED  BY <3>1 DEF OthersClaim
  <2>. QED  BY <2>1, <2>2
<1>3. ASSUME (a = id /\ p.saves) \/ (a = p.hop /\ p.hopSaves)
      PROVE  ClaimedIn(e, a)
      BY <1>1, <1>3 DEF ClaimedIn
<1>4. ASSUME OthersClaim(l, id, a) PROVE ClaimedIn(e, a)
  <2>. PICK i \in DOMAIN l \ {id} : (a = i /\ l[i].saves) \/ (a = l[i].hop /\ l[i].hopSaves)
       BY <1>4 DEF OthersClaim
  <2>1. i \in DOMAIN e /\ e[i] = l[i]  BY <1>1
  <2>. QED  BY <2>1 DEF ClaimedIn
<1>5. ClaimedIn(e, a) <=>
              (a = id /\ p.saves) \/ (a = p.hop /\ p.hopSaves) \/ OthersClaim(l, id, a)
      BY <1>2, <1>3, <1>4
<1>. QED  BY <1>5 DEF e

LEMMA ListClaims ==
    ASSUME NEW l, NEW id \in DOMAIN l, NEW a
    PROVE  ClaimedIn(l, a) <=>
              (a = id /\ l[id].saves) \/ (a = l[id].hop /\ l[id].hopSaves) \/ OthersClaim(l, id, a)
<1>1. ASSUME ClaimedIn(l, a)
      PROVE  (a = id /\ l[id].saves) \/ (a = l[id].hop /\ l[id].hopSaves) \/ OthersClaim(l, id, a)
  <2>. PICK i \in DOMAIN l : (a = i /\ l[i].saves) \/ (a = l[i].hop /\ l[i].hopSaves)
       BY <1>1 DEF ClaimedIn
  <2>1. CASE i = id  BY <2>1
  <2>2. CASE i # id  BY <2>2 DEF OthersClaim
  <2>. QED  BY <2>1, <2>2
<1>2. ASSUME (a = id /\ l[id].saves) \/ (a = l[id].hop /\ l[id].hopSaves)
      PROVE  ClaimedIn(l, a)
      BY <1>2 DEF ClaimedIn
<1>3. ASSUME OthersClaim(l, id, a) PROVE ClaimedIn(l, a)  BY <1>3 DEF ClaimedIn, OthersClaim
<1>. QED  BY <1>1, <1>2, <1>3

LEMMA OthersOfNone ==
    ASSUME NEW l, NEW id, id \notin DOMAIN l, NEW a
    PROVE  ClaimedIn(l, a) <=> OthersClaim(l, id, a)
<1>1. DOMAIN l \ {id} = DOMAIN l  OBVIOUS
<1>. QED  BY <1>1 DEF ClaimedIn, OthersClaim

\* A written list and the job that follows it agree, account by account.
LEMMA StoreClaims ==
    ASSUME DialogInv, readable, shown, form.host # 0, StoreId \in Accounts,
           used' = (IF Known THEN used ELSE StoreId), work.at # "waiting",
           NEW j, Plans(j, NewEntry, Before), j.id = StoreId, j.entry \in {"keep", "save", "delete"},
           NEW a \in Accounts, a \notin muddled,
           form.editing \in DOMAIN list \/ form.editing = 0 \/ a \notin {StoreId, Before.hop, form.hop}
    PROVE  /\ a \notin Written(j) => (vault[a] # 0 <=> ClaimedIn(Entered(list, StoreId, NewEntry), a))
           /\ a \in Written(j) => (ClaimedIn(Entered(list, StoreId, NewEntry), a) <=> ToHold(j, a))
<1>. DEFINE id == StoreId
            p == NewEntry
            E == ClaimedIn(Entered(list, id, p), a)
            O == OthersClaim(list, id, a)
            L == ClaimedIn(list, a)
<1>1. /\ id \in Nat /\ id # 0 /\ (id = form.editing \/ id = used + 1)
      /\ p.hop = form.hop /\ p.hopSaves = (form.hopSaves \/ form.hopSecret)
      /\ p \in Profile
      BY StoreFacts
<1>2. /\ used \in Nat /\ form.hop \in Nat /\ form.hop <= used /\ form.hopSaves \in BOOLEAN
      /\ form.hopSecret \in BOOLEAN /\ (form.hop = 0 => ~form.hopSaves /\ ~form.hopSecret)
      /\ (form.editing = 0 => ~form.hopSaves)
      BY InvParts, FieldsOf DEF FormInv, Fields
<1>3. /\ Places(list, id, p) /\ Before.hop # id
      /\ form.editing \in DOMAIN list => id = form.editing /\ Before = list[form.editing]
      /\ form.editing \notin DOMAIN list => id \notin DOMAIN list
      /\ form.editing = 0 => id = used + 1
      BY StorePlaces
<1>4. a \in Nat /\ a # 0  BY DialogBounds
<1>5. E <=> (a = id /\ p.saves) \/ (a = p.hop /\ p.hopSaves) \/ O  BY EnteredClaims
<1>6. form.editing \in DOMAIN list =>
        (L <=> (a = id /\ Before.saves) \/ (a = Before.hop /\ Before.hopSaves) \/ O)
      BY <1>3, ListClaims
<1>7. form.editing \notin DOMAIN list => (L <=> O)  BY <1>3, OthersOfNone
<1>8. vault[a] # 0 <=> L
  <2>1. a \notin Due(strays \cup {work})
    <3>1. ASSUME NEW k \in strays \cup {work}, k.at = "waiting" PROVE a \notin Written(k)
          BY <3>1, InvParts DEF JobsInv, Stray
    <3>. QED  BY <3>1, DueIs
  <2>. QED  BY <2>1, InvParts DEF AgreeInv, Agree
\* Nobody else claims the account of the profile, or of its jump host.
<1>9. a = id => ~O
  <2>1. \A i \in DOMAIN list : list[i].hop # id  BY <1>3 DEF Places
  <2>. QED  BY <2>1 DEF OthersClaim
<1>10. a = p.hop => ~O
  <2>1. p.hop \notin DOMAIN list /\ \A i \in DOMAIN list : list[i].hop = p.hop /\ p.hop # 0 => i = id
        BY <1>3 DEF Places
  <2>. QED  BY <2>1, <1>4 DEF OthersClaim
<1>11. form.editing \in DOMAIN list /\ a = Before.hop => ~O
  <2>. SUFFICES ASSUME form.editing \in DOMAIN list, a = Before.hop PROVE ~O
       OBVIOUS
  <2>1. Before = list[id] /\ id \in DOMAIN list  BY <1>3
  <2>2. a \notin DOMAIN list /\ \A i \in DOMAIN list : list[i].hop = a => i = id
        BY <2>1, <1>4, InvParts DEF ListsInv, Apart
  <2>. QED  BY <2>2 DEF OthersClaim
<1>12. p.hop # id  BY <1>3 DEF Places
<1>13. /\ (j.entry = "save" => p.saves) /\ (j.entry = "delete" => ~p.saves)
       /\ (j.entry = "keep" => (p.saves <=> Before.saves))
       /\ j.hopSave = (IF form.hopSecret THEN form.hop ELSE 0)
       /\ j.hopDelete = (IF Before.hop # p.hop THEN Before.hop ELSE 0)
       BY DEF Plans
<1>14. a \in Written(j) <=> (a = id /\ j.entry # "keep") \/ a = j.hopSave \/ a = j.hopDelete
       BY <1>4 DEF Written
<1>15. ToHold(j, a) <=> (a = id /\ j.entry = "save") \/ a = j.hopSave  BY DEF ToHold
<1>16. form.editing \notin DOMAIN list /\ form.editing = 0 => ~Before.saves /\ Before.hop = 0 /\ id \notin DOMAIN list
  <2>. SUFFICES ASSUME form.editing \notin DOMAIN list, form.editing = 0
                PROVE ~Before.saves /\ Before.hop = 0
       BY <1>3
  <2>1. 0 \notin DOMAIN copy  BY InvParts DEF ListsInv, Listing
  <2>2. NowStored = list  BY DEF NowStored, Stored
  <2>3. Before = [saves |-> FALSE, hop |-> 0]  BY <2>1, <2>2 DEF Before
  <2>. QED  BY <2>3
<1>17. form.editing \in DOMAIN list /\ a = form.hop /\ ~form.hopSecret =>
         (form.hopSaves <=> a = Before.hop /\ Before.hopSaves)
  <2>1. Ticks(form, list, muddled)  BY InvParts DEF ReadInv
  <2>. QED  BY <2>1, <1>3, <1>4 DEF Ticks
<1>18. CASE a = id
  <2>1. E <=> p.saves  BY <1>18, <1>5, <1>9, <1>12
  <2>2. a # j.hopSave /\ a # j.hopDelete  BY <1>18, <1>12, <1>13, <1>1, <1>3
  <2>3. form.editing \in DOMAIN list => (L <=> Before.saves)  BY <1>18, <1>6, <1>9, <1>3
  <2>4. form.editing = 0 => ~L /\ ~Before.saves
    <3>. SUFFICES ASSUME form.editing = 0 PROVE ~L /\ ~Before.saves
         OBVIOUS
    <3>1. 0 \notin DOMAIN list  BY InvParts DEF ListsInv, Listing
    <3>. QED  BY <3>1, <1>7, <1>9, <1>16, <1>18
  <2>5. form.editing \in DOMAIN list \/ form.editing = 0  BY <1>18
  <2>6. j.entry = "keep" => (E <=> L)  BY <2>1, <2>3, <2>4, <2>5, <1>13
  <2>7. a \in Written(j) <=> j.entry # "keep"  BY <1>14, <1>18, <2>2
  <2>8. ToHold(j, a) <=> j.entry = "save"  BY <1>15, <1>18, <2>2
  <2>9. j.entry # "keep" => (E <=> j.entry = "save")  BY <2>1, <1>13
  <2>. QED  BY <2>6, <2>7, <2>8, <2>9, <1>8
<1>19. CASE a # id /\ a = form.hop
  <2>1. E <=> form.hopSaves \/ form.hopSecret  BY <1>19, <1>1, <1>5, <1>10
  <2>2. a # j.hopDelete  BY <1>19, <1>13, <1>1, <1>4
  <2>3. a = j.hopSave <=> form.hopSecret  BY <1>19, <1>13, <1>4
  <2>4. a \in Written(j) <=> form.hopSecret  BY <1>14, <1>19, <2>2, <2>3
  <2>5. ToHold(j, a) <=> form.hopSecret  BY <1>15, <1>19, <2>3
  <2>6. ~form.hopSecret => (E <=> L)
    <3>. SUFFICES ASSUME ~form.hopSecret PROVE E <=> L
         OBVIOUS
    <3>1. CASE form.editing \in DOMAIN list
      <4>1. L <=> (a = Before.hop /\ Before.hopSaves)
            BY <3>1, <1>6, <1>10, <1>1, <1>19
      <4>2. form.hopSaves <=> (a = Before.hop /\ Before.hopSaves)  BY <3>1, <1>17, <1>19
      <4>. QED  BY <4>1, <4>2, <2>1
    <3>2. CASE form.editing \notin DOMAIN list
      <4>1. form.editing = 0  BY <3>2, <1>19
      <4>2. ~form.hopSaves  BY <4>1, <1>2
      <4>3. ~L  BY <3>2, <1>7, <1>10, <1>1, <1>19
      <4>. QED  BY <4>2, <4>3, <2>1
    <3>. QED  BY <3>1, <3>2
  <2>. QED  BY <2>1, <2>4, <2>5, <2>6, <1>8
<1>20. CASE a # id /\ a # form.hop
  <2>1. E <=> O  BY <1>20, <1>1, <1>5
  <2>2. a # j.hopSave  BY <1>20, <1>13, <1>4
  <2>3. a \in Written(j) <=> a = j.hopDelete  BY <1>14, <1>20, <2>2
  <2>4. ~ToHold(j, a)  BY <1>15, <1>20, <2>2
  <2>5. a = j.hopDelete <=> a = Before.hop  BY <1>20, <1>13, <1>1, <1>4
  <2>6. CASE form.editing \in DOMAIN list
    <3>1. a = Before.hop => ~E  BY <2>6, <1>11, <2>1
    <3>2. a # Before.hop => (L <=> O)  BY <2>6, <1>6, <1>20
    <3>. QED  BY <3>1, <3>2, <2>1, <2>3, <2>4, <2>5, <1>8
  <2>7. CASE form.editing \notin DOMAIN list
    <3>1. a # Before.hop
      <4>1. CASE form.editing = 0  BY <4>1, <2>7, <1>16, <1>4
      <4>2. CASE form.editing # 0  BY <4>2, <2>7
      <4>. QED  BY <4>1, <4>2
    <3>. QED  BY <3>1, <2>1, <2>3, <2>5, <2>7, <1>7, <1>8
  <2>. QED  BY <2>6, <2>7
<1>. QED  BY <1>18, <1>19, <1>20


\* What store_form has done before it hands the work over.
Storing(wrote) ==
    /\ form.host # 0 /\ shown /\ work = NoWork
    /\ StoreId \in Accounts /\ used' = (IF Known THEN used ELSE StoreId)
    /\ copy' = (IF readable THEN Entered(list, StoreId, NewEntry) ELSE copy)
    /\ wrote \in {readable, FALSE}
    /\ list' = (IF wrote THEN copy' ELSE list)
    /\ muddled' = muddled \cup MuddledBy(wrote)
    /\ UNCHANGED <<readable, vault, strays>>

LEMMA StoringCases ==
    ASSUME DialogInv, NEW wrote, Storing(wrote)
    PROVE  \/ readable /\ wrote /\ list' = Entered(list, StoreId, NewEntry) /\ copy' = list'
              /\ (form.editing \in DOMAIN list \/ form.editing = 0
                  \/ {StoreId, Before.hop, form.hop} \ {0} \subseteq muddled')
           \/ readable /\ ~wrote /\ list' = list /\ copy' = Entered(list, StoreId, NewEntry)
              /\ {StoreId, Before.hop, form.hop} \ {0} \subseteq muddled'
           \/ ~readable /\ ~wrote /\ list' = list /\ copy' = copy /\ muddled' = muddled
<1>0. NowStored = IF readable THEN list ELSE << >>  BY DEF NowStored, Stored
<1>1. CASE readable /\ wrote
  <2>1. list' = Entered(list, StoreId, NewEntry) /\ copy' = list'  BY <1>1 DEF Storing
  <2>2. form.editing \in DOMAIN list \/ form.editing = 0
        \/ {StoreId, Before.hop, form.hop} \ {0} \subseteq muddled'
        BY <1>0, <1>1 DEF Storing, MuddledBy
  <2>. QED  BY <1>1, <2>1, <2>2
<1>2. CASE readable /\ ~wrote  BY <1>2 DEF Storing, MuddledBy
<1>3. CASE ~readable
  <2>1. ~wrote  BY <1>3 DEF Storing
  <2>2. MuddledBy(wrote) = {}  BY <1>3 DEF MuddledBy
  <2>. QED  BY <1>3, <2>1, <2>2 DEF Storing
<1>. QED  BY <1>1, <1>2, <1>3

LEMMA StoringMuddles ==
    ASSUME DialogInv, NEW wrote, Storing(wrote)
    PROVE  /\ muddled \subseteq muddled' /\ muddled' \subseteq 1 .. used'
           /\ used' \in 0 .. MaxAccounts /\ used <= used' /\ used' \in Nat /\ used \in Nat
           /\ StoreId \in Nat /\ StoreId # 0 /\ StoreId <= used'
<1>1. /\ StoreId \in Nat /\ StoreId # 0 /\ used' \in 0 .. MaxAccounts /\ used <= used' /\ StoreId <= used'
      /\ Before.hop \in Nat /\ Before.hop <= used
      BY StoreFacts DEF Storing
<1>2. used \in Nat /\ used' \in Nat /\ form.hop \in Nat /\ form.hop <= used
      BY <1>1, InvParts, FieldsOf, DialogBounds DEF FormInv, Fields
<1>3. {StoreId, Before.hop, form.hop} \ {0} \subseteq 1 .. used'  BY <1>1, <1>2
<1>4. MuddledBy(wrote) \subseteq 1 .. used'  BY <1>3 DEF MuddledBy
<1>5. muddled \subseteq 1 .. used'  BY <1>1, <1>2, InvParts DEF VaultInv
<1>. QED  BY <1>1, <1>2, <1>4, <1>5 DEF Storing

\* Account by account, what is stored and what the job is to write agree.
LEMMA StoreHolds ==
    ASSUME DialogInv, NEW wrote, Storing(wrote), NEW after \in {"stay", "connect"}, NEW j, j = JobOf(after, wrote),
           NEW a \in Accounts, a \notin muddled'
    PROVE  /\ a \notin Written(j) => (vault[a] # 0 <=> ClaimedIn(list', a))
           /\ a \in Written(j) => (ClaimedIn(list', a) <=> ToHold(j, a))
<1>1. /\ j.id = StoreId /\ j.entry \in {"keep", "save", "delete"}
      /\ (readable => Plans(j, NewEntry, Before))
      /\ (~readable => j.entry = "keep" /\ j.hopSave = 0 /\ j.hopDelete = 0)
      BY JobIs DEF Storing
<1>2. a \notin muddled /\ a # 0 /\ work.at # "waiting"
      BY StoringMuddles, DialogBounds DEF Storing, NoWork
<1>3. vault[a] # 0 <=> ClaimedIn(list, a)
  <2>1. a \notin Due(strays \cup {work})
    <3>1. ASSUME NEW k \in strays \cup {work}, k.at = "waiting" PROVE a \notin Written(k)
          BY <3>1, <1>2, InvParts DEF JobsInv, Stray
    <3>. QED  BY <3>1, DueIs
  <2>. QED  BY <2>1, <1>2, InvParts DEF AgreeInv, Agree
<1>4. CASE readable /\ wrote
  <2>1. list' = Entered(list, StoreId, NewEntry)  BY <1>4, StoringCases
  <2>2. form.editing \in DOMAIN list \/ form.editing = 0 \/ a \notin {StoreId, Before.hop, form.hop}
        BY <1>4, StoringCases, <1>2
  <2>3. Plans(j, NewEntry, Before)  BY <1>1, <1>4
  <2>4. /\ form.host # 0 /\ shown /\ StoreId \in Accounts /\ readable
        /\ used' = (IF Known THEN used ELSE StoreId)
        BY <1>4 DEF Storing
  <2>5. /\ a \notin Written(j) => (vault[a] # 0 <=> ClaimedIn(Entered(list, StoreId, NewEntry), a))
        /\ a \in Written(j) => (ClaimedIn(Entered(list, StoreId, NewEntry), a) <=> ToHold(j, a))
        BY <1>1, <1>2, <2>2, <2>3, <2>4, StoreClaims
  <2>. QED  BY <2>1, <2>5
<1>5. CASE readable /\ ~wrote
  <2>1. list' = list /\ {StoreId, Before.hop, form.hop} \ {0} \subseteq muddled'
        BY <1>5, StoringCases
  <2>2. a \notin Written(j)
    <3>1. j.hopSave \in {0, form.hop} /\ j.hopDelete \in {0, Before.hop}  BY <1>1, <1>5 DEF Plans
    <3>2. Written(j) \subseteq {StoreId, Before.hop, form.hop}  BY <3>1, <1>1 DEF Written
    <3>. QED  BY <3>2, <2>1, <1>2
  <2>. QED  BY <2>1, <2>2, <1>3
<1>6. CASE ~readable
  <2>1. list' = list  BY <1>6, StoringCases
  <2>2. Written(j) = {}  BY <1>1, <1>6 DEF Written
  <2>. QED  BY <2>1, <2>2, <1>3
<1>. QED  BY <1>4, <1>5, <1>6

LEMMA StoreFits ==
    ASSUME DialogInv, NEW wrote, Storing(wrote), NEW after \in {"stay", "connect"}, NEW j, j = JobOf(after, wrote)
    PROVE  Fits(j, list', muddled')
<1>1. /\ Carries(j, used') /\ j.id = StoreId
      /\ (readable => Plans(j, NewEntry, Before))
      /\ (~readable => j.hopSave = 0 /\ j.hopDelete = 0)
      BY JobIs DEF Storing
<1>2. used' \in Nat /\ used' <= MaxAccounts /\ StoreId # 0  BY StoringMuddles, DialogBounds
<1>3. Written(j) \subseteq 1 .. used'  BY <1>1, <1>2, WrittenAre
<1>4. ASSUME NEW a \in Written(j) \ muddled'
      PROVE  ClaimedIn(list', a) <=> (a = j.id /\ j.entry = "save") \/ a = j.hopSave
  <2>1. a \in Accounts  BY <1>2, <1>3, DialogBounds
  <2>2. ClaimedIn(list', a) <=> ToHold(j, a)  BY <2>1, StoreHolds
  <2>. QED  BY <2>2 DEF ToHold
<1>5. j.id \notin {j.hopSave, j.hopDelete} /\ (j.hopSave = j.hopDelete => j.hopSave = 0)
  <2>1. CASE readable
    <3>1. Places(list, StoreId, NewEntry) /\ Before.hop # StoreId  BY <2>1, StorePlaces DEF Storing
    <3>2. NewEntry.hop = form.hop  BY StoreFacts DEF Storing
    <3>3. form.hop # StoreId  BY <3>1, <3>2 DEF Places
    <3>. QED  BY <2>1, <1>1, <1>2, <3>1, <3>2, <3>3 DEF Plans
  <2>2. CASE ~readable  BY <2>2, <1>1, <1>2
  <2>. QED  BY <2>1, <2>2
<1>. QED  BY <1>1, <1>2, <1>4, <1>5 DEF Fits

LEMMA StoreLists ==
    ASSUME DialogInv, NEW wrote, Storing(wrote)
    PROVE  ListsInv'
<1>1. /\ used' \in 0 .. MaxAccounts /\ used <= used' /\ used' \in Nat /\ used \in Nat
      /\ StoreId \in 1 .. used'
      BY StoringMuddles
<1>2. Listing(list, used') /\ Listing(copy, used')  BY <1>1, GrownLists, InvParts DEF ListsInv
<1>3. CASE ~readable  BY <1>1, <1>2, <1>3, StoringCases, InvParts DEF ListsInv
<1>4. CASE readable
  <2>. DEFINE e == Entered(list, StoreId, NewEntry)
  <2>1. /\ NewEntry \in Profile /\ NewEntry.hop = form.hop /\ (NewEntry.hop = 0 => ~NewEntry.hopSaves)
        BY StoreFacts DEF Storing
  <2>2. form.hop \in Nat /\ form.hop <= used  BY <1>1, InvParts, FieldsOf DEF FormInv, Fields
  <2>3. NewEntry.hop <= used'  BY <1>1, <2>1, <2>2
  <2>4. Listing(e, used')  BY <1>1, <2>1, <2>3, EnteredLists, InvParts DEF ListsInv
  <2>5. Places(list, StoreId, NewEntry)  BY <1>4, StorePlaces DEF Storing
  <2>6. Apart(e, e) /\ Apart(e, list) /\ Apart(list, e) /\ Apart(list, list)
        BY <2>5, EnteredApart, InvParts DEF ListsInv
  <2>. HIDE DEF e
  <2>7. copy' = e /\ list' \in {list, e}  BY <1>4, StoringCases DEF e
  <2>. QED  BY <1>1, <1>2, <2>4, <2>6, <2>7 DEF ListsInv
<1>. QED  BY <1>3, <1>4

LEMMA StoredFormIs ==
    ASSUME DialogInv, NEW wrote, Storing(wrote)
    PROVE  /\ Fields(StoredForm, used') /\ StoredForm.editing = StoreId /\ StoredForm.hop = form.hop
           /\ StoredForm.hopSaves = form.hopSaves /\ StoredForm.hopSecret = form.hopSecret
<1>1. /\ used' \in Nat /\ used \in Nat /\ used <= used' /\ StoreId \in Nat /\ StoreId # 0 /\ StoreId <= used'
      BY StoringMuddles
<1>2. TypedFor \in {0, StoreId}  BY StoreFacts DEF Storing
<1>3. Fields(form, used) /\ form \in FormFields /\ form.hop \in Nat /\ form.hop <= used
      BY <1>1, FieldsOf, InvParts DEF FormInv, Fields
<1>. PICK n \in Nat, t \in Nat : n = StoreId /\ t = TypedFor  BY <1>1, <1>2
<1>4. StoredForm = [form EXCEPT !.editing = n, !.secret = t]  BY DEF StoredForm
<1>5. /\ StoredForm \in FormFields /\ StoredForm.editing = n /\ StoredForm.secret = t
      /\ StoredForm.host = form.host /\ StoredForm.hop = form.hop
      /\ StoredForm.hopSaves = form.hopSaves /\ StoredForm.hopSecret = form.hopSecret
      BY <1>3, <1>4 DEF FormFields
<1>6. form.hop = 0 => ~form.hopSaves /\ ~form.hopSecret  BY <1>3 DEF Fields
<1>7. Fields(StoredForm, used')  BY <1>1, <1>2, <1>3, <1>5, <1>6 DEF Fields
<1>. QED  BY <1>5, <1>7

LEMMA StoreApart ==
    ASSUME DialogInv, NEW wrote, Storing(wrote)
    PROVE  /\ FormApart(StoredForm, list') /\ FormApart(StoredForm, copy')
           /\ StoreId \in DOMAIN list' => StoreId \in DOMAIN copy'
<1>1. StoredForm.editing = StoreId /\ StoredForm.hop = form.hop  BY StoredFormIs
<1>2. FormApart(form, list) /\ FormApart(form, copy) /\ (form.editing \in DOMAIN list => form.editing \in DOMAIN copy)
      BY InvParts DEF FormInv
<1>3. /\ StoreId \in Nat /\ StoreId # 0
      /\ (StoreId = form.editing /\ Known) \/ (StoreId = used + 1 /\ ~Known)
      /\ NewEntry.hop = form.hop
      BY StoreFacts DEF Storing
<1>4. used \in Nat /\ Listing(list, used) /\ Listing(copy, used)  BY InvParts DEF ListsInv
<1>5. used + 1 \notin DOMAIN list  BY <1>4 DEF Listing
<1>6. CASE ~readable
  <2>1. list' = list /\ copy' = copy  BY <1>6, StoringCases
  <2>2. Known <=> form.editing \in DOMAIN copy  BY <1>6 DEF Known, NowStored
  <2>3. form.hop \notin DOMAIN list /\ form.hop \notin DOMAIN copy  BY <1>2 DEF FormApart
  <2>4. ASSUME NEW l \in {list, copy}, NEW i \in DOMAIN l, form.hop = l[i].hop, form.hop # 0
        PROVE  StoreId = i
    <3>1. form.editing = i  BY <2>4, <1>2 DEF FormApart
    <3>2. form.editing \in DOMAIN copy  BY <3>1, <2>4, <1>2
    <3>. QED  BY <3>1, <3>2, <2>2, <1>3
  <2>5. FormApart(StoredForm, list) /\ FormApart(StoredForm, copy)
        BY <1>1, <2>3, <2>4 DEF FormApart
  <2>. QED  BY <2>1, <2>2, <2>5, <1>2, <1>3, <1>5
<1>7. CASE readable
  <2>. DEFINE e == Entered(list, StoreId, NewEntry)
  <2>1. Places(list, StoreId, NewEntry)  BY <1>7, StorePlaces DEF Storing
  <2>2. FormApart(StoredForm, list)
    <3>1. form.hop \notin DOMAIN list  BY <1>2 DEF FormApart
    <3>2. \A i \in DOMAIN list : form.hop = list[i].hop /\ form.hop # 0 => StoreId = i
          BY <2>1, <1>3 DEF Places
    <3>. QED  BY <1>1, <3>1, <3>2 DEF FormApart
  <2>3. StoredForm.hop # StoreId  BY <1>1, <1>3, <2>1 DEF Places
  <2>4. FormApart(StoredForm, e)  BY <1>1, <2>2, <2>3, FormApartEntered
  <2>5. StoreId \in DOMAIN e  BY DEF Entered
  <2>. HIDE DEF e
  <2>6. copy' = e /\ list' \in {list, e}  BY <1>7, StoringCases DEF e
  <2>. QED  BY <2>2, <2>4, <2>5, <2>6
<1>. QED  BY <1>6, <1>7

LEMMA StoreReads ==
    ASSUME DialogInv, NEW wrote, Storing(wrote)
    PROVE  CopiedFrom(list', copy', muddled') /\ Ticks(StoredForm, list', muddled')
<1>1. /\ StoredForm.editing = StoreId /\ StoredForm.hop = form.hop
      /\ StoredForm.hopSaves = form.hopSaves /\ StoredForm.hopSecret = form.hopSecret
      BY StoredFormIs
<1>2. /\ NewEntry.hop = form.hop /\ NewEntry.hopSaves = (form.hopSaves \/ form.hopSecret)
      /\ (StoreId = form.editing \/ StoreId = used + 1)
      BY StoreFacts DEF Storing
<1>. DEFINE e == Entered(list, StoreId, NewEntry)
<1>3. DOMAIN e = DOMAIN list \cup {StoreId} /\ e[StoreId] = NewEntry
      /\ \A i \in DOMAIN list : i # StoreId => e[i] = list[i]
      BY DEF Entered
<1>4. muddled \subseteq muddled'  BY StoringMuddles
<1>. HIDE DEF e
<1>5. CASE ~readable
  <2>1. list' = list /\ copy' = copy /\ muddled' = muddled  BY <1>5, StoringCases
  <2>2. Ticks(form, list, muddled) /\ CopiedFrom(list, copy, muddled)  BY InvParts DEF ReadInv, Storing
  <2>3. used + 1 \notin DOMAIN list  BY InvParts DEF ListsInv, Listing
  <2>4. Ticks(StoredForm, list, muddled)  BY <1>1, <1>2, <2>2, <2>3 DEF Ticks
  <2>. QED  BY <2>1, <2>2, <2>4
<1>6. CASE readable /\ wrote
  <2>1. list' = e /\ copy' = list'  BY <1>6, StoringCases DEF e
  <2>2. CopiedFrom(list', copy', muddled')  BY <2>1, CopiedWhenEqual
  <2>3. Ticks(StoredForm, list', muddled')
    <3>1. form.hopSaves \in BOOLEAN /\ form.hopSecret \in BOOLEAN
          BY InvParts, FieldsOf DEF FormInv
    <3>. QED  BY <1>1, <1>2, <1>3, <2>1, <3>1 DEF Ticks
  <2>. QED  BY <2>2, <2>3
<1>7. CASE readable /\ ~wrote
  <2>1. list' = list /\ copy' = e /\ {StoreId, Before.hop, form.hop} \ {0} \subseteq muddled'
        BY <1>7, StoringCases DEF e
  <2>2. ASSUME NEW i \in DOMAIN list'
        PROVE  copy'[i] = list'[i] \/ {i} \cup Own(list'[i]) \cup Own(copy'[i]) \subseteq muddled'
    <3>1. CASE i # StoreId  BY <3>1, <2>1, <1>3
    <3>2. CASE i = StoreId
      <4>1. form.editing \in DOMAIN list /\ Before = list[i]
        <5>1. /\ form.editing \in DOMAIN list => StoreId = form.editing /\ Before = list[form.editing]
              /\ form.editing \notin DOMAIN list => StoreId \notin DOMAIN list
              BY <1>7, StorePlaces DEF Storing
        <5>. QED  BY <5>1, <2>1, <3>2
      <4>2. copy'[i].hop = form.hop /\ list'[i].hop = Before.hop
            BY <4>1, <3>2, <2>1, <1>2, <1>3
      <4>3. Own(list'[i]) = {Before.hop} \ {0} /\ Own(copy'[i]) = {form.hop} \ {0}
            BY <4>2 DEF Own
      <4>4. StoreId # 0  BY StoringMuddles
      <4>. QED  BY <4>3, <4>4, <2>1, <3>2
    <3>. QED  BY <3>1, <3>2
  <2>3. CopiedFrom(list', copy', muddled')  BY <2>2 DEF CopiedFrom
  <2>4. Ticks(StoredForm, list', muddled')  BY <1>1, <2>1 DEF Ticks
  <2>. QED  BY <2>3, <2>4
<1>. QED  BY <1>5, <1>6, <1>7


LEMMA SubmitStores ==
    ASSUME DialogInv, Submit
    PROVE  \E after \in {"stay", "connect"} : \E wrote : 
              /\ Storing(wrote)
              /\ IF Nothing(JobOf(after, wrote))
                 THEN Finish(JobOf(after, wrote), StoredForm)
                 ELSE /\ work' = JobOf(after, wrote) /\ form' = StoredForm
                      /\ asked' = (IF after = "connect" THEN StoreId ELSE 0)
                      /\ opened' = NoSession /\ UNCHANGED <<shown, question, subject>>
<1>1. PICK after \in {"stay", "connect"} : Store(after)  BY DEF Submit
<1>2. StoreAs(after)  BY <1>1, StoreIs
<1>3. form.host # 0 /\ shown /\ work = NoWork  BY DEF Submit, Free
<1>4. PICK wrote \in {readable, FALSE} :
          /\ list' = (IF wrote THEN copy' ELSE list)
          /\ muddled' = muddled \cup MuddledBy(wrote)
          /\ IF Nothing(JobOf(after, wrote))
             THEN Finish(JobOf(after, wrote), StoredForm)
             ELSE /\ work' = JobOf(after, wrote) /\ form' = StoredForm
                  /\ asked' = (IF after = "connect" THEN StoreId ELSE 0)
                  /\ opened' = NoSession /\ UNCHANGED <<shown, covers>>
      BY <1>2, Zenon DEF StoreAs
<1>5. Storing(wrote)  BY <1>2, <1>3, <1>4 DEF StoreAs, Storing, Stored
<1>6. IF Nothing(JobOf(after, wrote))
      THEN Finish(JobOf(after, wrote), StoredForm)
      ELSE /\ work' = JobOf(after, wrote) /\ form' = StoredForm
           /\ asked' = (IF after = "connect" THEN StoreId ELSE 0)
           /\ opened' = NoSession /\ UNCHANGED <<shown, question, subject>>
      BY <1>4 DEF covers
<1>. QED  BY <1>5, <1>6

\* A stored form whose work is nothing, or waits.
LEMMA SubmitEnds ==
    ASSUME DialogInv, NEW after \in {"stay", "connect"}, NEW wrote, Storing(wrote), NEW j, j = JobOf(after, wrote),
           IF Nothing(j)
           THEN Finish(j, StoredForm)
           ELSE /\ work' = j /\ form' = StoredForm
                /\ asked' = (IF after = "connect" THEN StoreId ELSE 0)
                /\ opened' = NoSession /\ UNCHANGED <<shown, question, subject>>
    PROVE  /\ \/ work' = NoWork /\ Written(j) = {}
              \/ work' = j /\ (j.after = "connect" => asked' = j.id)
           /\ opened'.secret \in {0, opened'.profile}
           /\ \/ form' = StoredForm /\ shown' = shown
              \/ form' = Cleared(StoredForm) /\ shown' = FALSE
           /\ (question' = question /\ subject' = subject) \/ question' = "none"
<1>1. Carries(j, used') /\ j.id = StoreId /\ j.after = after
      BY JobIs DEF Storing
<1>2. CASE Nothing(j)
  <2>1. Finish(j, StoredForm)  BY <1>2
  <2>2. /\ work' = NoWork
        /\ \/ j.after = "stay" /\ opened' = NoSession
           \/ j.after # "stay" /\ opened'.profile = j.id /\ opened'.secret = j.secret
        /\ \/ form' = StoredForm /\ shown' = shown
           \/ form' = Cleared(StoredForm) /\ shown' = FALSE
        /\ \/ question' = question /\ subject' = subject
           \/ question' = "none"
        BY <2>1, FinishIs
  <2>3. Written(j) = {}  BY <1>2 DEF Nothing, Written
  <2>4. opened'.secret \in {0, opened'.profile}  BY <1>1, <2>2 DEF Carries, NoSession
  <2>. QED  BY <2>2, <2>3, <2>4
<1>3. CASE ~Nothing(j)
  <2>1. /\ work' = j /\ form' = StoredForm
        /\ asked' = (IF after = "connect" THEN StoreId ELSE 0)
        /\ opened' = NoSession /\ UNCHANGED <<shown, question, subject>>
        BY <1>3
  <2>2. j.after = "connect" => asked' = j.id  BY <1>1, <2>1
  <2>3. opened'.secret \in {0, opened'.profile}  BY <2>1 DEF NoSession
  <2>. QED  BY <2>1, <2>2, <2>3
<1>. QED  BY <1>2, <1>3

LEMMA SubmitStep ==
    ASSUME DialogInv, Submit
    PROVE  DialogInv'
<1>. PICK after \in {"stay", "connect"} : \E wrote :
              /\ Storing(wrote)
              /\ IF Nothing(JobOf(after, wrote))
                 THEN Finish(JobOf(after, wrote), StoredForm)
                 ELSE /\ work' = JobOf(after, wrote) /\ form' = StoredForm
                      /\ asked' = (IF after = "connect" THEN StoreId ELSE 0)
                      /\ opened' = NoSession /\ UNCHANGED <<shown, question, subject>>
     BY SubmitStores
<1>. PICK wrote :
              /\ Storing(wrote)
              /\ IF Nothing(JobOf(after, wrote))
                 THEN Finish(JobOf(after, wrote), StoredForm)
                 ELSE /\ work' = JobOf(after, wrote) /\ form' = StoredForm
                      /\ asked' = (IF after = "connect" THEN StoreId ELSE 0)
                      /\ opened' = NoSession /\ UNCHANGED <<shown, question, subject>>
     OBVIOUS
<1>. DEFINE j == JobOf(after, wrote)
<1>1. /\ \/ work' = NoWork /\ Written(j) = {}
         \/ work' = j /\ (j.after = "connect" => asked' = j.id)
      /\ opened'.secret \in {0, opened'.profile}
      /\ \/ form' = StoredForm /\ shown' = shown
         \/ form' = Cleared(StoredForm) /\ shown' = FALSE
      /\ (question' = question /\ subject' = subject) \/ question' = "none"
      BY SubmitEnds
<1>2. Carries(j, used') /\ j.at = "waiting"  BY JobIs DEF Storing
<1>3. Fits(j, list', muddled')  BY StoreFits
<1>4. /\ muddled \subseteq muddled' /\ muddled' \subseteq 1 .. used'
      /\ used' \in 0 .. MaxAccounts /\ used <= used' /\ used' \in Nat /\ used \in Nat
      BY StoringMuddles
<1>5. \A a \in Accounts : a \notin muddled' =>
         /\ a \notin Written(j) => (vault[a] # 0 <=> ClaimedIn(list', a))
      BY StoreHolds
<1>6. ListsInv'  BY StoreLists
<1>7. /\ Fields(StoredForm, used') /\ StoredForm.editing = StoreId
      BY StoredFormIs
<1>8. /\ FormApart(StoredForm, list') /\ FormApart(StoredForm, copy')
      /\ StoreId \in DOMAIN list' => StoreId \in DOMAIN copy'
      BY StoreApart
<1>9. CopiedFrom(list', copy', muddled') /\ Ticks(StoredForm, list', muddled')  BY StoreReads
<1>10. UNCHANGED <<readable, vault, strays>> /\ work = NoWork  BY DEF Storing
<1>. HIDE DEF j
<1>11. FormInv'
  <2>1. CASE form' = StoredForm  BY <2>1, <1>7, <1>8 DEF FormInv
  <2>2. CASE form' = Cleared(StoredForm)
    <3>1. Fields(form', used') /\ form'.editing = StoreId /\ form'.hop = StoredForm.hop
          BY <2>2, <1>4, <1>7, ClearedIs
    <3>2. FormApart(form', list') /\ FormApart(form', copy')
          BY <3>1, <1>7, <1>8, FormApartSame
    <3>. QED  BY <3>1, <3>2, <1>8 DEF FormInv
  <2>. QED  BY <1>1, <2>1, <2>2
<1>12. JobsInv'
  <2>1. \A k \in strays' : Stray(k, used', muddled')
    <3>1. ASSUME NEW k \in strays PROVE Stray(k, used', muddled')
      <4>1. Stray(k, used, muddled)  BY InvParts DEF JobsInv
      <4>. QED  BY <4>1, <1>4, StrayGrown
    <3>. QED  BY <3>1, <1>10
  <2>2. CASE work' = NoWork  BY <2>1, <2>2, <1>4, NoWorkIs DEF JobsInv
  <2>3. CASE work' = j /\ (j.after = "connect" => asked' = j.id)
        BY <2>1, <2>3, <1>2, <1>3 DEF JobsInv
  <2>. QED  BY <1>1, <2>2, <2>3
<1>13. ReadInv'
  <2>1. shown' => Ticks(form', list', muddled')  BY <1>1, <1>9
  <2>. QED  BY <2>1, <1>9 DEF ReadInv
<1>14. VaultInv'
  <2>1. SecretGoesHome'  BY <1>1, <1>10, InvParts DEF VaultInv, SecretGoesHome
  <2>2. \A a \in Accounts : a > used' => vault'[a] = 0
        BY <1>4, <1>10, DialogBounds, InvParts DEF VaultInv
  <2>. QED  BY <2>1, <2>2, <1>4, <1>10, InvParts DEF VaultInv
<1>15. AgreeInv'
  <2>1. ASSUME NEW a \in Accounts, a \notin muddled', a \notin Due((strays \cup {work})')
        PROVE  vault'[a] # 0 <=> ClaimedIn(list', a)
    <3>1. a \notin Written(j)
      <4>1. CASE Written(j) = {}  BY <4>1
      <4>2. CASE work' = j  BY <4>2, <2>1, <1>2, DueIs
      <4>. QED  BY <1>1, <4>1, <4>2
    <3>. QED  BY <3>1, <2>1, <1>5, <1>10
  <2>. QED  BY <2>1 DEF AgreeInv, Agree
<1>16. CoverInv'  BY <1>1, <1>10, InvParts, FinishedCover
<1>. QED  BY <1>6, <1>11, <1>12, <1>13, <1>14, <1>15, <1>16 DEF DialogInv

LEMMA DialogInit_Inv ==
    ASSUME DialogInit
    PROVE  DialogInv
<1>. DEFINE p == [host |-> 1, agent |-> FALSE, saves |-> TRUE, hop |-> 2, hopSaves |-> TRUE]
<1>1. MaxAccounts \in Nat /\ 2 <= MaxAccounts /\ 1 \in Hosts  BY ConnectionDialogAssumption
<1>2. p \in Profile /\ p.hop = 2 /\ p.saves = TRUE /\ p.hopSaves = TRUE
  <2>. PICK n \in 0 .. MaxAccounts : n = 2  BY <1>1
  <2>. PICK h \in Hosts : h = 1  BY <1>1
  <2>1. [host |-> h, agent |-> FALSE, saves |-> TRUE, hop |-> n, hopSaves |-> TRUE] \in Profile  BY DEF Profile
  <2>2. p = [host |-> h, agent |-> FALSE, saves |-> TRUE, hop |-> n, hopSaves |-> TRUE]  OBVIOUS
  <2>. QED  BY <2>1, <2>2
<1>. HIDE DEF p
<1>3. /\ list = [a \in {1} |-> p] /\ used = 2 /\ readable \in BOOLEAN
      /\ vault = [a \in Accounts |-> IF a \in {1, 2} THEN a ELSE 0]
      /\ copy = (IF readable THEN list ELSE << >>)
      /\ shown = FALSE /\ form = EmptyForm /\ question = "none" /\ subject = 0
      /\ work = NoWork /\ strays = {} /\ opened = NoSession /\ asked = 0 /\ muddled = {}
      BY DEF DialogInit, p
<1>4. DOMAIN list = {1} /\ list[1] = p  BY <1>3
<1>5. (DOMAIN copy = {1} /\ copy[1] = p) \/ DOMAIN copy = {}
  <2>1. CASE readable  BY <2>1, <1>3, <1>4
  <2>2. CASE ~readable  BY <2>2, <1>3
  <2>. QED  BY <2>1, <2>2
<1>6. ListsInv  BY <1>1, <1>2, <1>3, <1>4, <1>5 DEF ListsInv, Listing, Apart
<1>7. FormInv
  <2>1. used \in Nat  BY <1>3
  <2>. QED  BY <2>1, <1>3, <1>6, EmptyFields, EmptyApart DEF FormInv, ListsInv
<1>8. JobsInv
  <2>1. used \in Nat  BY <1>3
  <2>. QED  BY <2>1, <1>3, NoWorkIs DEF JobsInv
<1>9. ReadInv
  <2>1. \A i \in DOMAIN list \cap DOMAIN copy : copy[i] = list[i]  BY <1>4, <1>5
  <2>. QED  BY <2>1, <1>3, CopiedWhenEqual DEF ReadInv
<1>10. VaultInv
  <2>1. ASSUME NEW a \in Accounts
        PROVE  vault[a] \in Nat /\ vault[a] \in {0, a} /\ (a > 2 => vault[a] = 0)
        BY <1>3, DialogBounds
  <2>2. vault \in [Accounts -> Nat]  BY <1>3, <2>1
  <2>3. SecretGoesHome  BY <1>3, <2>1 DEF SecretGoesHome, NoSession
  <2>. QED  BY <1>3, <2>1, <2>2, <2>3 DEF VaultInv
<1>11. AgreeInv
  <2>1. ASSUME NEW a \in Accounts PROVE vault[a] # 0 <=> ClaimedIn(list, a)
    <3>1. ClaimedIn(list, a) <=> a = 1 \/ a = 2  BY <1>2, <1>4 DEF ClaimedIn
    <3>2. vault[a] # 0 <=> a = 1 \/ a = 2  BY <1>3, DialogBounds
    <3>. QED  BY <3>1, <3>2
  <2>. QED  BY <2>1 DEF AgreeInv, Agree
<1>12. CoverInv  BY <1>3 DEF CoverInv
<1>. QED  BY <1>6, <1>7, <1>8, <1>9, <1>10, <1>11, <1>12 DEF DialogInv


LEMMA DialogNext_Inv ==
    ASSUME DialogInv, DialogNext
    PROVE  DialogInv'
<1>1. CASE Submit  BY <1>1, SubmitStep
<1>2. CASE KeychainAnswers  BY <1>2, KeychainAnswersStep
<1>3. CASE opened' = NoSession /\ (KeychainRuns \/ StrayRuns \/ ConfirmDelete \/ Duplicate \/ ConfirmImport)
      BY <1>3, KeychainRunsStep, StrayRunsStep, ConfirmDeleteStep, DuplicateStep, ConfirmImportStep
<1>4. CASE opened' = NoSession /\ (ElsewhereAdds \/ ElsewhereDeletes \/ FileTurns)
      BY <1>4, ElsewhereAddsStep, ElsewhereDeletesStep, FileTurnsStep
<1>5. CASE opened' = NoSession /\ (Open \/ Select \/ StepBack \/ AskDelete \/ OpenImport)
      BY <1>5, OpenStep, SelectStep, CoverSteps
<1>6. CASE opened' = NoSession /\ (Dismiss \/ Discard)
  <2>1. CASE Close  BY <1>6, <2>1, CloseStep
  <2>2. CASE ~Close  BY <1>6, <2>2, CoverSteps DEF Discard
  <2>. QED  BY <2>1, <2>2
<1>7. CASE opened' = NoSession /\ (Edit \/ AddHop)
      BY <1>7, EditStep, AddHopStep
<1>. QED  BY Zenon, <1>1, <1>2, <1>3, <1>4, <1>5, <1>6, <1>7 DEF DialogNext, Elsewhere

LEMMA DialogSound ==
    ASSUME DialogInv
    PROVE  DialogTypes /\ SecretGoesHome /\ KeychainMatchesList
<1>1. DialogTypes
  <2>1. DOMAIN list \cup DOMAIN copy \subseteq Accounts
        BY InvParts, DialogBounds DEF ListsInv, Listing
  <2>2. \A id \in DOMAIN list : list[id] \in Profile  BY InvParts DEF ListsInv, Listing
  <2>3. used \in 0 .. MaxAccounts  BY InvParts DEF ListsInv
  <2>4. form.editing \in 0 .. used /\ form.hop \in 0 .. used
    <3>1. Fields(form, used) /\ used \in Nat  BY InvParts DEF FormInv
    <3>2. form.editing \in Nat /\ form.hop \in Nat  BY <3>1, FieldsOf
    <3>3. form.editing <= used /\ form.hop <= used  BY <3>1 DEF Fields
    <3>. QED  BY <3>1, <3>2, <3>3
  <2>5. work.at \in {"none", "waiting", "ran"} /\ work.told \in BOOLEAN
    <3>1. work \in Job  BY InvParts DEF JobsInv, Carries
    <3>. QED  BY <3>1 DEF Job
  <2>6. question \in {"none", "discard", "delete", "import"}  BY InvParts DEF CoverInv
  <2>. QED  BY <2>1, <2>2, <2>3, <2>4, <2>5, <2>6 DEF DialogTypes
<1>2. SecretGoesHome  BY InvParts DEF VaultInv
<1>3. KeychainMatchesList
  <2>1. ASSUME NEW a \in Accounts, a \notin muddled, a \notin Reached(strays \cup {work})
        PROVE  vault[a] # 0 <=> Claimed(a)
    <3>1. ASSUME NEW j \in strays \cup {work}, j.at = "waiting" PROVE a \notin Written(j)
      <4>1. a \notin Touched(j)  BY <2>1, <3>1, ReachedIs
      <4>2. Carries(j, used) /\ j.id # 0  BY <3>1, InvParts DEF JobsInv, Fits, Stray
      <4>3. Written(j) \subseteq Touched(j)  BY <4>2, InvParts, WrittenAre
      <4>. QED  BY <4>1, <4>3
    <3>2. a \notin Due(strays \cup {work})  BY <3>1, DueIs
    <3>3. vault[a] # 0 <=> ClaimedIn(list, a)  BY <2>1, <3>2, InvParts DEF AgreeInv, Agree
    <3>. QED  BY <3>3, ClaimIs
  <2>. QED  BY <2>1, ReachedAre, Zenon DEF KeychainMatchesList
<1>. QED  BY <1>1, <1>2, <1>3

LEMMA EnteredOnly ==
    ASSUME NEW id, NEW p, NEW i \in DOMAIN list \cup DOMAIN Entered(list, id, p), i # id
    PROVE  i \in DOMAIN list \cap DOMAIN Entered(list, id, p) /\ Entered(list, id, p)[i] = list[i]
<1>. QED  BY DEF Entered

LEMMA ProfilesStep ==
    ASSUME DialogInv, DialogNext
    PROVE  ProfilesKept
<1>0. used \in Nat  BY InvParts
<1>1. CASE Submit
  <2>. PICK after \in {"stay", "connect"} : \E wrote :
              /\ Storing(wrote)
              /\ IF Nothing(JobOf(after, wrote))
                 THEN Finish(JobOf(after, wrote), StoredForm)
                 ELSE /\ work' = JobOf(after, wrote) /\ form' = StoredForm
                      /\ asked' = (IF after = "connect" THEN StoreId ELSE 0)
                      /\ opened' = NoSession /\ UNCHANGED <<shown, question, subject>>
       BY <1>1, SubmitStores
  <2>. PICK wrote :
              /\ Storing(wrote)
              /\ IF Nothing(JobOf(after, wrote))
                 THEN Finish(JobOf(after, wrote), StoredForm)
                 ELSE /\ work' = JobOf(after, wrote) /\ form' = StoredForm
                      /\ asked' = (IF after = "connect" THEN StoreId ELSE 0)
                      /\ opened' = NoSession /\ UNCHANGED <<shown, question, subject>>
       OBVIOUS
  <2>1. form' = StoredForm \/ form' = Cleared(StoredForm)  BY SubmitEnds
  <2>2. form'.editing = StoreId
    <3>1. Fields(StoredForm, used') /\ StoredForm.editing = StoreId  BY StoredFormIs
    <3>2. used' \in Nat  BY StoringMuddles
    <3>. QED  BY <2>1, <3>1, <3>2, ClearedIs
  <2>3. CASE list' = list  BY <2>3 DEF ProfilesKept
  <2>4. CASE readable /\ list' = Entered(list, StoreId, NewEntry)
        BY <2>2, <2>4, EnteredOnly DEF ProfilesKept
  <2>. QED  BY <2>3, <2>4, StoringCases
<1>2. CASE list' = list  BY <1>2 DEF ProfilesKept
<1>3. CASE ConfirmDelete
  <2>1. CASE list' = list  BY <2>1 DEF ProfilesKept
  <2>2. CASE list' # list
    <3>1. readable /\ list' = Without(list, subject)  BY <1>3, <2>2 DEF ConfirmDelete, Stored
    <3>2. \A i \in DOMAIN list \cup DOMAIN list' : i # subject =>
             i \in DOMAIN list \cap DOMAIN list' /\ list'[i] = list[i]
          BY <3>1 DEF Without
    <3>. QED  BY <3>1, <3>2 DEF ProfilesKept
  <2>. QED  BY <2>1, <2>2
<1>4. CASE Duplicate \/ ConfirmImport
  <2>1. CASE list' = list  BY <2>1 DEF ProfilesKept
  <2>2. CASE list' # list
    <3>1. readable /\ \E p : list' = Entered(list, used + 1, p)
      <4>1. CASE Duplicate  BY <4>1, <2>2, Zenon DEF Duplicate, Stored
      <4>2. CASE ConfirmImport
        <5>1. readable /\ used' = used + 1 /\ copy' = Entered(list, used', BareProfile(subject)) /\ list' \in {list, copy'}
              BY <4>2, <2>2 DEF ConfirmImport, Stored, BareProfile
        <5>. QED  BY <5>1, <2>2
      <4>. QED  BY <1>4, <4>1, <4>2
    <3>. PICK p : list' = Entered(list, used + 1, p)  BY <3>1
    <3>2. used + 1 > used  BY <1>0
    <3>. QED  BY <3>1, <3>2, EnteredOnly DEF ProfilesKept
  <2>. QED  BY <2>1, <2>2
<1>5. CASE Elsewhere  BY <1>5 DEF ProfilesKept
<1>6. Submit \/ ConfirmDelete \/ Duplicate \/ ConfirmImport \/ Elsewhere \/ list' = list
  <2>1. CASE KeychainAnswers \/ KeychainRuns \/ StrayRuns  BY <2>1 DEF KeychainAnswers, KeychainRuns, StrayRuns, file
  <2>2. CASE FileTurns \/ Edit \/ AddHop  BY <2>2 DEF FileTurns, Edit, AddHop, file
  <2>3. CASE Open \/ Select \/ StepBack \/ AskDelete \/ OpenImport
        BY <2>3 DEF Open, Select, StepBack, AskDelete, OpenImport, file
  <2>4. CASE Dismiss \/ Discard  BY <2>4 DEF Dismiss, Discard, Close, file
  <2>. QED  BY Zenon, <2>1, <2>2, <2>3, <2>4 DEF DialogNext
<1>. QED  BY <1>1, <1>2, <1>3, <1>4, <1>5, <1>6

LEMMA AskedStep ==
    ASSUME DialogInv, DialogNext
    PROVE  opened'.profile # 0 => work = NoWork \/ asked = opened'.profile
<1>1. CASE Submit  BY <1>1 DEF Submit
<1>2. CASE KeychainAnswers
  <2>1. work.at = "ran" /\ Finish(work, form)  BY <1>2 DEF KeychainAnswers
  <2>2. \/ work.after = "stay" /\ opened' = NoSession
        \/ work.after # "stay" /\ opened'.profile = work.id
        BY <2>1, FinishIs
  <2>3. work.after \in {"stay", "connect"}  BY InvParts DEF JobsInv, Carries, Job
  <2>4. work.after = "connect" => asked = work.id  BY <2>1, InvParts DEF JobsInv
  <2>5. NoSession.profile = 0  BY DEF NoSession
  <2>. QED  BY <2>2, <2>3, <2>4, <2>5
<1>3. CASE opened' = NoSession  BY <1>3 DEF NoSession
<1>. QED  BY <1>1, <1>2, <1>3 DEF DialogNext

-----------------------------------------------------------------------------
(* The settings and the dashboards: the inductive invariant.               *)

\* What a window's dialog holds of the dashboards' file.
Dialogs ==
    [open: BOOLEAN, base: Settings, look: 0..1,
     rows: UNION {[D -> 0..1] : D \in SUBSET (1..MaxBoards)},
     layouts: UNION {[D -> 0..1] : D \in SUBSET (1..MaxBoards)},
     refused: BOOLEAN, edited: BOOLEAN, stale: BOOLEAN]

BoardFiles == UNION {[D -> Boards] : D \in SUBSET (1..MaxBoards)}

Made(f) == [b \in DOMAIN f |-> f[b].made]
Laid(f) == [b \in DOMAIN f |-> f[b].layout]

\* A dialog no one has touched since the file was last written holds that file.
Faithful(d, f) ==
    d.open /\ ~d.refused /\ ~d.edited /\ ~d.stale => d.rows = Made(f) /\ d.layouts = Laid(f)

ValuesInv ==
    /\ settings \in Settings /\ current \in Settings /\ loadError \in BOOLEAN
    /\ current.place = moved

BoardsInv ==
    /\ boards \in BoardFiles
    /\ seen \in [AppWindows -> SUBSET (1..MaxBoards)]
    /\ dialog \in [AppWindows -> Dialogs]
    /\ \A w \in AppWindows : Faithful(dialog[w], boards)

SettingsInv == ValuesInv /\ BoardsInv


LEMMA FileIs ==
    ASSUME NEW f, NEW D, D \subseteq 1..MaxBoards, f \in [D -> Boards]
    PROVE  f \in BoardFiles
<1>1. D \in SUBSET (1..MaxBoards)  OBVIOUS
<1>. QED  BY <1>1 DEF BoardFiles

LEMMA FileHolds ==
    ASSUME NEW f \in BoardFiles
    PROVE  /\ DOMAIN f \subseteq 1..MaxBoards /\ f = [b \in DOMAIN f |-> f[b]]
           /\ \A b \in DOMAIN f : f[b] \in Boards
<1>. PICK D \in SUBSET (1..MaxBoards) : f \in [D -> Boards]  BY DEF BoardFiles
<1>. QED  OBVIOUS

LEMMA RowsAre ==
    ASSUME NEW f, NEW D, D \subseteq 1..MaxBoards, f \in [D -> 0..1]
    PROVE  f \in UNION {[E -> 0..1] : E \in SUBSET (1..MaxBoards)}
<1>1. D \in SUBSET (1..MaxBoards)  OBVIOUS
<1>. QED  BY <1>1

LEMMA DialogHolds ==
    ASSUME NEW d \in Dialogs
    PROVE  /\ d.open \in BOOLEAN /\ d.base \in Settings /\ d.look \in 0..1
           /\ d.refused \in BOOLEAN /\ d.edited \in BOOLEAN /\ d.stale \in BOOLEAN
           /\ DOMAIN d.rows \subseteq 1..MaxBoards /\ d.rows = [b \in DOMAIN d.rows |-> d.rows[b]]
           /\ \A b \in DOMAIN d.rows : d.rows[b] \in 0..1
           /\ DOMAIN d.layouts \subseteq 1..MaxBoards
           /\ d.layouts = [b \in DOMAIN d.layouts |-> d.layouts[b]]
           /\ \A b \in DOMAIN d.layouts : d.layouts[b] \in 0..1
<1>1. /\ d.rows \in UNION {[D -> 0..1] : D \in SUBSET (1..MaxBoards)}
      /\ d.layouts \in UNION {[D -> 0..1] : D \in SUBSET (1..MaxBoards)}
      BY DEF Dialogs
<1>2. PICK D \in SUBSET (1..MaxBoards) : d.rows \in [D -> 0..1]  BY <1>1
<1>3. PICK E \in SUBSET (1..MaxBoards) : d.layouts \in [E -> 0..1]  BY <1>1
<1>4. /\ d.open \in BOOLEAN /\ d.base \in Settings /\ d.look \in 0..1
      /\ d.refused \in BOOLEAN /\ d.edited \in BOOLEAN /\ d.stale \in BOOLEAN
      BY DEF Dialogs
<1>. QED  BY <1>2, <1>3, <1>4

LEMMA MadeIs ==
    ASSUME NEW f \in BoardFiles
    PROVE  /\ Made(f) \in UNION {[E -> 0..1] : E \in SUBSET (1..MaxBoards)}
           /\ Laid(f) \in UNION {[E -> 0..1] : E \in SUBSET (1..MaxBoards)}
<1>1. DOMAIN f \subseteq 1..MaxBoards /\ \A b \in DOMAIN f : f[b] \in Boards  BY FileHolds
<1>2. Made(f) \in [DOMAIN f -> 0..1] /\ Laid(f) \in [DOMAIN f -> 0..1]
      BY <1>1 DEF Made, Laid, Boards
<1>. QED  BY <1>1, <1>2, RowsAre

LEMMA NoBoards ==
    << >> \in BoardFiles
<1>1. << >> \in [{} -> Boards]  OBVIOUS
<1>. QED  BY <1>1, FileIs

LEMMA ShutIs ==
    Shut \in Dialogs /\ \A f : Faithful(Shut, f)
<1>1. << >> \in [{} -> 0..1]  OBVIOUS
<1>2. << >> \in UNION {[E -> 0..1] : E \in SUBSET (1..MaxBoards)}  BY <1>1, RowsAre
<1>3. Defaults \in Settings  BY DEF Defaults, Settings
<1>. QED  BY <1>2, <1>3 DEF Shut, Dialogs, Faithful

LEMMA OutdatedIs ==
    ASSUME dialog \in [AppWindows -> Dialogs], NEW w \in AppWindows
    PROVE  /\ Outdated(w) \in [AppWindows -> Dialogs]
           /\ Outdated(w)[w] = dialog[w]
           /\ \A x \in AppWindows : \A f : x # w => Faithful(Outdated(w)[x], f)
<1>1. Outdated(w)[w] = dialog[w]  BY DEF Outdated
<1>2. ASSUME NEW x \in AppWindows, x # w
      PROVE  /\ Outdated(w)[x] \in Dialogs
             /\ \A f : Faithful(Outdated(w)[x], f)
  <2>. DEFINE d == dialog[x]  now == Outdated(w)[x]
  <2>1. now = [d EXCEPT !.stale = @ \/ d.open]  BY <1>2 DEF Outdated
  <2>2. d \in Dialogs  OBVIOUS
  <2>. HIDE DEF d, now
  <2>3. PICK t \in BOOLEAN : (t <=> d.stale \/ d.open) /\ now = [d EXCEPT !.stale = t]  BY <2>1, <2>2, DialogHolds, Zenon
  <2>4. now \in Dialogs /\ now.open = d.open /\ now.stale = t  BY <2>2, <2>3 DEF Dialogs
  <2>5. \A f : Faithful(now, f)  BY <2>3, <2>4 DEF Faithful
  <2>. QED  BY <2>4, <2>5 DEF now
<1>3. DOMAIN Outdated(w) = AppWindows /\ Outdated(w) = [x \in AppWindows |-> Outdated(w)[x]]  BY DEF Outdated
<1>4. \A x \in AppWindows : Outdated(w)[x] \in Dialogs  BY <1>1, <1>2
<1>. QED  BY <1>1, <1>2, <1>3, <1>4


LEMMA DialogSet ==
    ASSUME BoardsInv, NEW w \in AppWindows, NEW d \in Dialogs, Faithful(d, boards),
           dialog' = [dialog EXCEPT ![w] = d], UNCHANGED <<boards, seen>>
    PROVE  BoardsInv'
<1>1. dialog' \in [AppWindows -> Dialogs]  BY DEF BoardsInv
<1>2. \A x \in AppWindows : dialog'[x] = d \/ dialog'[x] = dialog[x]  BY DEF BoardsInv
<1>3. \A x \in AppWindows : Faithful(dialog'[x], boards)  BY <1>2 DEF BoardsInv
<1>. QED  BY <1>1, <1>3 DEF BoardsInv

LEMMA Listed ==
    ASSUME BoardsInv, NEW w \in AppWindows, NEW D \in SUBSET (1..MaxBoards),
           seen' = [seen EXCEPT ![w] = @ \cup D]
    PROVE  seen' \in [AppWindows -> SUBSET (1..MaxBoards)]
<1>1. seen \in [AppWindows -> SUBSET (1..MaxBoards)]  BY DEF BoardsInv
<1>2. seen[w] \cup D \in SUBSET (1..MaxBoards)  BY <1>1
<1>. QED  BY <1>1, <1>2

LEMMA WriteIs ==
    ASSUME ValuesInv, NEW value \in Settings, Write(value)
    PROVE  settings' \in Settings /\ (loadError => settings' = settings)
BY DEF Write, ValuesInv, Succeeds, Fails

LEMMA LaunchIs ==
    ASSUME BoardsInv, NEW left \in Settings, NEW bad, Launch(left, bad), UNCHANGED boards
    PROVE  /\ current' \in Settings /\ loadError' \in BOOLEAN /\ current'.place = moved'
           /\ BoardsInv'
<1>1. Defaults \in Settings  BY DEF Defaults, Settings
<1>2. /\ loadError' = ("settings" \in bad)
      /\ current' = (IF loadError' THEN Defaults ELSE left)
      /\ moved' = current'.place
      /\ seen' = [x \in AppWindows |-> IF "boards" \in bad THEN {} ELSE DOMAIN boards]
      /\ dialog' = [x \in AppWindows |-> Shut]
      BY Zenon DEF Launch
<1>3. PICK e \in BOOLEAN : loadError' = e
  <2>1. ("settings" \in bad) = TRUE \/ ("settings" \in bad) = FALSE  OBVIOUS
  <2>. QED  BY <1>2, <2>1, Zenon
<1>4. current' \in Settings
  <2>1. CASE e = TRUE  BY <1>1, <1>2, <1>3, <2>1
  <2>2. CASE e = FALSE  BY <1>2, <1>3, <2>2
  <2>. QED  BY <2>1, <2>2
<1>5. DOMAIN boards \subseteq 1..MaxBoards  BY FileHolds DEF BoardsInv
<1>6. seen' \in [AppWindows -> SUBSET (1..MaxBoards)]
  <2>1. PICK D \in SUBSET (1..MaxBoards) : seen' = [x \in AppWindows |-> D]
    <3>1. CASE "boards" \in bad  BY <1>2, <3>1
    <3>2. CASE "boards" \notin bad  BY <1>2, <1>5, <3>2
    <3>. QED  BY <3>1, <3>2
  <2>. QED  BY <2>1
<1>7. dialog' \in [AppWindows -> Dialogs] /\ \A x \in AppWindows : Faithful(dialog'[x], boards')
      BY <1>2, ShutIs
<1>8. BoardsInv'  BY <1>6, <1>7 DEF BoardsInv
<1>. QED  BY <1>2, <1>3, <1>4, <1>8, Zenon

LEMMA SettingsStutters ==
    ASSUME SettingsInv, UNCHANGED settingsVars
    PROVE  SettingsInv'
BY DEF SettingsInv, ValuesInv, BoardsInv, settingsVars

LEMMA MoveWindowKeeps ==
    ASSUME SettingsInv, MoveWindow
    PROVE  SettingsInv'
<1>1. PICK m \in 0..1 : m = 1 - moved /\ moved' = m /\ current' = [current EXCEPT !.place = m]
      BY DEF MoveWindow, SettingsInv, ValuesInv, Settings
<1>2. ValuesInv'
      BY <1>1 DEF MoveWindow, SettingsInv, ValuesInv, Settings
<1>3. BoardsInv'  BY DEF MoveWindow, SettingsInv, BoardsInv
<1>. QED  BY <1>2, <1>3 DEF SettingsInv

LEMMA IgnoreKeeps ==
    ASSUME SettingsInv, Ignore
    PROVE  SettingsInv'
<1>1. current.ignored \in BOOLEAN  BY DEF SettingsInv, ValuesInv, Settings
<1>2. PICK g \in BOOLEAN : g = ~current.ignored /\ current' = [current EXCEPT !.ignored = g]
      BY <1>1, Zenon DEF Ignore
<1>3. current' \in Settings /\ current'.place = current.place
      BY <1>2 DEF SettingsInv, ValuesInv, Settings
<1>4. Write(current') /\ UNCHANGED <<loadError, moved, boards, seen, dialog>>  BY DEF Ignore
<1>5. settings' \in Settings  BY <1>3, <1>4, WriteIs DEF SettingsInv
<1>6. ValuesInv'  BY <1>3, <1>4, <1>5 DEF SettingsInv, ValuesInv
<1>7. BoardsInv'  BY <1>4 DEF SettingsInv, BoardsInv
<1>. QED  BY <1>6, <1>7 DEF SettingsInv

LEMMA LaunchesKeep ==
    ASSUME SettingsInv, Quit \/ Crash
    PROVE  SettingsInv'
<1>1. settings' \in Settings
  <2>1. CASE Quit  BY <2>1, WriteIs DEF Quit, SettingsInv, ValuesInv
  <2>2. CASE Crash  BY <2>2 DEF Crash, SettingsInv, ValuesInv
  <2>. QED  BY <2>1, <2>2
<1>2. PICK left \in Settings : \E bad : Launch(left, bad) /\ UNCHANGED boards
  <2>1. CASE Quit  BY <1>1, <2>1 DEF Quit
  <2>2. CASE Crash  BY <2>2 DEF Crash, SettingsInv, ValuesInv
  <2>. QED  BY <2>1, <2>2
<1>3. BoardsInv  BY DEF SettingsInv
<1>. QED  BY <1>1, <1>2, <1>3, LaunchIs DEF SettingsInv, ValuesInv


LEMMA OpenSettingsKeeps ==
    ASSUME SettingsInv, OpenSettings
    PROVE  SettingsInv'
<1>1. ValuesInv'  BY DEF OpenSettings, SettingsInv, ValuesInv
<1>2. BoardsInv'
  <2>. DEFINE stored == IF "boards" \in unreadable THEN << >> ELSE boards
  <2>2. PICK w \in AppWindows : dialog' = [dialog EXCEPT ![w] =
           [open |-> TRUE, base |-> current, look |-> current.look,
            rows |-> Made(stored), layouts |-> Laid(stored),
            refused |-> "boards" \in unreadable, edited |-> FALSE, stale |-> FALSE]]
        BY Zenon DEF OpenSettings, Made, Laid
  <2>3. stored \in BoardFiles /\ ("boards" \in unreadable \/ stored = boards)
        BY NoBoards DEF SettingsInv, BoardsInv
  <2>. HIDE DEF stored
  <2>4. PICK r \in BOOLEAN : ("boards" \in unreadable) = r
    <3>1. ("boards" \in unreadable) = TRUE \/ ("boards" \in unreadable) = FALSE  OBVIOUS
    <3>. QED  BY <3>1, Zenon
  <2>. DEFINE d == [open |-> TRUE, base |-> current, look |-> current.look,
                    rows |-> Made(stored), layouts |-> Laid(stored),
                    refused |-> r, edited |-> FALSE, stale |-> FALSE]
  <2>5. dialog' = [dialog EXCEPT ![w] = d]  BY <2>2, <2>4, Zenon
  <2>6. d \in Dialogs
    <3>1. current \in Settings /\ current.look \in 0..1  BY DEF SettingsInv, ValuesInv, Settings
    <3>2. Made(stored) \in UNION {[E -> 0..1] : E \in SUBSET (1..MaxBoards)}
          /\ Laid(stored) \in UNION {[E -> 0..1] : E \in SUBSET (1..MaxBoards)}
          BY <2>3, MadeIs
    <3>. QED  BY <3>1, <3>2 DEF Dialogs
  <2>7. Faithful(d, boards)
    <3>1. CASE r = TRUE  BY <3>1 DEF Faithful
    <3>2. CASE r = FALSE
      <4>1. stored = boards  BY <2>3, <2>4, <3>2
      <4>. QED  BY <4>1 DEF Faithful
    <3>. QED  BY <3>1, <3>2
  <2>8. UNCHANGED <<boards, seen>>  BY DEF OpenSettings
  <2>. HIDE DEF d
  <2>. QED  BY <2>5, <2>6, <2>7, <2>8, DialogSet DEF SettingsInv
<1>. QED  BY <1>1, <1>2 DEF SettingsInv

LEMMA DismissSettingsKeeps ==
    ASSUME SettingsInv, DismissSettings
    PROVE  SettingsInv'
<1>1. ValuesInv'  BY DEF DismissSettings, SettingsInv, ValuesInv
<1>2. BoardsInv'
  <2>1. PICK w \in AppWindows : dialog' = [dialog EXCEPT ![w] = Shut]  BY DEF DismissSettings
  <2>2. UNCHANGED <<boards, seen>>  BY DEF DismissSettings
  <2>. QED  BY <2>1, <2>2, ShutIs, DialogSet DEF SettingsInv
<1>. QED  BY <1>1, <1>2 DEF SettingsInv

\* A form whose dashboards the user has changed claims nothing of the file.
LEMMA RowsSet ==
    ASSUME SettingsInv, NEW w \in AppWindows, NEW r,
           NEW D, D \subseteq 1..MaxBoards, r \in [D -> 0..1],
           dialog' = [dialog EXCEPT ![w].rows = r, ![w].edited = TRUE],
           UNCHANGED <<boards, seen>>
    PROVE  BoardsInv'
<1>1. dialog[w] \in Dialogs  BY DEF SettingsInv, BoardsInv
<1>2. r \in UNION {[E -> 0..1] : E \in SUBSET (1..MaxBoards)}  BY RowsAre
<1>3. PICK t \in BOOLEAN : t = TRUE /\ dialog' = [dialog EXCEPT ![w].rows = r, ![w].edited = t]
      BY Zenon
<1>. DEFINE d == [dialog[w] EXCEPT !.rows = r, !.edited = t]
<1>4. dialog' = [dialog EXCEPT ![w] = d]  BY <1>3 DEF SettingsInv, BoardsInv
<1>5. d \in Dialogs /\ d.edited = t  BY <1>1, <1>2 DEF Dialogs
<1>6. Faithful(d, boards)  BY <1>3, <1>5 DEF Faithful
<1>. HIDE DEF d
<1>. QED  BY <1>4, <1>5, <1>6, DialogSet DEF SettingsInv

LEMMA LookSet ==
    ASSUME SettingsInv, NEW w \in AppWindows,
           dialog' = [dialog EXCEPT ![w].look = 1 - @],
           UNCHANGED <<boards, seen>>
    PROVE  BoardsInv'
<1>1. dialog[w] \in Dialogs /\ Faithful(dialog[w], boards)  BY DEF SettingsInv, BoardsInv
<1>2. dialog[w].look \in 0..1  BY <1>1 DEF Dialogs
<1>3. PICK n \in 0..1 : n = 1 - dialog[w].look  BY <1>2
<1>. DEFINE d == [dialog[w] EXCEPT !.look = n]
<1>4. dialog' = [dialog EXCEPT ![w] = d]  BY <1>3 DEF SettingsInv, BoardsInv
<1>5. d \in Dialogs  BY <1>1 DEF Dialogs
<1>6. /\ d.open = dialog[w].open /\ d.refused = dialog[w].refused /\ d.edited = dialog[w].edited
      /\ d.stale = dialog[w].stale /\ d.rows = dialog[w].rows /\ d.layouts = dialog[w].layouts
      BY <1>1 DEF Dialogs
<1>. HIDE DEF d
<1>7. Faithful(d, boards)  BY <1>1, <1>6 DEF Faithful
<1>. QED  BY <1>4, <1>5, <1>7, DialogSet DEF SettingsInv

LEMMA EditSettingsKeeps ==
    ASSUME SettingsInv, EditSettings
    PROVE  SettingsInv'
<1>1. ValuesInv'  BY DEF EditSettings, SettingsInv, ValuesInv
<1>2. UNCHANGED <<boards, seen>>  BY DEF EditSettings
<1>3. PICK w \in AppWindows :
         \/ dialog' = [dialog EXCEPT ![w].look = 1 - @]
         \/ \E b \in 1..MaxBoards \ DOMAIN dialog[w].rows :
               dialog' = [dialog EXCEPT
                  ![w].rows = [x \in DOMAIN dialog[w].rows \union {b} |-> IF x = b THEN 0 ELSE dialog[w].rows[x]],
                  ![w].edited = TRUE]
         \/ \E b \in DOMAIN dialog[w].rows :
               dialog' = [dialog EXCEPT
                  ![w].rows = [x \in DOMAIN dialog[w].rows \ {b} |-> dialog[w].rows[x]],
                  ![w].edited = TRUE]
         \/ \E b \in DOMAIN dialog[w].rows :
               dialog' = [dialog EXCEPT ![w].rows = [dialog[w].rows EXCEPT ![b] = 1 - @],
                                        ![w].edited = TRUE]
      BY Zenon DEF EditSettings
<1>4. /\ DOMAIN dialog[w].rows \subseteq 1..MaxBoards
      /\ dialog[w].rows = [b \in DOMAIN dialog[w].rows |-> dialog[w].rows[b]]
      /\ \A b \in DOMAIN dialog[w].rows : dialog[w].rows[b] \in 0..1
  <2>1. dialog[w] \in Dialogs  BY DEF SettingsInv, BoardsInv
  <2>. QED  BY <2>1, DialogHolds
<1>5. CASE dialog' = [dialog EXCEPT ![w].look = 1 - @]
      BY <1>1, <1>2, <1>5, LookSet DEF SettingsInv
<1>6. ASSUME NEW b \in 1..MaxBoards,
             dialog' = [dialog EXCEPT
                  ![w].rows = [x \in DOMAIN dialog[w].rows \union {b} |-> IF x = b THEN 0 ELSE dialog[w].rows[x]],
                  ![w].edited = TRUE]
      PROVE  BoardsInv'
  <2>. DEFINE D == DOMAIN dialog[w].rows \union {b}
              r == [x \in D |-> IF x = b THEN 0 ELSE dialog[w].rows[x]]
  <2>1. D \subseteq 1..MaxBoards /\ r \in [D -> 0..1]  BY <1>4
  <2>2. dialog' = [dialog EXCEPT ![w].rows = r, ![w].edited = TRUE]  BY <1>6, Zenon
  <2>. HIDE DEF D, r
  <2>. QED  BY <1>2, <2>1, <2>2, RowsSet
<1>7. ASSUME NEW b \in DOMAIN dialog[w].rows,
             dialog' = [dialog EXCEPT
                  ![w].rows = [x \in DOMAIN dialog[w].rows \ {b} |-> dialog[w].rows[x]],
                  ![w].edited = TRUE]
      PROVE  BoardsInv'
  <2>. DEFINE D == DOMAIN dialog[w].rows \ {b}
              r == [x \in D |-> dialog[w].rows[x]]
  <2>1. D \subseteq 1..MaxBoards /\ r \in [D -> 0..1]  BY <1>4
  <2>2. dialog' = [dialog EXCEPT ![w].rows = r, ![w].edited = TRUE]  BY <1>7, Zenon
  <2>. HIDE DEF D, r
  <2>. QED  BY <1>2, <2>1, <2>2, RowsSet
<1>8. ASSUME NEW b \in DOMAIN dialog[w].rows,
             dialog' = [dialog EXCEPT ![w].rows = [dialog[w].rows EXCEPT ![b] = 1 - @],
                                      ![w].edited = TRUE]
      PROVE  BoardsInv'
  <2>. DEFINE D == DOMAIN dialog[w].rows
              r == [dialog[w].rows EXCEPT ![b] = 1 - @]
  <2>1. dialog[w].rows \in [D -> 0..1] /\ 1 - dialog[w].rows[b] \in 0..1  BY <1>4
  <2>2. D \subseteq 1..MaxBoards /\ r \in [D -> 0..1]  BY <1>4, <2>1
  <2>3. dialog' = [dialog EXCEPT ![w].rows = r, ![w].edited = TRUE]  BY <1>8, Zenon
  <2>. HIDE DEF D, r
  <2>. QED  BY <1>2, <2>2, <2>3, RowsSet
<1>. QED  BY <1>1, <1>3, <1>5, <1>6, <1>7, <1>8 DEF SettingsInv

\* What a dashboard's file becomes, and the dialogs it was read by.
LEMMA FileWritten ==
    ASSUME BoardsInv, NEW w \in AppWindows, NEW f \in BoardFiles, boards' = f,
           dialog' = Outdated(w), Faithful(dialog[w], f),
           seen' \in [AppWindows -> SUBSET (1..MaxBoards)]
    PROVE  BoardsInv'
<1>1. /\ dialog' \in [AppWindows -> Dialogs]
      /\ dialog'[w] = dialog[w]
      /\ \A x \in AppWindows : x # w => Faithful(dialog'[x], f)
      BY OutdatedIs DEF BoardsInv
<1>2. \A x \in AppWindows : Faithful(dialog'[x], boards')  BY <1>1
<1>. QED  BY <1>1, <1>2 DEF BoardsInv

LEMMA UpsertKeeps ==
    ASSUME BoardsInv, NEW w \in AppWindows, NEW b \in 1..MaxBoards, NEW board \in Boards,
           ~dialog[w].open, Upsert(w, b, board)
    PROVE  BoardsInv'
<1>. DEFINE D == DOMAIN boards \union {b}
            stored == [x \in D |-> IF x = b THEN board ELSE boards[x]]
<1>1. DOMAIN boards \subseteq 1..MaxBoards /\ \A x \in DOMAIN boards : boards[x] \in Boards
      BY FileHolds DEF BoardsInv
<1>2. D \in SUBSET (1..MaxBoards) /\ stored \in [D -> Boards] /\ DOMAIN stored = D  BY <1>1
<1>3. /\ seen' = [seen EXCEPT ![w] = @ \union D]
      /\ \/ boards' = stored /\ dialog' = Outdated(w)
         \/ UNCHANGED <<boards, dialog>>
      BY <1>2 DEF Upsert
<1>. HIDE DEF D, stored
<1>4. stored \in BoardFiles  BY <1>2, FileIs
<1>5. seen' \in [AppWindows -> SUBSET (1..MaxBoards)]  BY <1>2, <1>3, Listed
<1>6. CASE UNCHANGED <<boards, dialog>>  BY <1>5, <1>6 DEF BoardsInv
<1>7. CASE boards' = stored /\ dialog' = Outdated(w)
  <2>1. Faithful(dialog[w], stored)  BY DEF Faithful
  <2>. QED  BY <1>4, <1>5, <1>7, <2>1, FileWritten
<1>. QED  BY <1>3, <1>6, <1>7

LEMMA TabsKeep ==
    ASSUME SettingsInv, SaveLayout \/ PickColor
    PROVE  SettingsInv'
<1>0. BoardsInv /\ boards \in BoardFiles /\ seen \in [AppWindows -> SUBSET (1..MaxBoards)]
      BY DEF SettingsInv, BoardsInv
<1>1. ValuesInv'  BY DEF SaveLayout, PickColor, SettingsInv, ValuesInv
<1>2. CASE SaveLayout
  <2>1. PICK w \in AppWindows : \E b \in seen[w] : \E made \in 0..1 :
           ~dialog[w].open /\ Upsert(w, b, [made |-> made, layout |-> 1])
        BY <1>2 DEF SaveLayout
  <2>2. PICK b \in seen[w], made \in 0..1 :
           ~dialog[w].open /\ Upsert(w, b, [made |-> made, layout |-> 1])
        BY <2>1
  <2>3. b \in 1..MaxBoards /\ [made |-> made, layout |-> 1] \in Boards  BY <1>0 DEF Boards
  <2>. QED  BY <1>0, <1>1, <2>2, <2>3, UpsertKeeps DEF SettingsInv
<1>3. CASE PickColor
  <2>1. PICK w \in AppWindows : \E b \in seen[w] \intersect DOMAIN boards :
           ~dialog[w].open /\ Upsert(w, b, [boards[b] EXCEPT !.made = 1 - @])
        BY <1>3 DEF PickColor
  <2>2. PICK b \in seen[w] \intersect DOMAIN boards :
           ~dialog[w].open /\ Upsert(w, b, [boards[b] EXCEPT !.made = 1 - @])
        BY <2>1
  <2>3. b \in 1..MaxBoards /\ boards[b] \in Boards  BY <1>0, FileHolds
  <2>4. PICK n \in 0..1 : n = 1 - boards[b].made  BY <2>3 DEF Boards
  <2>5. [boards[b] EXCEPT !.made = 1 - @] = [boards[b] EXCEPT !.made = n]  BY <2>4, Zenon
  <2>6. [boards[b] EXCEPT !.made = n] \in Boards  BY <2>3 DEF Boards
  <2>7. [boards[b] EXCEPT !.made = 1 - @] \in Boards  BY <2>5, <2>6, Zenon
  <2>. QED  BY <1>0, <1>1, <2>2, <2>3, <2>7, UpsertKeeps DEF SettingsInv
<1>. QED  BY <1>2, <1>3


\* The dashboards a save writes.
Saved(d) == [b \in DOMAIN d.rows |-> [made |-> d.rows[b], layout |-> Carried(d, b)]]

LEMMA SavedIs ==
    ASSUME BoardsInv, NEW w \in AppWindows, dialog[w].open, ~dialog[w].refused
    PROVE  /\ Saved(dialog[w]) \in BoardFiles /\ DOMAIN Saved(dialog[w]) \in SUBSET (1..MaxBoards)
           /\ ~dialog[w].edited /\ ~dialog[w].stale => Saved(dialog[w]) = boards
           /\ Faithful(dialog[w], Saved(dialog[w]))
<1>1. dialog[w] \in Dialogs /\ Faithful(dialog[w], boards) /\ boards \in BoardFiles  BY DEF BoardsInv
<1>. DEFINE d == dialog[w]
<1>2. /\ DOMAIN d.rows \subseteq 1..MaxBoards /\ \A b \in DOMAIN d.rows : d.rows[b] \in 0..1
      /\ \A b \in DOMAIN d.layouts : d.layouts[b] \in 0..1
      BY <1>1, DialogHolds
<1>3. Saved(d) \in BoardFiles /\ DOMAIN Saved(d) = DOMAIN d.rows
  <2>1. \A b \in DOMAIN d.rows : [made |-> d.rows[b], layout |-> Carried(d, b)] \in Boards
        BY <1>2 DEF Boards, Carried
  <2>2. Saved(d) \in [DOMAIN d.rows -> Boards]  BY <2>1 DEF Saved
  <2>. QED  BY <1>2, <2>2, FileIs
<1>4. ASSUME ~d.edited, ~d.stale
      PROVE  Saved(d) = boards
  <2>1. d.rows = Made(boards) /\ d.layouts = Laid(boards)  BY <1>1, <1>4 DEF Faithful
  <2>2. DOMAIN d.rows = DOMAIN boards /\ DOMAIN d.layouts = DOMAIN boards  BY <2>1 DEF Made, Laid
  <2>3. \A b \in DOMAIN boards : d.rows[b] = boards[b].made /\ Carried(d, b) = boards[b].layout
        BY <2>1, <2>2 DEF Made, Laid, Carried
  <2>4. boards = [b \in DOMAIN boards |-> boards[b]] /\ \A b \in DOMAIN boards : boards[b] \in Boards
        BY <1>1, FileHolds
  <2>5. \A b \in DOMAIN boards : Saved(d)[b] = boards[b]
        BY <2>2, <2>3, <2>4 DEF Saved, Boards
  <2>6. Saved(d) = [b \in DOMAIN boards |-> Saved(d)[b]]  BY <2>2 DEF Saved
  <2>. HIDE DEF d
  <2>. QED  BY <2>4, <2>5, <2>6
<1>5. Faithful(d, Saved(d))
  <2>1. CASE d.edited \/ d.stale  BY <2>1 DEF Faithful
  <2>2. CASE ~d.edited /\ ~d.stale
    <3>1. Saved(d) = boards  BY <1>4, <2>2
    <3>. QED  BY <1>1, <3>1
  <2>. QED  BY <2>1, <2>2
<1>. HIDE DEF d
<1>6. DOMAIN Saved(d) \in SUBSET (1..MaxBoards)  BY <1>2, <1>3
<1>7. /\ Saved(d) \in BoardFiles /\ DOMAIN Saved(d) \in SUBSET (1..MaxBoards)
      /\ ~d.edited /\ ~d.stale => Saved(d) = boards
      /\ Faithful(d, Saved(d))
      BY <1>3, <1>4, <1>5, <1>6
<1>. QED  BY <1>7 DEF d

LEMMA SaveSettingsCases ==
    ASSUME NEW w \in AppWindows, SaveSettings(w)
    PROVE  /\ dialog[w].open /\ ~loadError /\ ~dialog[w].refused /\ UNCHANGED <<loadError, moved>>
           /\ \/ UNCHANGED <<settings, unreadable, current, boards, seen, dialog>>
              \/ /\ boards' = Saved(dialog[w]) /\ dialog' = Outdated(w)
                 /\ UNCHANGED <<settings, current, seen>>
              \/ /\ boards' = Saved(dialog[w])
                 /\ settings' = [dialog[w].base EXCEPT !.look = dialog[w].look, !.place = current.place]
                 /\ current' = settings'
                 /\ seen' = [seen EXCEPT ![w] = @ \union DOMAIN Saved(dialog[w])]
                 /\ dialog' = [Outdated(w) EXCEPT ![w] = Shut]
BY Zenon DEF SaveSettings, Saved, Placement

LEMMA SaveSettingsKeeps ==
    ASSUME SettingsInv, NEW w \in AppWindows, SaveSettings(w)
    PROVE  SettingsInv'
<1>0. BoardsInv /\ ValuesInv /\ dialog[w] \in Dialogs /\ seen \in [AppWindows -> SUBSET (1..MaxBoards)]
      BY DEF SettingsInv, BoardsInv
<1>. DEFINE f == Saved(dialog[w])
            new == [dialog[w].base EXCEPT !.look = dialog[w].look, !.place = current.place]
<1>1. /\ dialog[w].open /\ ~loadError /\ ~dialog[w].refused /\ UNCHANGED <<loadError, moved>>
      /\ \/ UNCHANGED <<settings, unreadable, current, boards, seen, dialog>>
         \/ boards' = f /\ dialog' = Outdated(w) /\ UNCHANGED <<settings, current, seen>>
         \/ /\ boards' = f /\ settings' = new /\ current' = settings'
            /\ seen' = [seen EXCEPT ![w] = @ \union DOMAIN f]
            /\ dialog' = [Outdated(w) EXCEPT ![w] = Shut]
      BY SaveSettingsCases
<1>2. f \in BoardFiles /\ DOMAIN f \in SUBSET (1..MaxBoards) /\ Faithful(dialog[w], f)
      BY <1>0, <1>1, SavedIs
<1>3. new \in Settings /\ new.place = current.place
  <2>1. dialog[w].base \in Settings /\ dialog[w].look \in 0..1  BY <1>0, DialogHolds
  <2>2. current.place \in 0..1  BY <1>0 DEF ValuesInv, Settings
  <2>. QED  BY <2>1, <2>2 DEF Settings
<1>. HIDE DEF f, new
<1>4. CASE UNCHANGED <<settings, unreadable, current, boards, seen, dialog>>
      BY <1>1, <1>4 DEF SettingsInv, ValuesInv, BoardsInv
<1>5. CASE boards' = f /\ dialog' = Outdated(w) /\ UNCHANGED <<settings, current, seen>>
  <2>1. ValuesInv'  BY <1>0, <1>1, <1>5 DEF ValuesInv
  <2>2. BoardsInv'  BY <1>0, <1>2, <1>5, FileWritten
  <2>. QED  BY <2>1, <2>2 DEF SettingsInv
<1>6. CASE /\ boards' = f /\ settings' = new /\ current' = settings'
           /\ seen' = [seen EXCEPT ![w] = @ \union DOMAIN f]
           /\ dialog' = [Outdated(w) EXCEPT ![w] = Shut]
  <2>1. ValuesInv'  BY <1>0, <1>1, <1>3, <1>6 DEF ValuesInv
  <2>2. seen' \in [AppWindows -> SUBSET (1..MaxBoards)]  BY <1>0, <1>2, <1>6, Listed
  <2>3. /\ Outdated(w) \in [AppWindows -> Dialogs]
        /\ \A x \in AppWindows : x # w => Faithful(Outdated(w)[x], f)
        BY <1>0, OutdatedIs DEF BoardsInv
  <2>4. dialog' \in [AppWindows -> Dialogs]  BY <1>6, <2>3, ShutIs
  <2>5. ASSUME NEW x \in AppWindows PROVE Faithful(dialog'[x], f)
    <3>1. CASE x = w  BY <1>6, <2>3, <3>1, ShutIs
    <3>2. CASE x # w
      <4>1. dialog'[x] = Outdated(w)[x]  BY <1>6, <2>3, <3>2
      <4>. QED  BY <2>3, <3>2, <4>1
    <3>. QED  BY <3>1, <3>2
  <2>6. BoardsInv'  BY <1>2, <1>6, <2>2, <2>4, <2>5 DEF BoardsInv
  <2>. QED  BY <2>1, <2>6 DEF SettingsInv
<1>. QED  BY <1>1, <1>4, <1>5, <1>6

LEMMA SettingsInit_Inv ==
    ASSUME SettingsInit
    PROVE  SettingsInv
<1>1. ValuesInv
  <2>1. Defaults \in Settings /\ [Defaults EXCEPT !.look = 1] \in Settings /\ Defaults.place = 0
        /\ [Defaults EXCEPT !.look = 1].place = 0
    <3>1. Defaults \in Settings /\ Defaults.place = 0  BY DEF Defaults, Settings
    <3>2. PICK n \in 0..1 : n = 1  OBVIOUS
    <3>3. [Defaults EXCEPT !.look = n] \in Settings /\ [Defaults EXCEPT !.look = n].place = Defaults.place
          BY <3>1 DEF Settings
    <3>. QED  BY <3>1, <3>2, <3>3
  <2>2. loadError \in BOOLEAN
    <3>1. ("settings" \in unreadable) = TRUE \/ ("settings" \in unreadable) = FALSE  OBVIOUS
    <3>2. loadError = ("settings" \in unreadable)  BY Zenon DEF SettingsInit
    <3>. QED  BY <3>1, <3>2, Zenon
  <2>3. current \in {Defaults, settings} /\ settings = [Defaults EXCEPT !.look = 1] /\ moved = 0
    <3>1. /\ settings = [Defaults EXCEPT !.look = 1] /\ moved = 0
          /\ current = (IF loadError THEN Defaults ELSE settings)
          BY Zenon DEF SettingsInit
    <3>2. PICK e \in BOOLEAN : loadError = e  BY <2>2
    <3>3. CASE e = TRUE  BY <3>1, <3>2, <3>3
    <3>4. CASE e = FALSE  BY <3>1, <3>2, <3>4
    <3>. QED  BY <3>3, <3>4
  <2>. QED  BY <2>1, <2>2, <2>3, Zenon DEF ValuesInv
<1>2. BoardsInv
  <2>1. /\ boards = [b \in {1} |-> [made |-> 0, layout |-> 1]]
        /\ seen = [w \in AppWindows |-> IF "boards" \in unreadable THEN {} ELSE DOMAIN boards]
        /\ dialog = [w \in AppWindows |-> Shut]
        BY Zenon DEF SettingsInit
  <2>2. {1} \subseteq 1..MaxBoards  BY SettingsFilesAssumption
  <2>3. boards \in [{1} -> Boards] /\ DOMAIN boards = {1}  BY <2>1 DEF Boards
  <2>4. boards \in BoardFiles  BY <2>2, <2>3, FileIs
  <2>5. seen \in [AppWindows -> SUBSET (1..MaxBoards)]
    <3>1. PICK D \in SUBSET (1..MaxBoards) : seen = [w \in AppWindows |-> D]
      <4>1. CASE "boards" \in unreadable  BY <2>1, <4>1
      <4>2. CASE "boards" \notin unreadable  BY <2>1, <2>2, <2>3, <4>2
      <4>. QED  BY <4>1, <4>2
    <3>. QED  BY <3>1
  <2>6. dialog \in [AppWindows -> Dialogs] /\ \A w \in AppWindows : Faithful(dialog[w], boards)
        BY <2>1, ShutIs
  <2>. QED  BY <2>4, <2>5, <2>6 DEF BoardsInv
<1>. QED  BY <1>1, <1>2 DEF SettingsInv

LEMMA SettingsNext_Inv ==
    ASSUME SettingsInv, SettingsNext
    PROVE  SettingsInv'
<1>1. CASE Damaged \/ Repaired
      BY <1>1 DEF Damaged, Repaired, SettingsInv, ValuesInv, BoardsInv
<1>. QED  BY <1>1, MoveWindowKeeps, IgnoreKeeps, EditSettingsKeeps, TabsKeep, LaunchesKeep,
             OpenSettingsKeeps, DismissSettingsKeeps, SaveSettingsKeeps DEF SettingsNext

LEMMA SettingsSound ==
    ASSUME SettingsInv
    PROVE  SettingsTypes
BY FileHolds DEF SettingsInv, ValuesInv, BoardsInv, SettingsTypes

LEMMA SettingsStep ==
    ASSUME SettingsInv, SettingsNext
    PROVE  SettingsKept
<1>1. current'.place = moved'  BY SettingsNext_Inv DEF SettingsInv, ValuesInv
<1>2. ASSUME loadError PROVE settings' = settings
  <2>1. CASE Ignore \/ Quit  BY <1>2, <2>1 DEF Ignore, Quit, Write
  <2>2. CASE Crash  BY <2>2 DEF Crash
  <2>3. ASSUME NEW w \in AppWindows, SaveSettings(w) PROVE settings' = settings
        BY <1>2, <2>3, SaveSettingsCases
  <2>4. CASE MoveWindow \/ EditSettings \/ SaveLayout \/ PickColor \/ OpenSettings \/ DismissSettings
             \/ Damaged \/ Repaired
        BY <2>4 DEF MoveWindow, EditSettings, SaveLayout, PickColor, OpenSettings, DismissSettings,
                    Damaged, Repaired
  <2>. QED  BY Zenon, <2>1, <2>2, <2>3, <2>4 DEF SettingsNext
<1>. QED  BY <1>1, <1>2 DEF SettingsKept

\* One board is put, or none.
LEMMA UpsertOnly ==
    ASSUME NEW w, NEW b, NEW board, Upsert(w, b, board)
    PROVE  DOMAIN boards \subseteq DOMAIN boards' /\ {x \in DOMAIN boards : boards'[x] # boards[x]} \subseteq {b}
BY DEF Upsert

LEMMA FewBoards ==
    ASSUME NEW b, {x \in DOMAIN boards : boards'[x] # boards[x]} \subseteq {b}
    PROVE  Cardinality({x \in DOMAIN boards : boards'[x] # boards[x]}) <= 1
<1>. DEFINE C == {x \in DOMAIN boards : boards'[x] # boards[x]}
<1>1. IsFiniteSet({b}) /\ Cardinality({b}) = 1  BY FS_Singleton
<1>2. C \subseteq {b}  OBVIOUS
<1>. HIDE DEF C
<1>3. IsFiniteSet(C) /\ Cardinality(C) <= Cardinality({b})  BY <1>1, <1>2, FS_Subset
<1>4. Cardinality(C) <= 1  BY <1>1, <1>3
<1>. QED  BY <1>4 DEF C

LEMMA BoardsStay ==
    ASSUME boards' = boards
    PROVE  BoardsKept
<1>1. {x \in DOMAIN boards : boards'[x] # boards[x]} \subseteq {0}  OBVIOUS
<1>2. Cardinality({x \in DOMAIN boards : boards'[x] # boards[x]}) <= 1  BY <1>1, FewBoards
<1>. QED  BY <1>2 DEF BoardsKept

LEMMA BoardsStep ==
    ASSUME SettingsInv, SettingsNext
    PROVE  BoardsKept
<1>1. ASSUME NEW w \in AppWindows, SaveSettings(w), ~dialog[w].edited, ~dialog[w].stale
      PROVE  boards' = boards
      BY <1>1, SaveSettingsCases, SavedIs DEF SettingsInv
<1>2. ASSUME \A w \in AppWindows : ~SaveSettings(w)
      PROVE  /\ DOMAIN boards \subseteq DOMAIN boards'
             /\ Cardinality({x \in DOMAIN boards : boards'[x] # boards[x]}) <= 1
  <2>1. CASE SaveLayout \/ PickColor
    <3>1. PICK w, b, board : Upsert(w, b, board)
          BY <2>1, Zenon DEF SaveLayout, PickColor
    <3>. QED  BY <3>1, UpsertOnly, FewBoards
  <2>2. CASE boards' = boards  BY <2>2, BoardsStay, <1>2 DEF BoardsKept
  <2>3. CASE MoveWindow \/ Ignore \/ EditSettings \/ Quit \/ Crash \/ OpenSettings \/ DismissSettings
             \/ Damaged \/ Repaired
    <3>1. boards' = boards
          BY <2>3 DEF MoveWindow, Ignore, EditSettings, Quit, Crash, OpenSettings, DismissSettings,
                      Damaged, Repaired
    <3>. QED  BY <2>2, <3>1
  <2>. QED  BY Zenon, <1>2, <2>1, <2>3 DEF SettingsNext
<1>. QED  BY <1>1, <1>2 DEF BoardsKept

-----------------------------------------------------------------------------
(* The parts side by side.                                                 *)

PartsInv == DialogInv /\ SettingsInv

LEMMA PartsInit_Inv ==
    ASSUME PartsInit
    PROVE  PartsInv
BY DialogInit_Inv, SettingsInit_Inv DEF PartsInit, PartsInv

LEMMA PartsNext_Inv ==
    ASSUME PartsInv, [PartsNext]_partVars
    PROVE  PartsInv'
<1>1. CASE UNCHANGED partVars
  <2>1. UNCHANGED dialogVars /\ UNCHANGED settingsVars  BY <1>1 DEF partVars
  <2>. QED  BY <2>1, DialogStutters, SettingsStutters DEF PartsInv
<1>2. CASE DialogNext /\ UNCHANGED settingsVars
      BY <1>2, DialogNext_Inv, SettingsStutters DEF PartsInv
<1>3. CASE SettingsNext /\ UNCHANGED dialogVars
      BY <1>3, SettingsNext_Inv, DialogStutters DEF PartsInv
<1>. QED  BY <1>1, <1>2, <1>3 DEF PartsNext

(* Whatever is typed, saved, deleted, duplicated or imported in whatever order,
   whatever file cannot be read or written and whenever the keychain answers
   (connection_dialog.rs, settings_dialog.rs): the invariants hold throughout. *)
THEOREM PartsInvariant ==
    PartsSpec => []PartsInv
<1>1. PartsInit => PartsInv  BY PartsInit_Inv
<1>2. PartsInv /\ [PartsNext]_partVars => PartsInv'  BY PartsNext_Inv
<1>. QED  BY <1>1, <1>2, PTL DEF PartsSpec

(* Every variable holds what its code can put there; a secret is only ever in
   the entry of the profile or jump host it was typed for, or in a session of
   that profile; and once no work is under way the keychain holds an entry
   exactly where the list of profiles says so, but for the accounts a failure
   was met at (store_form, KeychainWork, finish_connect, delete_profile). *)
THEOREM PartsAreSound ==
    PartsSpec => []PartsSound
<1>1. PartsInv => PartsSound  BY DialogSound, SettingsSound DEF PartsInv, PartsSound
<1>. QED  BY <1>1, PartsInvariant, PTL

LEMMA FilesStep ==
    ASSUME PartsInv, [PartsNext]_partVars
    PROVE  [ProfilesKept /\ SettingsKept /\ BoardsKept]_partVars
<1>0. current.place = moved  BY DEF PartsInv, SettingsInv, ValuesInv
<1>1. CASE DialogNext /\ UNCHANGED settingsVars
  <2>1. ProfilesKept  BY <1>1, ProfilesStep DEF PartsInv
  <2>2. UNCHANGED <<settings, current, moved, boards>>  BY <1>1 DEF settingsVars
  <2>3. SettingsKept  BY <1>0, <2>2 DEF SettingsKept
  <2>4. BoardsKept  BY <2>2, BoardsStay
  <2>. QED  BY <2>1, <2>3, <2>4
<1>2. CASE SettingsNext /\ UNCHANGED dialogVars
  <2>1. SettingsInv /\ SettingsNext  BY <1>2 DEF PartsInv
  <2>4. SettingsKept  BY <2>1, SettingsStep
  <2>5. BoardsKept  BY <2>1, BoardsStep
  <2>2. list' = list  BY <1>2 DEF dialogVars, file
  <2>3. ProfilesKept  BY <2>2 DEF ProfilesKept
  <2>. QED  BY <2>3, <2>4, <2>5
<1>. QED  BY <1>1, <1>2 DEF PartsNext

(* No step writes over what another window, another dialog or the user put into
   the profiles, the settings or the dashboards and the step is not about
   (store_form, delete_profile; write, save, carry_window_geometry;
   save_tab_layout, persist_pane_color). *)
THEOREM FilesAreKept ==
    PartsSpec => FilesKept
<1>1. PartsInv /\ [PartsNext]_partVars => [ProfilesKept /\ SettingsKept /\ BoardsKept]_partVars
      BY FilesStep
<1>. QED  BY <1>1, PartsInvariant, PTL DEF PartsSpec, FilesKept

LEMMA AskedOfParts ==
    ASSUME PartsInv, [PartsNext]_partVars
    PROVE  [opened'.profile # 0 => work = NoWork \/ asked = opened'.profile]_dialogVars
<1>1. CASE UNCHANGED dialogVars  BY <1>1
<1>2. CASE DialogNext  BY <1>2, AskedStep DEF PartsInv
<1>. QED  BY <1>1, <1>2 DEF PartsNext, partVars

(* A session opened once the keychain has answered is of the profile its user
   asked to connect to when the keychain was asked, whatever was typed or
   selected meanwhile (KeychainWork, finish_connect). *)
THEOREM SessionsAreAsAsked ==
    PartsSpec => SessionAsAsked
<1>1. PartsInv /\ [PartsNext]_partVars =>
         [opened'.profile # 0 => work = NoWork \/ asked = opened'.profile]_dialogVars
      BY AskedOfParts
<1>. QED  BY <1>1, PartsInvariant, PTL DEF PartsSpec, SessionAsAsked
=============================================================================
