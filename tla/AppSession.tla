----------------------------- MODULE AppSession -----------------------------
(***************************************************************************)
(* The session entity of crates/rulogman-app/src/session.rs: what a tab or *)
(* pane shows of one connection over its whole life, through disconnects,  *)
(* reconnects, keychain waits and the reads of the close guard.            *)
(*                                                                         *)
(* Everything here runs on the UI thread, one handler at a time.  The      *)
(* transport is external and used through what SshSession and PtySession   *)
(* promise: events in sequence, one final event, and a resize sent before  *)
(* Ready may be lost.  Each start gets a transport of its own; events of   *)
(* one that was replaced go with its pump.                                 *)
(***************************************************************************)
EXTENDS Naturals, Sequences

CONSTANTS
    Kinds,     \* of "shell", "tail" (a followed file) and "local"
    Routes,    \* of "direct", "hops" and "secrets" (one keeps a secret)
    Sizes,     \* terminal sizes
    Rules,     \* forwarding rules of the profile
    MaxStarts, \* bound: starts of the session
    MaxTyped,  \* bound: inputs
    MaxQueued  \* bound: events the pump has not delivered

ASSUME AppSessionAssumption ==
    /\ Kinds \subseteq {"shell", "tail", "local"}
    /\ Routes \subseteq {"direct", "hops", "secrets"} /\ "direct" \in Routes
    /\ "connection" \notin Rules
    /\ MaxStarts \in Nat \ {0} /\ MaxTyped \in Nat /\ MaxQueued \in Nat \ {0}

None == "none"

\* A read of the foreground: its answer, the start and the inputs at the time it
\* was asked for.
Unasked == [answer |-> None, start |-> 0, typed |-> 0]

VARIABLES
    kind, route,  \* Session.target
    suppressed,   \* tunnels_suppressed
    status,       \* SessionStatus
    stage,        \* ConnectStage
    failure,      \* the kind of the last failure
    transport,    \* Session.transport is Some
    credentials,  \* the keychain is being read for a start
    tunnels,      \* OpenTunnels.labels
    mismatch,     \* HostKeyRecovery.mismatch: the start it was raised in, or 0
    foreground,   \* ForegroundRead while it is fresh, and when it was asked for
    size,         \* the terminal's size
    starts,       \* starts so far: the number of the current one
    \* the transport of the current start
    link,         \* what it is doing
    linkSize,     \* the size the pty has
    offered,      \* rules it was handed
    bound,        \* rules it listens for
    events,       \* events the pump has not delivered
    unread,       \* input the shell has not read yet
    program,      \* a program runs in front of the shell
    heard,        \* the pty was sent input
    read,         \* the read of the foreground in flight
    typed         \* inputs sent by the user

view == <<status, stage, failure, transport, credentials, tunnels, mismatch>>
remote == <<link, linkSize, offered, bound, unread, program, heard>>
vars == <<kind, route, suppressed, view, foreground, size, starts, remote,
          events, read, typed>>

Live == status \in {"Connecting", "Connected"}
HasHops == kind # "local" /\ route # "direct"

Event(k) == [kind |-> k, arg |-> None]
With(k, a) == [kind |-> k, arg |-> a]
Finals == {"Disconnected", "Error", "Exited"}

\* A transport dropped or closed is no longer heard of.
NoLink ==
    /\ link' = None /\ linkSize' = size /\ offered' = {} /\ bound' = {}
    /\ unread' = 0 /\ program' = FALSE /\ heard' = FALSE

OfferOfBefore == mismatch \* mutant: only an event will withdraw it
NoOffer == 0

StaleEvents == events \* mutant: the old pump goes on
FreshEvents == << >>
-----------------------------------------------------------------------------
(* start and connect.                                                      *)

\* connect: a hop without a usable credential is refused here.
RefuseHops ==
    /\ HasHops
    /\ transport' = FALSE
    /\ tunnels' = {} /\ mismatch' = NoOffer
    /\ status' = "Failed"
    /\ failure' = None
    /\ NoLink /\ events' = << >>

\* connect: a transport and a pump of its own, with the rules unless a sibling
\* holds them or the session follows a file.
OpenTransport ==
    /\ transport' = TRUE
    /\ status' = "Connecting"
    /\ failure' = None
    /\ tunnels' = {} /\ mismatch' = NoOffer
    /\ link' = "new" /\ linkSize' = size
    /\ offered' = IF kind = "shell" /\ ~suppressed' THEN Rules ELSE {}
    /\ bound' = {} /\ unread' = 0 /\ program' = FALSE /\ heard' = FALSE
    /\ events' = FreshEvents

Connect == RefuseHops \/ OpenTransport

\* start: with a stored secret on the route the keychain is read first.
Start ==
    /\ starts < MaxStarts
    /\ starts' = starts + 1
    /\ stage' = "Opening"
    /\ \/ /\ HasHops /\ route = "secrets"
          /\ transport' = FALSE /\ credentials' = TRUE
          /\ tunnels' = {} /\ mismatch' = NoOffer /\ failure' = None
          /\ status' = "Connecting"
          /\ NoLink /\ events' = << >>
       \/ /\ ~(HasHops /\ route = "secrets")
          /\ credentials' = FALSE
          /\ Connect

\* The keychain answered.
SecretsRead ==
    /\ credentials
    /\ credentials' = FALSE
    /\ UNCHANGED <<kind, route, suppressed, stage, foreground, size, starts, read, typed>>
    /\ Connect

\* new, new_tail, new_local: start runs within the constructor.
Init ==
    /\ kind \in Kinds /\ route \in Routes
    /\ kind = "local" => route = "direct"
    /\ suppressed \in BOOLEAN
    /\ status = "Disconnected" /\ stage = "Opening" /\ failure = None
    /\ transport = FALSE /\ credentials = FALSE
    /\ tunnels = {} /\ mismatch = 0 /\ foreground = Unasked
    /\ size \in Sizes
    /\ starts = 0
    /\ link = None /\ linkSize = size /\ offered = {} /\ bound = {}
    /\ unread = 0 /\ program = FALSE /\ heard = FALSE
    /\ events = << >> /\ read = Unasked /\ typed = 0

\* reconnect, after the workspace decided about the forwardings; the first time
\* it is the start of the constructor.
Reconnect ==
    /\ suppressed' \in BOOLEAN
    /\ Start
    /\ UNCHANGED <<kind, route, foreground, size, read, typed>>

TunnelsStay == tunnels         \* mutant: no event will clear them
TunnelsAfterDisconnect == {}
CredentialsStay == credentials \* mutant: the keychain's answer still connects
CredentialsAfterDisconnect == FALSE

Disconnect ==
    /\ starts > 0
    /\ transport' = FALSE
    /\ tunnels' = TunnelsAfterDisconnect
    /\ credentials' = CredentialsAfterDisconnect
    /\ status' = IF Live THEN "Disconnected" ELSE status
    /\ NoLink /\ events' = << >>
    /\ UNCHANGED <<kind, route, suppressed, stage, failure, mismatch, foreground, size,
                   starts, read, typed>>
-----------------------------------------------------------------------------
(* The user: input and size.                                               *)

\* A followed file drops it, and does not even scroll.
SendInput ==
    /\ kind # "tail"
    /\ typed < MaxTyped
    /\ typed' = typed + 1
    /\ heard' = (heard \/ transport)
    /\ unread' = IF transport /\ link # "over" THEN unread + 1 ELSE unread
    /\ foreground' = Unasked
    /\ UNCHANGED <<kind, route, suppressed, view, size, starts, link, linkSize, offered,
                   bound, program, events, read>>

\* What becomes of a size handed to the transport: before the shell is up it
\* may be used or lost, at the end it is ignored.
Sized(s) ==
    CASE link = "up" -> {s}
      [] link \in {"new", "opening", "login"} -> {linkSize, s}
      [] OTHER -> {linkSize}

Resize(s) ==
    /\ s # size
    /\ size' = s
    /\ linkSize' \in (IF transport THEN Sized(s) ELSE {s})
    /\ UNCHANGED <<kind, route, suppressed, view, foreground, starts, link, offered,
                   bound, unread, program, heard, events, read, typed>>
-----------------------------------------------------------------------------
(* The pump: one event to the handler.                                     *)

ObserveEveryRule(e) == \* mutant: a failure lists its rule as well
    CASE e.kind \in {"TunnelOpened", "TunnelFailed"} -> tunnels \cup {e.arg}
      [] e.kind \in Finals -> {}
      [] OTHER -> tunnels

\* OpenTunnels::observe
ObserveTunnels(e) ==
    CASE e.kind = "TunnelOpened" -> tunnels \cup {e.arg}
      [] e.kind = "TunnelFailed" -> tunnels \ {e.arg}
      [] e.kind \in Finals -> {}
      [] OTHER -> tunnels

\* HostKeyRecovery::observe: what withdraws the offer.
OfferWithdrawn(e) ==
    \/ e.kind \in {"HostKey", "Connecting", "Ready", "Disconnected"}
    \/ e.kind = "Error" /\ e.arg # "HostKeyRejected"

\* A rejected key raises it, if the policy names the record it collided with.
ObserveKey(e) ==
    \/ /\ e.kind = "KeyRejected"
       /\ mismatch' \in {starts, 0}
    \/ /\ e.kind # "KeyRejected"
       /\ mismatch' = IF OfferWithdrawn(e) THEN 0 ELSE mismatch

SizeNotPushed == UNCHANGED linkSize \* mutant
\* on_transport_ready: the size is pushed again.
SizePushed == linkSize' \in IF transport THEN Sized(size) ELSE {linkSize}

OnReady(e) ==
    /\ e.kind = "Ready"
    /\ status' = "Connected"
    /\ SizePushed
    /\ UNCHANGED <<stage, failure, transport, heard>>

\* on_output: the terminal's answers to queries go straight to the transport.
OnOutput(e) ==
    /\ e.kind = "Data"
    /\ heard' = (heard \/ (e.arg = "query" /\ transport))
    /\ UNCHANGED <<status, stage, failure, transport, linkSize>>

EndKeepsTransport == transport \* mutant
TransportAfterEnd == FALSE

OnFinal(e) ==
    /\ e.kind \in Finals
    /\ transport' = TransportAfterEnd
    /\ status' = IF e.kind = "Error" THEN "Failed" ELSE "Disconnected"
    /\ failure' = IF e.kind = "Error" /\ kind # "local" THEN e.arg ELSE failure
    /\ UNCHANGED <<stage, linkSize, heard>>

OnProgress(e) ==
    /\ e.kind \in {"Connecting", "HostKey", "KeyRejected", "TunnelOpened", "TunnelFailed"}
    /\ status' = IF e.kind = "Connecting" THEN "Connecting" ELSE status
    /\ stage' = CASE e.kind = "Connecting" -> "Opening"
                  [] e.kind = "HostKey" -> "LoggingIn"
                  [] OTHER -> stage
    /\ UNCHANGED <<failure, transport, linkSize, heard>>

\* on_ssh_event, on_pty_event
Pump ==
    /\ events # << >>
    /\ events' = Tail(events)
    /\ LET e == Head(events)
       IN  /\ tunnels' = ObserveTunnels(e)
           /\ ObserveKey(e)
           /\ OnReady(e) \/ OnOutput(e) \/ OnFinal(e) \/ OnProgress(e)
    /\ UNCHANGED <<kind, route, suppressed, credentials, foreground, size, starts, link,
                   offered, bound, unread, program, read, typed>>
-----------------------------------------------------------------------------
(* The close guard's read of a remote shell's foreground.                  *)

NeedsForegroundRead ==
    kind = "shell" /\ status = "Connected" /\ transport /\ foreground = Unasked

ReadForeground ==
    /\ NeedsForegroundRead
    /\ read = Unasked
    /\ read' = [answer |-> "pending", start |-> starts, typed |-> typed]
    /\ UNCHANGED <<kind, route, suppressed, view, foreground, size, starts, remote,
                   events, typed>>

\* The host looks; the answer is on its way.
HostAnswers ==
    /\ read.answer = "pending"
    /\ read.start = starts /\ link = "up"
    /\ read' = [read EXCEPT !.answer = IF program THEN "busy" ELSE "prompt"]
    /\ UNCHANGED <<kind, route, suppressed, view, foreground, size, starts, remote,
                   events, typed>>

\* The answer, or the timeout; which shell it was about is not asked.
ForegroundIs ==
    /\ read # Unasked
    /\ foreground' = read
    /\ read' = Unasked
    /\ UNCHANGED <<kind, route, suppressed, view, size, starts, remote, events, typed>>

\* FOREGROUND_FRESH has passed.
ForegroundStale ==
    /\ foreground # Unasked
    /\ foreground' = Unasked
    /\ UNCHANGED <<kind, route, suppressed, view, size, starts, remote, events, read,
                   typed>>

AtPrompt == foreground.answer = "prompt"

WouldEndWork ==
    /\ Live
    /\ CASE kind = "local" /\ transport -> link # "up" \/ program
         [] kind = "tail" -> FALSE
         [] kind = "shell" /\ transport -> status = "Connected" /\ ~AtPrompt
         [] OTHER -> TRUE
-----------------------------------------------------------------------------
(* The transport (external: SshSession, PtySession).                       *)

Emit(e) == Len(events) < MaxQueued /\ events' = Append(events, e)

Progress ==
    /\ link \in {"new", "opening", "login"}
    /\ \/ /\ kind # "local" /\ link = "new"
          /\ link' = "opening" /\ Emit(Event("Connecting"))
       \/ /\ link = "opening"
          /\ link' \in (IF route = "direct" THEN {"login"} ELSE {"opening", "login"})
          /\ Emit(Event("HostKey"))
       \/ link = "opening" /\ link' = "rejected" /\ Emit(Event("KeyRejected"))
       \/ link = (IF kind = "local" THEN "new" ELSE "login") /\ link' = "up" /\ Emit(Event("Ready"))
    /\ UNCHANGED bound

Listen ==
    /\ link = "up"
    /\ \E r \in offered \ bound :
          \/ bound' = bound \cup {r} /\ Emit(With("TunnelOpened", r))
          \/ UNCHANGED bound /\ Emit(With("TunnelFailed", r))
    /\ UNCHANGED link

ListenFails ==
    /\ link = "up"
    /\ \E r \in bound :
          \/ bound' = bound \ {r} /\ Emit(With("TunnelFailed", r))
          \/ UNCHANGED bound /\ Emit(With("TunnelFailed", "connection"))
    /\ UNCHANGED link

Output ==
    /\ link = "up"
    /\ \E what \in {"text", "query"} : Emit(With("Data", what))
    /\ UNCHANGED <<link, bound>>

End ==
    /\ link \notin {None, "over"}
    /\ link' = "over" /\ bound' = {}
    /\ \/ link = "rejected" /\ Emit(With("Error", "HostKeyRejected"))
       \/ link # "rejected" /\ Emit(With("Error", "Connect"))
       \/ Emit(Event(IF kind = "local" THEN "Exited" ELSE "Disconnected"))

TransportStep ==
    /\ transport
    /\ Progress \/ Listen \/ ListenFails \/ Output \/ End
    /\ UNCHANGED <<kind, route, suppressed, view, foreground, size, starts, linkSize,
                   offered, unread, program, heard, read, typed>>

\* The shell reads a command line and runs it, or a program ends.
ShellStep ==
    /\ link = "up"
    /\ \/ /\ unread > 0 /\ ~program
          /\ unread' = unread - 1 /\ program' \in BOOLEAN
       \/ /\ program
          /\ program' = FALSE /\ UNCHANGED unread
    /\ UNCHANGED <<kind, route, suppressed, view, foreground, size, starts, link,
                   linkSize, offered, bound, heard, events, read, typed>>

Next ==
    \/ Reconnect \/ SecretsRead \/ Disconnect
    \/ SendInput \/ (\E s \in Sizes : Resize(s))
    \/ Pump
    \/ ReadForeground \/ HostAnswers \/ ForegroundIs \/ ForegroundStale
    \/ TransportStep \/ ShellStep

Spec == Init /\ [][Next]_vars
-----------------------------------------------------------------------------
TypeOK ==
    /\ kind \in Kinds /\ route \in Routes /\ suppressed \in BOOLEAN
    /\ status \in {"Connecting", "Connected", "Disconnected", "Failed"}
    /\ stage \in {"Opening", "LoggingIn"}
    /\ failure \in {None, "HostKeyRejected", "Connect"}
    /\ transport \in BOOLEAN /\ credentials \in BOOLEAN
    /\ tunnels \subseteq Rules /\ mismatch \in 0 .. MaxStarts
    /\ size \in Sizes /\ linkSize \in Sizes
    /\ link \in {None, "new", "opening", "login", "rejected", "up", "over"}
    /\ starts \in 0 .. MaxStarts /\ typed \in 0 .. MaxTyped
    /\ Len(events) <= MaxQueued

\* A session shown as connecting or connected has a transport, or waits for the
\* keychain to get one, never both; one shown as ended has neither, so that
\* nothing is left running behind it.
TransportIffLive ==
    /\ Live <=> transport \/ credentials
    /\ ~(transport /\ credentials)

\* The mark on the tab is honest: a rule is listed only while the transport
\* this session has now listens for it, or the event that withdraws it is on
\* its way.
TunnelsHeld ==
    \A r \in tunnels :
        /\ transport /\ r \in offered
        /\ \/ r \in bound
           \/ \E i \in 1 .. Len(events) :
                 events[i] = With("TunnelFailed", r) \/ events[i].kind \in Finals

\* The offer to replace a host key is shown only beside the failure it
\* explains, and for the key of that very attempt.
MismatchExplainsFailure ==
    status = "Failed" /\ mismatch # 0 =>
        failure = "HostKeyRejected" /\ mismatch = starts

\* Connected is said of the transport at hand, never on the word of one that
\* was replaced.
ConnectedMeansReady == status = "Connected" => link \in {"up", "over"}

\* A terminal laid out and resized while its transport came up still ends up
\* with a pty of its own size, although such a resize may have been lost.
SizeAgrees == status = "Connected" /\ link = "up" => linkSize = size

\* A session that ended, or was closed while it waited for the keychain, comes
\* back only when it is started again.
EndedStaysEnded == [][~Live /\ Live' => starts' = starts + 1]_vars

\* What the tab shows of the connection is so: its status, its forwardings, that it
\* is connected and the size of its terminal (set_status, observe, on_event,
\* on_transport_ready).
StatusHonest ==
    TypeOK /\ TransportIffLive /\ TunnelsHeld /\ ConnectedMeansReady /\ SizeAgrees

\* session.rs:842 "the terminal's own replies all arrive here, and the one place
\* that can refuse them all is the one place they all pass through": nothing is
\* typed at a followed file.
TailHearsNothing == kind = "tail" => ~heard

\* session.rs:97 "How long a read of a remote shell's foreground is trusted,
\* while nothing has been typed at the shell since": an answer that lets a
\* shell be closed unasked is about this shell, as it was last typed at.
ForegroundTrusted ==
    kind = "shell" /\ status = "Connected" /\ ~WouldEndWork =>
        foreground.start = starts /\ foreground.typed = typed
=============================================================================
