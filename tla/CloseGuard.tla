----------------------------- MODULE CloseGuard -----------------------------
(***************************************************************************)
(* Closing a window, or quitting, while remote shells are open             *)
(* (crates/rulogman-app/src/workspace/dialogs.rs, unsaved_work and         *)
(* hold_for_remote_shells; session.rs, would_end_work and read_foreground; *)
(* rulogman-ssh/src/foreground.rs).                                        *)
(*                                                                         *)
(* Whether a shell runs something is a round trip away, and a window is    *)
(* asked synchronously: a gesture that finds a shell without a fresh read  *)
(* is held, and made again once every read is in or has timed out.  A quit *)
(* goes through the guards of all windows.  The guard that shows the       *)
(* question is rugpui_shell's and external, as is the host.                *)
(***************************************************************************)
EXTENDS Naturals, FiniteSets

CONSTANTS
    Windows,
    Shells,   \* the ssh sessions
    Timeout,  \* FOREGROUND_TIMEOUT, in ticks
    Fresh,    \* FOREGROUND_FRESH, in ticks
    MaxGestures, \* bound: gestures of the user
    MaxChanges,  \* bound: lines typed and connections made again
    Nobody

ASSUME CloseGuardAssumption ==
    /\ {Timeout, Fresh, MaxGestures, MaxChanges} \subseteq Nat
    /\ 0 < Timeout /\ Timeout < Fresh
    /\ Nobody \notin Windows

VARIABLES
    home,     \* the window a session is in
    confirm,  \* window.confirm_close_with_sessions
    windows,  \* the windows open
    edited,   \* the windows with a file edited or a transfer on its way
    shell,    \* what each remote shell is doing
    found,    \* ForegroundRead.at_prompt
    age,      \* how long ago it came in; Fresh for a read gone stale or none
    before,   \* history: what was typed or connected came after the host was asked
    reading,  \* reads on their way
    held,     \* held_close, and the shells read for it and not typed at since
    call,     \* a gesture being answered
    asking,   \* CloseGuard: the intent it asks about, and who said yes before it
    ended,    \* history: the shells ended unasked that ran a program
    gestures, \* of the user so far
    changes   \* lines typed and connections made again so far

guardVars == <<home, confirm, windows, edited, shell, found, age, before, reading, held,
               call, asking, ended, gestures, changes>>

Closed == "none"
NoCall == [window |-> Nobody, intent |-> Closed, agreed |-> {}]
NotHeld == [intent |-> Closed, reads |-> {}]
NotAsked == [intent |-> Closed, agreed |-> {}]

\* The processes of a host that matter: the connection's, the shell it started, and
\* what runs in front of the shell in a process group of its own.
Processes(s) ==
    {[pid |-> 1, ppid |-> 0, tpgid |-> 0]}
      \union (IF shell[s] = "off" THEN {}
              ELSE {[pid |-> 2, ppid |-> 1, tpgid |-> IF shell[s] = "busy" THEN 3 ELSE 2]})
      \union (IF shell[s] = "busy" THEN {[pid |-> 3, ppid |-> 2, tpgid |-> 3]} ELSE {})

\* parse: the shell is the child of the connection that has a terminal.
Parse(rows, parent) ==
    LET shells == {r \in rows: r.ppid = parent /\ r.tpgid > 0}
    IN IF shells = {} THEN "unknown"
       ELSE IF \A r \in shells: r.tpgid = r.pid THEN "prompt" ELSE "busy"

\* is_none_or: a read that has come in and is not stale
IsFresh(s) == age[s] < Fresh

\* A read that is stale is as none.
Ages(new) ==
    /\ age' = new
    /\ found' = [s \in Shells |-> IF new[s] < Fresh THEN found[s] ELSE "unknown"]
    /\ before' = [s \in Shells |-> new[s] < Fresh /\ before[s]]

NeedsRead(s) == shell[s] # "off" /\ ~IsFresh(s)

\* would_end_work: of a shell whose answer is not known, everything counts.
EndsWork(s) == shell[s] # "off" /\ ~(IsFresh(s) /\ found[s] = "prompt")

In(w) == {s \in Shells: home[s] = w}

UnsavedWork(w) == w \in edited \/ (confirm /\ \E s \in In(w): EndsWork(s))

GuardInit ==
    /\ home \in [Shells -> Windows] /\ confirm \in BOOLEAN /\ windows = Windows
    /\ edited \in SUBSET Windows
    /\ shell = [s \in Shells |-> "prompt"] /\ found = [s \in Shells |-> "unknown"]
    /\ age = [s \in Shells |-> Fresh] /\ before = [s \in Shells |-> FALSE] /\ reading = {}
    /\ held = [w \in Windows |-> NotHeld] /\ call = NoCall
    /\ asking = [w \in Windows |-> NotAsked] /\ ended = {} /\ gestures = 0 /\ changes = 0
-----------------------------------------------------------------------------
(* A gesture.                                                              *)

Gesture ==
    /\ call = NoCall /\ gestures < MaxGestures /\ gestures' = gestures + 1
    /\ \E w \in windows, i \in {"window", "quit"}:
          call' = [window |-> w, intent |-> i, agreed |-> {}]
    /\ UNCHANGED <<home, confirm, windows, edited, shell, found, age, before, reading, held,
                   asking, ended, changes>>

\* The shells the intent would end.
Ends(w, intent) == IF intent = "window" THEN In(w) ELSE {s \in Shells: home[s] \in windows}

\* hold_for_remote_shells: not while the question is up, nor while sessions would
\* not be listed.
ToRead(w, intent) ==
    IF asking[w] # NotAsked \/ ~confirm THEN {}
    ELSE {s \in Ends(w, intent): NeedsRead(s)}

ReadOf(s, w) ==
    [shell |-> s, window |-> w, left |-> Timeout, answer |-> "pending", before |-> FALSE]

Hold ==
    LET w == call.window
        missing == ToRead(w, call.intent)
    IN /\ call # NoCall
       /\ \/ /\ held[w] # NotHeld /\ held' = [held EXCEPT ![w].intent = call.intent]
             /\ UNCHANGED reading
          \/ /\ held[w] = NotHeld /\ missing # {}
             /\ held' = [held EXCEPT ![w] = [intent |-> call.intent, reads |-> missing]]
             /\ reading' = reading \union {ReadOf(s, w): s \in missing}
       /\ call' = NoCall
    /\ UNCHANGED <<home, confirm, windows, edited, shell, found, age, before, asking, ended,
                   gestures, changes>>

NotOf(h, gone) == [h EXCEPT !.reads = @ \ gone]

\* The gesture is answered: the window closes, or the next one is asked.
Granted(w, intent, agreed) ==
    LET left == windows \ (agreed \union {w})
        gone == IF intent = "window" THEN {w} ELSE windows
        over == {s \in Shells: home[s] \in gone}
    IN IF intent = "quit" /\ left # {}
       THEN /\ \E next \in left:
                  call' = [window |-> next, intent |-> intent, agreed |-> agreed \union {w}]
            /\ UNCHANGED <<windows, shell, reading, held, asking>>
       ELSE /\ windows' = windows \ gone /\ call' = NoCall
            /\ shell' = [s \in Shells |-> IF s \in over THEN "off" ELSE shell[s]]
            /\ reading' = {r \in reading: r.window \notin gone /\ r.shell \notin over}
            /\ held' = [w2 \in Windows |-> IF w2 \in gone THEN NotHeld ELSE NotOf(held[w2], over)]
            /\ asking' = [w2 \in Windows |-> IF w2 \in gone THEN NotAsked ELSE asking[w2]]

\* The shells of a window that says yes without a question.
LostUnasked(w) == {s \in In(w): shell[s] = "busy" /\ ~before[s]}

\* CloseGuard.request, which asks about unsaved_work; a question that is up stays.
GuardAsks ==
    LET w == call.window
    IN /\ call # NoCall /\ held[w] = NotHeld /\ ToRead(w, call.intent) = {}
       /\ IF asking[w] # NotAsked
          THEN call' = NoCall /\ UNCHANGED <<windows, shell, reading, held, asking, ended>>
          ELSE IF UnsavedWork(w)
          THEN /\ asking' = [asking EXCEPT
                                 ![w] = [intent |-> call.intent, agreed |-> call.agreed]]
               /\ call' = NoCall /\ UNCHANGED <<windows, shell, reading, held, ended>>
          ELSE /\ ended' = (IF confirm THEN LostUnasked(w) ELSE {})
               /\ Granted(w, call.intent, call.agreed)
    /\ UNCHANGED <<home, confirm, edited, found, age, before, gestures, changes>>

\* The question is answered.
GuardAnswer ==
    /\ call = NoCall
    /\ \E w \in windows:
          /\ asking[w] # NotAsked
          /\ \/ asking' = [asking EXCEPT ![w] = NotAsked]
                /\ UNCHANGED <<windows, shell, reading, held, call>>
             \/ Granted(w, asking[w].intent, asking[w].agreed \intersect windows)
    /\ UNCHANGED <<home, confirm, edited, found, age, before, ended, gestures, changes>>
-----------------------------------------------------------------------------
(* The reads.                                                              *)

\* The host looks; one that cannot say is as one that does not answer.
HostSays ==
    /\ call = NoCall
    /\ \E r \in reading:
          /\ r.answer = "pending"
          /\ reading' = (reading \ {r}) \union
                           {[r EXCEPT !.answer = Parse(Processes(r.shell), 1)]}
    /\ UNCHANGED <<home, confirm, windows, edited, shell, found, age, before, held, call,
                   asking, ended, gestures, changes>>

\* read_foreground's end: the answer, or nothing within the timeout.
NoAnswerLands(r) == \* mutant: a read that gave up leaves nothing
    /\ IF r.answer = "pending" THEN UNCHANGED <<found, age, before>>
       ELSE /\ found' = [found EXCEPT ![r.shell] = r.answer]
            /\ age' = [age EXCEPT ![r.shell] = 0]
            /\ before' = [before EXCEPT ![r.shell] = r.before]
    /\ reading' = reading \ {r}
Lands(r) ==
    /\ found' = [found EXCEPT ![r.shell] = IF r.answer = "pending" THEN "unknown" ELSE r.answer]
    /\ age' = [age EXCEPT ![r.shell] = 0]
    /\ before' = [before EXCEPT ![r.shell] = r.before]
    /\ reading' = reading \ {r}

ReadIn ==
    /\ call = NoCall
    /\ \E r \in reading: (r.answer # "pending" \/ r.left = 0) /\ Lands(r)
    /\ UNCHANGED <<home, confirm, windows, edited, shell, held, call, asking, ended, gestures,
                   changes>>

WaitsOn(w) == {r \in reading: r.window = w}

\* join_all: the gesture asked for last is made again.
MadeAgain ==
    /\ call = NoCall
    /\ \E w \in windows:
          /\ held[w] # NotHeld /\ WaitsOn(w) = {}
          /\ held' = [held EXCEPT ![w] = NotHeld]
          /\ call' = [window |-> w, intent |-> held[w].intent, agreed |-> {}]
    /\ UNCHANGED <<home, confirm, windows, edited, shell, found, age, before, reading,
                   asking, ended, gestures, changes>>

\* A tick; the timers that are due go first.
Tick ==
    /\ call = NoCall /\ \A r \in reading: r.left > 0 /\ r.answer = "pending"
    /\ \A w \in Windows: held[w] # NotHeld => WaitsOn(w) # {}
    /\ Ages([s \in Shells |-> IF IsFresh(s) THEN age[s] + 1 ELSE Fresh])
    /\ reading' = {[r EXCEPT !.left = @ - 1]: r \in reading}
    /\ UNCHANGED <<home, confirm, windows, edited, shell, held, call, asking, ended,
                   gestures, changes>>
-----------------------------------------------------------------------------
(* The shells, and the user at them.                                       *)

StillTrusted(s) == age \* mutant: what is typed leaves the read in force
NotTrusted(s) == [age EXCEPT ![s] = Fresh]

\* What was asked before now tells nothing of the shell as it is.
Overtaken(s) ==
    /\ held' = [w \in Windows |-> NotOf(held[w], {s})]
    /\ reading' = {IF r.shell = s THEN [r EXCEPT !.before = TRUE] ELSE r: r \in reading}

\* send_input of a line; it may start a program.
TypeLine ==
    /\ call = NoCall /\ changes < MaxChanges /\ changes' = changes + 1
    /\ \E s \in Shells, now \in {"prompt", "busy"}:
          /\ shell[s] # "off" /\ shell' = [shell EXCEPT ![s] = now]
          /\ Ages(NotTrusted(s)) /\ Overtaken(s)
    /\ UNCHANGED <<home, confirm, windows, edited, call, asking, ended, gestures>>

ProgramEnds ==
    /\ call = NoCall
    /\ \E s \in Shells: shell[s] = "busy" /\ shell' = [shell EXCEPT ![s] = "prompt"]
    /\ UNCHANGED <<home, confirm, windows, edited, found, age, before, reading, held, call,
                   asking, ended, gestures, changes>>

\* A connection that is lost and made again, whose shell may start something; the
\* read of the one before is not dropped.
ShellReconnects ==
    /\ call = NoCall /\ changes < MaxChanges /\ changes' = changes + 1
    /\ \E s \in Shells, now \in {"prompt", "busy", "off"}:
          /\ home[s] \in windows /\ shell' = [shell EXCEPT ![s] = now]
          /\ before' = [before EXCEPT ![s] = IsFresh(s)] /\ Overtaken(s)
    /\ UNCHANGED <<home, confirm, windows, edited, found, age, call, asking, ended,
                   gestures>>

\* The editors of a window are saved.
SaveFiles ==
    /\ call = NoCall /\ \E w \in edited \intersect windows: edited' = edited \ {w}
    /\ UNCHANGED <<home, confirm, windows, shell, found, age, before, reading, held, call,
                   asking, ended, gestures, changes>>

GuardNext ==
    \/ Gesture \/ Hold \/ GuardAsks \/ GuardAnswer
    \/ HostSays \/ ReadIn \/ MadeAgain \/ Tick
    \/ TypeLine \/ ProgramEnds \/ ShellReconnects \/ SaveFiles
GuardSpec == GuardInit /\ [][GuardNext]_guardVars
-----------------------------------------------------------------------------
(* Properties.                                                             *)

GuardTypes ==
    /\ home \in [Shells -> Windows] /\ confirm \in BOOLEAN
    /\ windows \subseteq Windows /\ edited \subseteq Windows
    /\ shell \in [Shells -> {"off", "prompt", "busy"}]
    /\ found \in [Shells -> {"unknown", "prompt", "busy"}] /\ age \in [Shells -> 0..Fresh]
    /\ before \in [Shells -> BOOLEAN] /\ ended \subseteq Shells
    /\ reading \subseteq [shell: Shells, window: Windows, left: 0..Timeout,
                          answer: {"pending", "unknown", "prompt", "busy"}, before: BOOLEAN]
    /\ held \in [Windows -> [intent: {Closed, "window", "quit"}, reads: SUBSET Shells]]
    /\ call \in [window: Windows \union {Nobody}, intent: {Closed, "window", "quit"},
                 agreed: SUBSET Windows]
    /\ asking \in [Windows -> [intent: {Closed, "window", "quit"}, agreed: SUBSET Windows]]

(* No window goes without a question over a shell that runs a program, whatever
   was typed, ended, reconnected or asked by another window meanwhile; unless the
   host was asked before the line that started the program, or in the connection
   before (would_end_work, send_input, hold_for_remote_shells). *)
NothingEndedUnasked == ended = {}

(* Once a read a gesture is held for is in, it stays fresh for as long as the
   gesture waits for the others, so the gesture made again does not wait for that
   shell once more; unless it was typed at or connected again since
   (FOREGROUND_FRESH over FOREGROUND_TIMEOUT, join_all). *)
FindsThemFresh ==
    \A w \in Windows: \A s \in held[w].reads:
        IsFresh(s) \/ \E r \in WaitsOn(w): r.shell = s

(* What the guard reads, asks and lets go, with the types of its variables. *)
GuardSound == GuardTypes /\ NothingEndedUnasked /\ FindsThemFresh
=============================================================================
