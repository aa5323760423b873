--------------------------- MODULE TerminalStream ---------------------------
(***************************************************************************)
(* The way of a session's output into its emulator: the charset decoder,   *)
(* the keeper of a followed file's lines, the watcher of announced         *)
(* directories (crates/rulogman-term/src/model.rs, charset.rs, lines.rs,   *)
(* cwd.rs) and the filter bar that redraws a followed file (tail_view.rs). *)
(*                                                                         *)
(* The bytes are tokens: an escape, the terminators and a few pieces of    *)
(* text, some of which announce a directory when they begin an OSC, and    *)
(* the two halves of a character of a legacy charset.  The transport cuts  *)
(* the stream anywhere.                                                    *)
(***************************************************************************)
EXTENDS Naturals, Sequences, FiniteSets, SequencesExt

CONSTANTS
    Streams,     \* what a connection may send: sequences of tokens
    MaxChunk,    \* bound: tokens handed over at once
    Capacity,    \* complete lines LineKeeper keeps
    MaxPending,  \* MAX_PENDING: the longest line held back, in tokens
    MaxOscLen,   \* MAX_OSC_LEN, in tokens
    ScreenLines, \* rows of the screen
    MaxTurns     \* bound: notices, filter changes, clears and reconnects

VARIABLES
    stream,  \* what the connection sends
    at,      \* how much of it has arrived
    legacy,  \* whether the session's charset needs a decoder
    partial, \* what the decoder holds of a character
    keepsLines, \* whether the pane follows a file, and its lines are kept
    keeper,  \* LineKeeper: lines, pending, shown, predicate and since
    tracker, \* CwdTracker: state, buffer, overflow, path, host and first
    seen,    \* what the emulator was given since the last reset
    built,   \* how much of seen came before the emulator was last emptied
    whole,   \* the lines completed since then, replayed ones included
    tail,    \* TailView: filter, bar, typed and error
    turns    \* counts notices, filter changes, clears and reconnects

streamVars == <<stream, at, legacy, partial, keepsLines, keeper, tracker, seen, built, whole, tail, turns>>

NoFilter == <<"none">>
Patterns == {"", "x", "("} \* no filter, a pattern, one that is no regular expression
Filters == [pattern: Patterns, mode: {"show", "hide"}]
Notice == "notice" \* a line rulogman writes itself, in color
Bytes(t) == IF t = Notice THEN <<"nl", "esc", "[", "m", "nl">> ELSE <<t>>
Flat(tokens) == FlattenSeq([i \in DOMAIN tokens |-> Bytes(tokens[i])])
-----------------------------------------------------------------------------
(* The decoder.                                                            *)

\* decode, one byte: what is held and the text so far.
Decode(d, b) ==
    CASE d.held = << >> /\ b = "lead" -> [d EXCEPT !.held = <<b>>]
      [] d.held = << >> /\ b = "trail" -> [d EXCEPT !.text = Append(@, "bad")]
      [] d.held = << >> -> [d EXCEPT !.text = Append(@, b)]
      [] b = "trail" -> [held |-> << >>, text |-> Append(d.text, "w")]
      [] b = "lead" -> [d EXCEPT !.text = Append(@, "bad")]
      [] OTHER -> [held |-> << >>, text |-> d.text \o <<"bad", b>>]

DecodedEach(bytes) == FoldLeft(Decode, [held |-> << >>, text |-> << >>], bytes) \* mutant: a decoder per chunk
Decoded(bytes) ==
    IF legacy THEN FoldLeft(Decode, [held |-> partial, text |-> << >>], bytes)
    ELSE [held |-> partial, text |-> bytes]
-----------------------------------------------------------------------------
(* The directory announced.                                                *)

FreshTracker == [state |-> "ground", buffer |-> << >>, overflow |-> FALSE,
                 path |-> << >>, host |-> "none", first |-> "none"]
HostOf == [p0 |-> "none", p1 |-> "a", p2 |-> "b"] \* OSC 1337, and OSC 7 from two hosts
Announces(payload) == payload # << >> /\ payload[1] \in DOMAIN HostOf

Push(t, b) ==
    CASE t.overflow -> t
      [] Len(t.buffer) + 1 > MaxOscLen -> [t EXCEPT !.overflow = TRUE, !.buffer = << >>]
      [] OTHER -> [t EXCEPT !.buffer = Append(@, b)]

Dropped(t, state) == [t EXCEPT !.buffer = << >>, !.overflow = FALSE, !.state = state]

\* finish and commit
Finish(t) ==
    IF t.overflow \/ ~Announces(t.buffer) THEN Dropped(t, "ground")
    ELSE LET host == HostOf[t.buffer[1]]
         IN [Dropped(t, "ground") EXCEPT !.path = t.buffer, !.host = host,
                                         !.first = IF @ = "none" THEN host ELSE @]

\* What keepsLines an escape.
Introduced(t, b) ==
    CASE b = "]" -> Dropped(t, "osc")
      [] b = "esc" -> t
      [] OTHER -> [t EXCEPT !.state = "ground"]

\* mutant: an escape inside a payload ends the sequence and is forgotten
ForgetsEscape(t, b) == Dropped(t, "ground")
Reread(t, b) == Introduced(Dropped(t, "escape"), b)

\* CwdTracker::feed, one byte
Track(t, b) ==
    CASE t.state = "ground" -> IF b = "esc" THEN [t EXCEPT !.state = "escape"] ELSE t
      [] t.state = "escape" -> Introduced(t, b)
      [] t.state = "osc" ->
            CASE b = "bel" -> Finish(t)
              [] b = "esc" -> [t EXCEPT !.state = "oscEscape"]
              [] b = "can" -> Dropped(t, "ground")
              [] OTHER -> Push(t, b)
      [] OTHER -> IF b = "st" THEN Finish(t) ELSE Reread(t, b)
-----------------------------------------------------------------------------
(* The lines of a followed file.                                           *)

\* visible_text and skip_escape, one character
Sees(v, c) ==
    LET text == IF c = "esc" THEN [v EXCEPT !.mode = "escape"]
                ELSE IF c \in {"bel", "can", "nl"} THEN [v EXCEPT !.mode = "text"]
                ELSE [mode |-> "text", out |-> Append(v.out, c)]
    IN CASE v.mode = "text" -> text
         [] v.mode = "escape" ->
               [v EXCEPT !.mode = CASE c = "[" -> "csi" [] c = "]" -> "osc" [] OTHER -> "text"]
         [] v.mode = "csi" -> IF c \in {"m", "x", "y"} THEN [v EXCEPT !.mode = "text"] ELSE v
         [] v.mode = "osc" ->
               CASE c = "bel" -> [v EXCEPT !.mode = "text"]
                 [] c = "esc" -> [v EXCEPT !.mode = "oscEnd"]
                 [] OTHER -> v
         [] OTHER -> IF c = "st" THEN [v EXCEPT !.mode = "text"] ELSE text
VisibleText(line) == FoldLeft(Sees, [mode |-> "text", out |-> << >>], line).out

FreshKeeper == [lines |-> << >>, pending |-> << >>, shown |-> 0, predicate |-> NoFilter, since |-> "fresh"]

Compiled(f) == IF f.pattern = "" THEN NoFilter ELSE <<f.pattern, f.mode>>
Passes(predicate, line) ==
    (predicate[1] \in ToSet(VisibleText(line))) = (predicate[2] = "show")

\* The keeper with its output; emit, from the shown-th token on.
Emitted(k, line, shown) ==
    CASE k.predicate = NoFilter -> [k EXCEPT !.out = @ \o SubSeq(line, shown + 1, Len(line))]
      [] Passes(k.predicate, line) ->
            [k EXCEPT !.out = @ \o (IF k.since = "hidden" THEN <<"reset">> ELSE << >>) \o line,
                      !.since = "shown"]
      [] OTHER -> [k EXCEPT !.since = IF @ = "shown" THEN "hidden" ELSE @]

Newest(ls, n) == SubSeq(ls, IF Len(ls) > n THEN Len(ls) - n + 1 ELSE 1, Len(ls))

\* complete
Complete(k) ==
    LET e == Emitted(k, k.pending, k.shown)
    IN [e EXCEPT !.lines = Newest(Append(@, k.pending), Capacity),
                 !.pending = << >>, !.shown = 0, !.done = Append(@, k.pending)]

KeepByte(k, b) ==
    LET more == [k EXCEPT !.pending = Append(@, b)]
    IN IF b = "nl" THEN Complete(more) ELSE more

\* mutant: a filter judges the line still being written
ShowPending(k) == [k EXCEPT !.out = @ \o SubSeq(k.pending, k.shown + 1, Len(k.pending)), !.shown = Len(k.pending)]
ShowArriving(k) ==
    IF k.predicate # NoFilter THEN k
    ELSE [k EXCEPT !.out = @ \o SubSeq(k.pending, k.shown + 1, Len(k.pending)), !.shown = Len(k.pending)]

With(k) == k @@ [out |-> << >>, done |-> << >>]
Without(k) == [f \in DOMAIN FreshKeeper |-> k[f]]

\* LineKeeper::feed
Fed(k, bytes) ==
    LET all == FoldLeft(KeepByte, With(k), bytes)
    IN ShowArriving(IF Len(all.pending) >= MaxPending THEN Complete(all) ELSE all)

\* replay_with
Replayed(k, predicate) ==
    LET fresh == [With(k) EXCEPT !.predicate = predicate, !.since = "fresh", !.shown = 0]
    IN ShowArriving(FoldLeft(LAMBDA e, line: Emitted(e, line, 0), fresh, k.lines))
-----------------------------------------------------------------------------
(* The model of the terminal.                                              *)

\* advance
Advance(tokens) ==
    /\ seen' = seen \o tokens
    /\ tracker' = FoldLeft(Track, tracker, Flat(tokens))

Turn == turns < MaxTurns /\ turns' = turns + 1

StreamInit ==
    /\ stream \in Streams /\ at = 0 /\ legacy \in BOOLEAN /\ partial = << >>
    /\ keepsLines \in BOOLEAN /\ keeper = FreshKeeper /\ tracker = FreshTracker
    /\ seen = << >> /\ built = 0 /\ whole = << >> /\ turns = 0
    /\ tail = [filter |-> [pattern |-> "", mode |-> "show"], bar |-> FALSE, typed |-> "", error |-> FALSE]

\* feed and deliver: a chunk arrives.
Feed ==
    \E n \in 1..MaxChunk:
        LET d == Decoded(SubSeq(stream, at + 1, at + n))
            k == Fed(keeper, d.text)
        IN /\ at + n <= Len(stream)
           /\ at' = at + n
           /\ partial' = d.held
           /\ IF keepsLines
              THEN keeper' = Without(k) /\ whole' = whole \o k.done /\ Advance(k.out)
              ELSE UNCHANGED <<keeper, whole>> /\ Advance(d.text)
           /\ UNCHANGED <<stream, legacy, keepsLines, built, tail, turns>>

\* feed_str: of a forwarding that failed
Tell ==
    /\ Turn
    /\ Advance(<<Notice>>)
    /\ UNCHANGED <<stream, at, legacy, partial, keepsLines, keeper, built, whole, tail>>

\* reset and set_charset, on a reconnect
Reconnect ==
    /\ Turn
    /\ stream' \in Streams /\ at' = 0 /\ partial' = << >>
    /\ seen' = << >> /\ built' = 0 /\ whole' = << >> /\ tracker' = FreshTracker
    /\ keeper' = [FreshKeeper EXCEPT !.predicate = keeper.predicate]
    /\ UNCHANGED <<legacy, keepsLines, tail>>

\* clear_scrollback: the emulator forgets the rows above the screen.
ClearKept ==
    /\ Turn
    /\ keeper' = [keeper EXCEPT !.lines = Newest(@, ScreenLines)]
    /\ UNCHANGED <<stream, at, legacy, partial, keepsLines, tracker, seen, built, whole, tail>>
-----------------------------------------------------------------------------
(* The filter of a followed file.                                          *)

\* set_line_filter: the emulator is built anew and given what is kept.
Redraw(predicate) ==
    LET k == Replayed(keeper, predicate)
    IN /\ keeper' = Without(k)
       /\ built' = Len(seen)
       /\ whole' = keeper.lines
       /\ Advance(k.out)

\* set_filter, of a bar that now holds typed
SetFilter(f, typed) ==
    /\ Turn /\ keepsLines
    /\ UNCHANGED <<stream, at, legacy, partial, keepsLines>>
    /\ IF f.pattern = "("
       THEN tail' = [tail EXCEPT !.error = TRUE, !.typed = typed] /\ UNCHANGED <<keeper, built, whole, seen, tracker>>
       ELSE /\ tail' = [tail EXCEPT !.error = FALSE, !.typed = typed, !.filter = f]
            /\ IF f = tail.filter THEN UNCHANGED <<keeper, built, whole, seen, tracker>>
               ELSE Redraw(Compiled(f))

TypePattern(p) == tail.bar /\ tail.typed # p /\ SetFilter([tail.filter EXCEPT !.pattern = p], p)
SetFilterMode(mode) == SetFilter([tail.filter EXCEPT !.mode = mode], tail.typed)
ClearFilter == ~tail.bar /\ SetFilter([tail.filter EXCEPT !.pattern = ""], "")

OnlyTail == UNCHANGED <<stream, at, legacy, partial, keepsLines, keeper, tracker, seen, built, whole, turns>>
OpenFilter ==
    /\ keepsLines /\ ~tail.bar
    /\ tail' = [tail EXCEPT !.bar = TRUE, !.typed = tail.filter.pattern]
    /\ OnlyTail
CloseFilter ==
    /\ tail.bar
    /\ tail' = [tail EXCEPT !.bar = FALSE, !.typed = "", !.error = FALSE]
    /\ OnlyTail

StreamNext ==
    \/ Feed \/ Tell \/ Reconnect \/ ClearKept
    \/ \E p \in Patterns: TypePattern(p)
    \/ \E mode \in {"show", "hide"}: SetFilterMode(mode)
    \/ ClearFilter \/ OpenFilter \/ CloseFilter
-----------------------------------------------------------------------------
(* Properties.                                                             *)

\* The text so far, decoded in one piece.
Text == IF legacy THEN FoldLeft(Decode, [held |-> << >>, text |-> << >>], SubSeq(stream, 1, at)).text
        ELSE SubSeq(stream, 1, at)
Told(tokens) == SelectSeq(tokens, LAMBDA t: t # Notice)

\* However the stream was cut, and whatever was told in between: a shell's emulator
\* has its text, and of a followed file the kept lines and the line being written
\* are the newest of the text (CharsetDecoder, LineKeeper, feed_str).
TextArrives ==
    IF keepsLines THEN IsSuffix(FlattenSeq(keeper.lines) \o keeper.pending, Text)
    ELSE Told(seen) = Text

\* The lines as they read under a predicate: those that pass, in the default colors
\* wherever a line was hidden since the last one shown.
Reading(ls, predicate) ==
    LET shown(i) == Passes(predicate, ls[i])
        after(i) == i > 1 /\ ~shown(i - 1) /\ \E j \in 1..(i - 1): shown(j)
    IN FlattenSeq([i \in DOMAIN ls |->
           IF ~shown(i) THEN << >> ELSE (IF after(i) THEN <<"reset">> ELSE << >>) \o ls[i]])

\* What the emulator was given since it was emptied is the lines from then on as they
\* read under the filter in force, and without one the line being written too
\* (feed, emit, replay_with).
ScreenReads ==
    keepsLines => Told(SubSeq(seen, built + 1, Len(seen))) =
        IF keeper.predicate = NoFilter THEN FlattenSeq(whole) \o keeper.pending
        ELSE Reading(whole, keeper.predicate)

\* The sequences in a text that announce a directory, by their first and last byte.
Announcements(s) ==
    LET body(i, j) == SubSeq(s, i + 2, IF s[j] = "bel" THEN j - 1 ELSE j - 2)
        whole_(i, j) ==
            /\ i + 2 < j /\ s[i + 1] = "]"
            /\ s[j] = "st" => s[j - 1] = "esc"
            /\ \A m \in DOMAIN body(i, j): body(i, j)[m] \notin {"bel", "esc", "can"}
            /\ Len(body(i, j)) <= MaxOscLen
        begins == {i \in DOMAIN s: s[i] = "esc"}
        ends == {j \in DOMAIN s: s[j] \in {"bel", "st"}}
    IN {[last |-> r[2], path |-> body(r[1], r[2])]: r \in
           {r \in begins \X ends: whole_(r[1], r[2]) /\ Announces(body(r[1], r[2]))}}

\* The directory and its host are those of the last announcement in what the emulator
\* was given, and the first host is the first one named, however the bytes came
\* (CwdTracker::feed).
CwdAsAnnounced ==
    LET all == Announcements(Flat(seen))
        hosts == {a \in all: HostOf[a.path[1]] # "none"}
        newest == CHOOSE a \in all: \A b \in all: b.last <= a.last
        oldest == CHOOSE a \in hosts: \A b \in hosts: a.last <= b.last
    IN /\ tracker.path = IF all = {} THEN << >> ELSE newest.path
       /\ tracker.host = IF all = {} THEN "none" ELSE HostOf[newest.path[1]]
       /\ tracker.first = IF hosts = {} THEN "none" ELSE HostOf[oldest.path[1]]

\* The emulator judges by the filter of the pane, the last one that compiled.
FilterInForce == keeper.predicate = Compiled(tail.filter)

\* The way in as a whole.
StreamReads == TextArrives /\ ScreenReads /\ CwdAsAnnounced /\ FilterInForce

\* "Whether what the bar holds failed to compile, leaving filter as it was": said of
\* filter_error.
BarTellsErrors == tail.bar => (tail.error <=> tail.typed = "(")
=============================================================================
