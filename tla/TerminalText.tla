---------------------------- MODULE TerminalText -----------------------------
(***************************************************************************)
(* The text a terminal pane sends: keys, compositions, and pastes with the *)
(* question put before one of several lines                                *)
(* (crates/rulogman-app/src/terminal_view.rs, and encode_paste of          *)
(* crates/rulogman-term/src/keys.rs).                                      *)
(***************************************************************************)
EXTENDS Naturals, FiniteSets

CONSTANTS
    Texts,     \* what the clipboard may hold: within {"line", "lines", "other lines"}
    MaxModes,  \* bound: how often the program changes its modes
    MaxReads   \* bound: reads of the clipboard and of the primary selection

VARIABLES
    bracketed, \* the terminal's bracketed paste mode
    shown,     \* whether the pane has the keyboard
    accepts,   \* accepts_input: not a followed file
    asks,      \* warn_multiline_paste
    question,  \* paste_question
    reads,     \* the clipboard reads in flight
    preedit,   \* whether a composition is under way
    sent,      \* the last text that went out
    turns      \* counts changes of the mode and reads

textVars == <<bracketed, shown, accepts, asks, question, reads, preedit, sent, turns>>

None == "none"
TextInit ==
    /\ bracketed = FALSE /\ shown = TRUE /\ accepts \in BOOLEAN /\ asks \in BOOLEAN
    /\ question = None /\ reads = {} /\ preedit = FALSE
    /\ sent = [text |-> None, bracketed |-> FALSE, n |-> 0]
    /\ turns = [modes |-> 0, reads |-> 0]

\* send_input, which a followed file drops; encode_paste brackets by the mode of now.
Send(t) == IF accepts THEN sent' = [text |-> t, bracketed |-> bracketed /\ t \in Texts, n |-> 1 - sent.n]
           ELSE UNCHANGED sent

\* is_multiline
Several(t) == t \in {"lines", "other lines"}

\* paste_text, on what the modes are by then
PasteText(t) ==
    IF asks /\ ~bracketed /\ Several(t) /\ accepts THEN question' = t /\ UNCHANGED sent
    ELSE Send(t) /\ UNCHANGED question

\* paste_clipboard: the read
AskClipboard(t) ==
    /\ shown /\ turns.reads < MaxReads /\ turns' = [turns EXCEPT !.reads = @ + 1]
    /\ reads' = reads \cup {[text |-> t, bracketed |-> bracketed]}
    /\ UNCHANGED <<bracketed, shown, accepts, asks, question, preedit, sent>>

\* mutant: the question is decided when the read begins
DecidedThen(r) ==
    IF asks /\ ~r.bracketed /\ Several(r.text) /\ accepts THEN question' = r.text /\ UNCHANGED sent
    ELSE Send(r.text) /\ UNCHANGED question
Decided(r) == PasteText(r.text)

\* The owner of the clipboard answers; an empty answer pastes nothing.
Answer(r) ==
    /\ r \in reads
    /\ reads' = reads \ {r}
    /\ Decided(r) \/ UNCHANGED <<question, sent>>
    /\ UNCHANGED <<bracketed, shown, accepts, asks, preedit, turns>>

\* on_middle_mouse_down, where it pastes the primary selection
MiddlePaste(t) ==
    /\ shown /\ turns.reads < MaxReads /\ turns' = [turns EXCEPT !.reads = @ + 1]
    /\ PasteText(t)
    /\ UNCHANGED <<bracketed, shown, accepts, asks, reads, preedit>>

\* confirm_paste and cancel_paste
ConfirmPaste ==
    /\ shown /\ question # None
    /\ question' = None /\ Send(question)
    /\ UNCHANGED <<bracketed, shown, accepts, asks, reads, preedit, turns>>
CancelPaste ==
    /\ shown /\ question # None
    /\ question' = None
    /\ UNCHANGED <<bracketed, shown, accepts, asks, reads, preedit, sent, turns>>

\* on_key_down
Key ==
    /\ shown /\ question = None
    /\ Send("key")
    /\ UNCHANGED <<bracketed, shown, accepts, asks, question, reads, preedit, turns>>

\* replace_and_mark_text_in_range and unmark_text
Compose(on) ==
    /\ shown /\ preedit # on
    /\ preedit' = on
    /\ UNCHANGED <<bracketed, shown, accepts, asks, question, reads, sent, turns>>

\* replace_text_in_range: the composition ends, and what it came to is sent; Windows
\* says nothing of a canceled one.
Commit ==
    /\ shown /\ preedit
    /\ preedit' = FALSE
    /\ Send("composed") \/ UNCHANGED sent
    /\ UNCHANGED <<bracketed, shown, accepts, asks, question, reads, turns>>

\* The program changes its mode, with any output.
ChangeMode ==
    /\ turns.modes < MaxModes /\ turns' = [turns EXCEPT !.modes = @ + 1]
    /\ bracketed' = ~bracketed
    /\ UNCHANGED <<shown, accepts, asks, question, reads, preedit, sent>>

\* The focus goes and comes: a composition does not outlive it (watch_blur).
Switch ==
    /\ shown' = ~shown /\ preedit' = FALSE
    /\ UNCHANGED <<bracketed, accepts, asks, question, reads, sent, turns>>

\* The setting is changed.
SetAsks ==
    /\ asks' = ~asks
    /\ UNCHANGED <<bracketed, shown, accepts, question, reads, preedit, sent, turns>>

TextNext ==
    \/ \E t \in Texts: AskClipboard(t) \/ MiddlePaste(t)
    \/ \E r \in reads: Answer(r)
    \/ ConfirmPaste \/ CancelPaste \/ Key \/ Commit
    \/ \E on \in BOOLEAN: Compose(on)
    \/ ChangeMode \/ Switch \/ SetAsks
-----------------------------------------------------------------------------
(* Properties.                                                             *)

\* The user was asked, over this very text, about every paste of several lines that went
\* out bare while the setting says to ask, whatever the program did to its modes while
\* the clipboard was read (paste_text, paste_clipboard).
PasteAsked ==
    [][sent' # sent /\ Several(sent'.text) /\ ~sent'.bracketed /\ asks => question = sent'.text]_textVars

\* "Nor does anything typed while the paste question is up, which only Enter and Escape
\* answer": the comment of on_key_down.
QuestionHoldsTyping ==
    [][sent' # sent /\ question # None => sent'.text = question]_textVars
=============================================================================
