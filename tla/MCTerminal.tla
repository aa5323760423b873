----------------------------- MODULE MCTerminal -----------------------------
(* The parts of a terminal pane, side by side: what a connection's output    *)
(* becomes, the grid and what is selected and sought in it, the mouse a      *)
(* program listens to, what is typed and pasted, and the card of a refused   *)
(* host key.  A behaviour is one of one part; the others stay where they     *)
(* start.                                                                    *)
EXTENDS TerminalStream, TerminalView

CONSTANTS
    Buttons, Positions, MaxModes, MaxHides, Texts, MaxReads, Keys, MaxRefusals

ASSUME PaneAssumption == "left" \in Buttons /\ Keys # {}

VARIABLES
    part,
    modes, mouseAt, held, mouseShown, pressModes, reported, lastCell, mouseSelecting, told, motion,
    missed, mouseTurns,
    bracketed, focused, accepts, asks, question, reads, preedit, sent, textTurns,
    recorded, presented, refusal, refusals, shown, card, asked, removals

\* Titles, directories and their ends within lines, split characters, and sequences that
\* are cut short, too long or none.
MCStreams ==
    {<<"esc","]","p1","bel","x","nl","esc","]","p2","esc","st","y","nl","x","nl">>,
     <<"x","esc","]","p1","esc","]","p0","x","bel","nl","y","nl","esc","[","x","y","nl">>,
     <<"lead","trail","nl","esc","]","lead","x","can","esc","esc","]","p2","y","y","y","bel","lead","nl","x">>}
\* A full scrollback of one row, and matches of the query in it and on the screen.
MCRows == <<<<"x","-">>, <<" ","-">>, <<"x","x">>>>
MCWritings == {<<"x","x">>}
MCQueries == {<<"x">>}

Mouse == INSTANCE TerminalMouse WITH pointer <- mouseAt, shown <- mouseShown,
                                     selecting <- mouseSelecting, turns <- mouseTurns
Typing == INSTANCE TerminalText WITH shown <- focused, turns <- textTurns
Card == INSTANCE KeyReplacement

mouseState == <<modes, mouseAt, held, mouseShown, pressModes, reported, lastCell, mouseSelecting, told,
                motion, missed, mouseTurns>>
textState == <<bracketed, focused, accepts, asks, question, reads, preedit, sent, textTurns>>
cardState == <<recorded, presented, refusal, refusals, shown, card, asked, removals>>

PaneInit ==
    /\ part \in {"stream", "view", "mouse", "text", "card"}
    /\ StreamInit /\ (legacy <=> \E i \in DOMAIN stream: stream[i] = "lead")
    /\ (part # "stream" => ~keepsLines /\ stream[1] = "x")
    /\ ViewInit /\ (part # "view" => ~follows)
    /\ Mouse!MouseInit
    /\ Typing!TextInit /\ (part # "text" => ~accepts /\ ~asks)
    /\ Card!CardInit /\ (part # "card" => recorded = presented /\ recorded = CHOOSE k \in Keys: TRUE)

PaneNext ==
    /\ UNCHANGED part
    /\ \/ part = "stream" /\ StreamNext /\ UNCHANGED <<viewVars, mouseState, textState, cardState>>
       \/ part = "view" /\ ViewNext /\ UNCHANGED <<streamVars, mouseState, textState, cardState>>
       \/ part = "mouse" /\ Mouse!MouseNext /\ UNCHANGED <<streamVars, viewVars, textState, cardState>>
       \/ part = "text" /\ Typing!TextNext /\ UNCHANGED <<streamVars, viewVars, mouseState, cardState>>
       \/ part = "card" /\ Card!CardNext /\ UNCHANGED <<streamVars, viewVars, mouseState, textState>>

PaneSpec == PaneInit /\ [][PaneNext]_<<part, streamVars, viewVars, mouseState, textState, cardState>>

ViewSound == ViewTypeOK /\ SweptIsSelected
MouseSound == Mouse!MouseSound
PasteAsked == Typing!PasteAsked
AskedForThis == Card!AskedForThis
=============================================================================
