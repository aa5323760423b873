--------------------------- MODULE KeyReplacement ----------------------------
(***************************************************************************)
(* The card of a refused host key: two clicks apart, a removal of the      *)
(* record in the background, and the reconnect after it                    *)
(* (KeyReplacement, host_key_card and replace_host_key of                  *)
(* crates/rulogman-app/src/terminal_view.rs, forget_host_key of            *)
(* session.rs).  The record is the host's in known_hosts; who else         *)
(* connects to it meanwhile may record it again.                           *)
(***************************************************************************)
EXTENDS Naturals, FiniteSets

CONSTANTS
    Keys,       \* what the server may present
    MaxRefusals \* bound: connections refused over a changed key

VARIABLES
    recorded,  \* the key on record for the host, or none
    presented, \* the key the server presents
    refusal,   \* the refusal the session holds: its number, 0 for none
    refusals,  \* counts refusals
    shown,     \* whether the pane is on the screen
    card,      \* KeyReplacement
    asked,     \* the refusal the removal was asked over, 0 once the pane was hidden
    removals   \* the removals under way, by the refusal each was confirmed over

cardVars == <<recorded, presented, refusal, refusals, shown, card, asked, removals>>

None == "none"
CardInit ==
    /\ recorded \in Keys /\ presented \in Keys
    /\ refusal = 0 /\ refusals = 0 /\ shown = TRUE
    /\ card = "offered" /\ asked = 0 /\ removals = {}

\* render: without a refusal, the next one starts from the offer.
\* mutant: the card keeps its half-given answer
KeepsAnswer(r) == card
FromTheOffer(r) == IF r = 0 THEN "offered" ELSE card
Rendered(r) == card' = IF shown THEN FromTheOffer(r) ELSE card

\* The connection is made, and the failure of the last one goes: from the button, the
\* menu of the tab, or after a removal.
Reconnect ==
    /\ refusal # 0
    /\ refusal' = 0
    /\ Rendered(0)
    /\ UNCHANGED <<recorded, presented, refusals, shown, asked, removals>>

\* The server's key is checked: a new host's is recorded, a changed one refused.
Verify ==
    /\ refusal = 0
    /\ IF recorded \in {None, presented} THEN recorded' = presented /\ UNCHANGED <<refusal, refusals>>
       ELSE /\ refusals < MaxRefusals
            /\ refusals' = refusals + 1 /\ refusal' = refusals'
            /\ UNCHANGED recorded
    /\ UNCHANGED <<presented, shown, card, asked, removals>>

Click == shown /\ refusal # 0 /\ UNCHANGED <<recorded, presented, refusal, refusals, shown>>

\* ask and cancel
Ask ==
    /\ Click /\ card \in {"offered", "failed"}
    /\ card' = "confirming" /\ asked' = refusal
    /\ UNCHANGED removals
Cancel ==
    /\ Click /\ card = "confirming"
    /\ card' = "offered"
    /\ UNCHANGED <<asked, removals>>

\* replace_host_key, whose card is drawn over a refusal
Confirm ==
    /\ Click /\ card = "confirming"
    /\ card' = "removing"
    /\ removals' = removals \cup {refusal}
    /\ UNCHANGED asked

\* forget, and its answer's way through finish to the reconnect; a failed one changes
\* nothing.
Finish(ok) ==
    /\ card' = IF card # "removing" THEN card ELSE IF ok THEN "offered" ELSE "failed"
    /\ refusal' = IF card = "removing" /\ ok THEN 0 ELSE refusal
Removed(r, ok) ==
    /\ r \in removals
    /\ removals' = removals \ {r}
    /\ recorded' = IF ok THEN None ELSE recorded
    /\ Finish(ok)
    /\ UNCHANGED <<presented, refusals, shown, asked>>

\* The tab is switched; a shown pane is rendered, a hidden one is not.
Switch ==
    /\ shown' = ~shown
    /\ card' = IF shown' THEN FromTheOffer(refusal) ELSE card
    /\ asked' = IF shown' THEN asked ELSE 0
    /\ UNCHANGED <<recorded, presented, refusal, refusals, removals>>

\* The server changes its key; another pane's connection records it.
Rekey(k) ==
    /\ k # presented /\ presented' = k
    /\ UNCHANGED <<recorded, refusal, refusals, shown, card, asked, removals>>
Other ==
    /\ recorded = None
    /\ recorded' = presented
    /\ UNCHANGED <<presented, refusal, refusals, shown, card, asked, removals>>

CardNext ==
    \/ Reconnect \/ Verify \/ Ask \/ Cancel \/ Confirm \/ Switch \/ Other
    \/ \E r \in removals, ok \in BOOLEAN: Removed(r, ok)
    \/ \E k \in Keys: Rekey(k)
-----------------------------------------------------------------------------
(* Properties.                                                             *)

\* In a pane that stayed on the screen a half-given answer belongs to the refusal the
\* card shows: "The question about a changed host key belongs to the failure it was
\* asked over" (render, Confirm).  Of a pane hidden meanwhile it is not so: nothing draws
\* it while its session is reconnected and refused again.
AskedForThis == shown /\ card = "confirming" /\ asked # 0 => asked = refusal

\* A record goes only while the refusal it was confirmed over, or none, is held.
ForgetsOnlyRefused == [][recorded # None /\ recorded' = None => refusal \in removals]_cardVars
=============================================================================
