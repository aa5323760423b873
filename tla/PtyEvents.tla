------------------------------ MODULE PtyEvents ------------------------------
(***************************************************************************)
(* What a local shell promises to whoever reads its events, on every       *)
(* system: Ready, then output, then one final event and nothing after it.  *)
(* The two drivers of crates/rulogman-pty are written apart and "cannot    *)
(* drift apart on the guarantees the public API makes" (driver.rs); both   *)
(* are shown to keep this promise.                                         *)
(***************************************************************************)
EXTENDS Naturals

CONSTANT Budget      \* OUTPUT_BUDGET, in reads

VARIABLES ready,     \* Ready was published
          published, \* pieces of output published
          taken,     \* pieces of output the consumer got
          final,     \* the event the stream ended with, or "none"
          receiver   \* somebody still reads the stream

eventVars == <<ready, published, taken, final, receiver>>

Init ==
    /\ ready = FALSE /\ published = 0 /\ taken = 0
    /\ final = "none" /\ receiver = TRUE

Open == receiver /\ final = "none"

PublishReady ==
    /\ Open /\ ~ready
    /\ ready' = TRUE
    /\ UNCHANGED <<published, taken, final, receiver>>

PublishOutput ==
    /\ Open /\ ready /\ published - taken < Budget
    /\ published' = published + 1
    /\ UNCHANGED <<ready, taken, final, receiver>>

\* Only a shell that ran exits; it may fail at any time.
Publish(event) ==
    /\ Open
    /\ event = "Exited" => ready
    /\ final' = event
    /\ UNCHANGED <<ready, published, taken, receiver>>

Take ==
    /\ receiver /\ taken < published
    /\ taken' = taken + 1
    /\ UNCHANGED <<ready, published, final, receiver>>

StopReading ==
    /\ receiver
    /\ receiver' = FALSE
    /\ UNCHANGED <<ready, published, taken, final>>

Next ==
    \/ PublishReady \/ PublishOutput \/ Take \/ StopReading
    \/ \E event \in {"Exited", "Error"} : Publish(event)

Spec == Init /\ [][Next]_eventVars
=============================================================================
