---------------------------- MODULE EventStream ----------------------------
(***************************************************************************)
(* What rulogman-stream promises to a session and to the view reading it:  *)
(* one ordered stream of events that the consumer receives without gap,    *)
(* ended by at most one final event after which nothing is accepted, and   *)
(* that either side may abandon.  Sessions and panes are modelled on top   *)
(* of this promise; OutputStream is shown to keep it.                      *)
(***************************************************************************)
EXTENDS Naturals, Sequences

CONSTANTS Event,     \* every event a transport may publish
          Final      \* the events that end a stream

VARIABLES accepted,  \* events the stream took, in the order it took them
          delivered, \* events the consumer got, in the order it got them
          phase      \* "open", "closed" or "abandoned" (no consumer left)

streamVars == <<accepted, delivered, phase>>

Init ==
    /\ accepted = << >>
    /\ delivered = << >>
    /\ phase = "open"

\* One more event is accepted, a member of S.
Took(S) ==
    /\ Len(accepted') = Len(accepted) + 1
    /\ SubSeq(accepted', 1, Len(accepted)) = accepted
    /\ accepted'[Len(accepted')] \in S

Accept ==
    /\ phase = "open"
    /\ Took(Event \ Final)
    /\ UNCHANGED <<delivered, phase>>

Finish ==
    /\ phase = "open"
    /\ phase' = "closed"
    /\ Took(Final)
    /\ UNCHANGED delivered

\* The last producer leaves without a final event.
Close ==
    /\ phase = "open"
    /\ phase' = "closed"
    /\ UNCHANGED <<accepted, delivered>>

Deliver ==
    /\ phase # "abandoned"
    /\ \E n \in (Len(delivered) + 1) .. Len(accepted) :
          delivered' = SubSeq(accepted, 1, n)
    /\ UNCHANGED <<accepted, phase>>

Abandon ==
    /\ phase # "abandoned"
    /\ phase' = "abandoned"
    /\ UNCHANGED <<accepted, delivered>>

Next == Accept \/ Finish \/ Close \/ Deliver \/ Abandon

Spec == Init /\ [][Next]_streamVars
=============================================================================
