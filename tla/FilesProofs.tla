----------------------------- MODULE FilesProofs -----------------------------
(***************************************************************************)
(* The file panel asks about the directory it lists, shows nothing its     *)
(* session removed, and gives its one slot to one batch at a time, for any *)
(* directories, names and number of batches; its menus and selection       *)
(* belong to the session on screen.  And the editor's pane and its saves   *)
(* are sound for every set of sources and panes and any number of          *)
(* contents: no save replaces what the editor does not know, what is shown *)
(* as saved was on disk, and a pane armed to close waits for a save or a   *)
(* password.  At the end, a batch: whatever the tree and its links,        *)
(* nothing goes but what was asked for, and a deletion has all of it.      *)
(***************************************************************************)
EXTENDS FilePanel, PanelMenus, EditorPane, Transfers, SequenceTheorems, FiniteSetTheorems,
        WellFoundedInduction, TLAPS

-----------------------------------------------------------------------------
(* The inductive invariant of questions, listings and batches.             *)

Notices == {"none", "info", "error"}
PanelState ==
    [path : Dirs \union {NoDir}, entries : SUBSET Names, prompt : Question \union {NoQuestion},
     generation : Nat, busy : BOOLEAN, failed : BOOLEAN, notice : Notices, keep : BOOLEAN,
     unseen : BOOLEAN, transfer : Nat, canceled : BOOLEAN, queue : Seq(Nat)]
Listing ==
    [generation : Nat, dir : Dirs, answer : {"none", "read", "failed"}, got : SUBSET Names]
Batch ==
    [kind : {"none", "upload", "download", "delete"}, dir : Dirs \union {NoDir},
     left : SUBSET Names, moved : BOOLEAN, stage : {"waiting", "moving", "done"}]
Rename == [dir : Dirs, from : SUBSET Names, to : Names, done : BOOLEAN]

PanelShapes ==
    /\ server \in [Dirs -> SUBSET Names]
    /\ view \in {"shown", "unseen", "closed"} /\ known \in BOOLEAN
    /\ state \in PanelState
    /\ listings \subseteq Listing /\ renames \subseteq Rename
    /\ batches \in Seq(Batch)
    /\ \A b \in Batches : batches[b].kind \in {"upload", "delete"} => batches[b].dir \in Dirs

Staged(b, at) == batches[b].stage = at

\* Until its first listing is asked for, a session has nothing under way.
Begins ==
    view # "closed" /\ ~known =>
        /\ state.path = NoDir /\ state.transfer = 0 /\ state.queue = << >>
        /\ listings = {} /\ renames = {}
        /\ \A b \in Batches : Staged(b, "done")

Apart(q) == \A i, j \in 1 .. Len(q) : q[i] = q[j] => i = j
Queued(b) == \E i \in 1 .. Len(state.queue) : state.queue[i] = b

\* The slot names the batch that moves, the queue those that wait, each once.
Slot ==
    /\ state.transfer \in 0 .. Len(batches)
    /\ \A i \in 1 .. Len(state.queue) : state.queue[i] \in Batches
    /\ view # "closed" =>
          /\ \A b \in Batches : Staged(b, "moving") <=> b = state.transfer
          /\ \A b \in Batches : Staged(b, "waiting") <=> Queued(b)
          /\ Apart(state.queue)
          /\ state.queue # << >> => state.transfer # 0

\* What is asked is asked of the listing, and before the first there is nothing to
\* ask about.
Prompts ==
    /\ QuestionsMatchListing
    /\ state.path = NoDir => state.entries = {} /\ state.prompt.kind \in {"none", "download"}

\* Names are going, or went and the list was not asked for again yet.
Removing ==
    \/ \E b \in Batches : Staged(b, "moving") /\ batches[b].kind = "delete"
    \/ \E r \in renames : r.done
Current(l) == l \in listings /\ l.generation = state.generation

\* Unless names are going: the listing that is expected read no name that is gone, and
\* the list shows none, or is about to be replaced.
Recent == \A l \in listings : l.generation <= state.generation
ReadsTrue ==
    Removing \/ \A l \in listings : Current(l) /\ l.answer = "read" => l.got \subseteq server[l.dir]
ShowsTrue ==
    \/ Removing \/ (\E l \in listings : Current(l)) \/ state.failed \/ state.path = NoDir
    \/ state.entries \subseteq server[state.path]
Truth == view # "closed" => Recent /\ ReadsTrue /\ ShowsTrue

PanelInv == PanelShapes /\ Begins /\ Slot /\ Prompts /\ Truth
-----------------------------------------------------------------------------
(* What the operators on the state change.                                 *)

\* Two states that differ in the status line and the flags of the slot only.
Alike(s, r) ==
    /\ r \in PanelState
    /\ r.path = s.path /\ r.entries = s.entries /\ r.prompt = s.prompt
    /\ r.generation = s.generation /\ r.failed = s.failed
    /\ r.transfer = s.transfer /\ r.queue = s.queue

LEMMA AlikeTwice == ASSUME NEW a, NEW b, NEW c, Alike(a, b), Alike(b, c) PROVE Alike(a, c)
  BY DEF Alike

LEMMA AlikeSelf == ASSUME NEW s \in PanelState PROVE Alike(s, s)
  BY DEF Alike

LEMMA SayAlike ==
    ASSUME NEW s \in PanelState, NEW notice \in Notices PROVE Alike(s, Say(s, notice))
  BY DEF Alike, Say, PanelState

LEMMA FlagsAlike ==
    ASSUME NEW s \in PanelState, NEW b \in BOOLEAN
    PROVE  /\ Alike(s, [s EXCEPT !.keep = b]) /\ Alike(s, [s EXCEPT !.canceled = b])
           /\ Alike(s, [s EXCEPT !.unseen = b]) /\ Alike(s, [s EXCEPT !.busy = b])
  BY DEF Alike, PanelState

LEMMA NoQuestionType == NoQuestion \in Question \union {NoQuestion} /\ NoQuestion.kind = "none"
  BY DEF NoQuestion

LEMMA NewStateFacts ==
    /\ NewState \in PanelState
    /\ NewState.path = NoDir /\ NewState.entries = {} /\ NewState.prompt = NoQuestion
    /\ NewState.generation = 0 /\ NewState.transfer = 0 /\ NewState.queue = << >>
    /\ NewState.notice = "none"
  BY EmptySeq, NoQuestionType DEF NewState, PanelState, Notices

\* The state without its question.
Unasked(s, r) ==
    /\ r \in PanelState
    /\ r.path = s.path /\ r.entries = s.entries /\ r.prompt = NoQuestion
    /\ r.generation = s.generation /\ r.failed = s.failed
    /\ r.transfer = s.transfer /\ r.queue = s.queue

LEMMA PromptUnasked ==
    ASSUME NEW s \in PanelState PROVE Unasked(s, [s EXCEPT !.prompt = NoQuestion])
  BY NoQuestionType DEF Unasked, PanelState

LEMMA GoFacts ==
    ASSUME NEW s \in PanelState, NEW dir \in Dirs, Go(s, dir),
           NEW at, at = IF known THEN s ELSE NewState
    PROVE  /\ known' = TRUE /\ state' \in PanelState
           /\ state'.path = at.path /\ state'.entries = at.entries /\ state'.prompt = at.prompt
           /\ state'.transfer = at.transfer /\ state'.queue = at.queue
           /\ state'.generation = at.generation + 1 /\ at.generation \in Nat
           /\ \E l \in Listing : /\ listings' = listings \union {l}
                                 /\ l.generation = at.generation + 1 /\ l.answer = "none"
<1>1. at \in PanelState
  BY NewStateFacts
<1>2. PICK yes \in BOOLEAN : state' = [at EXCEPT !.generation = @ + 1, !.busy = yes]
  BY Zenon DEF Go
<1>3. /\ state' \in PanelState
      /\ state'.path = at.path /\ state'.entries = at.entries /\ state'.prompt = at.prompt
      /\ state'.transfer = at.transfer /\ state'.queue = at.queue
      /\ state'.generation = at.generation + 1 /\ at.generation \in Nat
  <2>1. at.generation \in Nat
    BY <1>1 DEF PanelState
  <2>2. PICK n \in Nat : n = at.generation + 1
    BY <2>1
  <2>3. state' = [at EXCEPT !.generation = n, !.busy = yes]
    BY <1>2, <2>2
  <2>4. /\ state' \in PanelState
        /\ state'.path = at.path /\ state'.entries = at.entries /\ state'.prompt = at.prompt
        /\ state'.transfer = at.transfer /\ state'.queue = at.queue
        /\ state'.generation = n
    BY <1>1, <2>3 DEF PanelState
  <2> QED BY <2>1, <2>2, <2>4
<1>4. listings' = listings \union
         {[generation |-> at.generation + 1, dir |-> dir, answer |-> "none", got |-> {}]}
  BY DEF Go
<1>5. [generation |-> at.generation + 1, dir |-> dir, answer |-> "none", got |-> {}] \in Listing
  BY <1>3 DEF Listing
<1> QED BY <1>3, <1>4, <1>5, Zenon DEF Go
-----------------------------------------------------------------------------
(* What leaves the parts of the invariant alone.                           *)

LEMMA SlotSame ==
    ASSUME Slot, UNCHANGED batches, view' # "closed" => view # "closed",
           state'.transfer = state.transfer, state'.queue = state.queue
    PROVE  Slot'
<1>1. /\ batches' = batches /\ Batches' = Batches
      /\ state'.transfer = state.transfer /\ state'.queue = state.queue
  BY DEF Batches
<1>2. /\ state'.transfer \in 0 .. Len(batches')
      /\ \A i \in 1 .. Len(state'.queue) : state'.queue[i] \in Batches'
  BY <1>1 DEF Slot
<1>3. CASE view' = "closed"
  BY <1>2, <1>3 DEF Slot
<1>4. CASE view' # "closed"
  <2>1. /\ \A b \in Batches : Staged(b, "moving") <=> b = state.transfer
        /\ \A b \in Batches : Staged(b, "waiting") <=> Queued(b)
        /\ Apart(state.queue)
        /\ state.queue # << >> => state.transfer # 0
    BY <1>4 DEF Slot
  <2>2. ASSUME NEW b \in Batches'
        PROVE  /\ Staged(b, "moving")' <=> b = state'.transfer
               /\ Staged(b, "waiting")' <=> Queued(b)'
    BY <1>1, <2>1, <2>2 DEF Staged, Queued
  <2>3. Apart(state.queue)' /\ (state'.queue # << >> => state'.transfer # 0)
    BY <1>1, <2>1 DEF Apart
  <2> QED BY <1>2, <2>2, <2>3, Zenon DEF Slot
<1> QED BY <1>3, <1>4

LEMMA PromptsSame ==
    ASSUME Prompts, state'.path = state.path, state'.entries = state.entries,
           state'.prompt \in {state.prompt, NoQuestion}
    PROVE  Prompts'
  BY NoQuestionType DEF Prompts, QuestionsMatchListing

LEMMA TruthSame ==
    ASSUME PanelShapes, Truth, UNCHANGED listings, view' # "closed" => view # "closed",
           state'.generation = state.generation, state'.path = state.path,
           state'.entries = state.entries, state'.failed = state.failed,
           Removing => Removing', Removing' \/ \A d \in Dirs : server[d] \subseteq server'[d]
    PROVE  Truth'
<1>1. state.path \in Dirs \union {NoDir} /\ \A l \in listings : l.dir \in Dirs
  BY DEF PanelShapes, PanelState, Listing
<1>2. Recent' \/ view' = "closed"
  BY DEF Truth, Recent
<1>3. ReadsTrue' \/ view' = "closed"
  BY <1>1 DEF Truth, ReadsTrue, Current
<1>4. ShowsTrue' \/ view' = "closed"
  BY <1>1 DEF Truth, ShowsTrue, Current
<1> QED BY <1>2, <1>3, <1>4 DEF Truth

LEMMA RemovingSame == ASSUME UNCHANGED <<batches, renames>> PROVE Removing' = Removing
  BY DEF Removing, Staged, Batches

\* The status line, the flags of the slot and the question go as they please.
LEMMA QuietKeeps ==
    ASSUME PanelInv, Alike(state, state') \/ Unasked(state, state'),
           UNCHANGED <<server, known, listings, batches>>,
           renames' \subseteq Rename, known \/ renames' \subseteq renames, Removing => Removing',
           view' \in {"shown", "unseen", "closed"}, view' # "closed" => view # "closed"
    PROVE  PanelInv'
<1>1. /\ state' \in PanelState
      /\ state'.generation = state.generation /\ state'.path = state.path
      /\ state'.entries = state.entries /\ state'.failed = state.failed
      /\ state'.transfer = state.transfer /\ state'.queue = state.queue
      /\ state'.prompt \in {state.prompt, NoQuestion}
  BY DEF Alike, Unasked
<1>2. PanelShapes'
  BY <1>1 DEF PanelInv, PanelShapes, Batches
<1>3. Begins'
  BY <1>1 DEF PanelInv, Begins, Batches, Staged
<1>4. Slot' /\ Prompts'
  BY <1>1, SlotSame, PromptsSame DEF PanelInv
<1>5. Truth'
  BY <1>1, TruthSame DEF PanelInv
<1> QED BY <1>2, <1>3, <1>4, <1>5 DEF PanelInv

LEMMA CalmKeeps ==
    ASSUME PanelInv, Alike(state, state') \/ Unasked(state, state'),
           UNCHANGED <<remote, known, listings, batches>>,
           view' \in {"shown", "unseen", "closed"}, view' # "closed" => view # "closed"
    PROVE  PanelInv'
  BY QuietKeeps, RemovingSame DEF remote, PanelInv, PanelShapes

LEMMA StatusSteps ==
    ASSUME PanelInv, NoticeExpires \/ Hide \/ Show \/ Cancel \/ CancelPrompt PROVE PanelInv'
<1>0. state \in PanelState
  BY DEF PanelInv, PanelShapes
<1>1. CASE NoticeExpires
  BY <1>0, <1>1, SayAlike, CalmKeeps DEF NoticeExpires, Notices, PanelInv, PanelShapes
<1>2. CASE Hide
  BY <1>0, <1>2, AlikeSelf, PromptUnasked, CalmKeeps DEF Hide
<1>3. CASE Show
  <2>1. PICK no \in BOOLEAN : state' = [state EXCEPT !.unseen = no]
    BY <1>3, Zenon DEF Show, MarkSeen
  <2> QED BY <1>0, <1>3, <2>1, FlagsAlike, CalmKeeps DEF Show
<1>4. CASE Cancel
  <2>1. PICK yes \in BOOLEAN : state' = [state EXCEPT !.canceled = yes]
    BY <1>4, Zenon DEF Cancel
  <2> QED BY <1>0, <1>4, <2>1, FlagsAlike, CalmKeeps DEF Cancel, PanelInv, PanelShapes
<1>5. CASE CancelPrompt
  BY <1>0, <1>5, PromptUnasked, CalmKeeps DEF CancelPrompt, PanelInv, PanelShapes
<1> QED BY <1>1, <1>2, <1>3, <1>4, <1>5
-----------------------------------------------------------------------------
(* Listings.                                                               *)

LEMMA TruthGo ==
    ASSUME PanelShapes, Begins, Truth, NEW s \in PanelState, s.generation = state.generation,
           NEW dir \in Dirs, Go(s, dir), UNCHANGED view
    PROVE  Truth'
<1> SUFFICES ASSUME view # "closed" PROVE Recent' /\ ReadsTrue' /\ ShowsTrue'
  BY DEF Truth
<1>1. PICK n \in Nat : /\ state'.generation = n + 1
                       /\ \A l \in listings : l.generation \in Nat /\ l.generation <= n
                       /\ \E l \in Listing : /\ listings' = listings \union {l}
                                              /\ l.generation = n + 1 /\ l.answer = "none"
  <2> DEFINE at == IF known THEN s ELSE NewState
  <2>1. /\ state'.generation = at.generation + 1 /\ at.generation \in Nat
        /\ \E l \in Listing : /\ listings' = listings \union {l}
                              /\ l.generation = at.generation + 1 /\ l.answer = "none"
    BY GoFacts
  <2>2. \A l \in listings : l.generation \in Nat /\ l.generation <= at.generation
    BY NewStateFacts DEF Begins, Truth, Recent, PanelShapes, Listing
  <2> QED BY <2>1, <2>2
<1> QED BY <1>1 DEF Recent, ReadsTrue, ShowsTrue, Current

LEMMA GoKeeps ==
    ASSUME PanelInv, NEW s, Alike(state, s), NEW dir \in Dirs, Go(s, dir),
           UNCHANGED <<server, view, batches>>, renames' \subseteq renames
    PROVE  PanelInv'
<1> DEFINE at == IF known THEN s ELSE NewState
<1>0. s \in PanelState /\ s.generation = state.generation
  BY DEF Alike
<1>1. /\ known' = TRUE /\ state' \in PanelState
      /\ state'.path = at.path /\ state'.entries = at.entries /\ state'.prompt = at.prompt
      /\ state'.transfer = at.transfer /\ state'.queue = at.queue
      /\ \E l \in Listing : listings' = listings \union {l}
  BY <1>0, GoFacts
<1>2. PanelShapes' /\ Begins'
  BY <1>1 DEF PanelInv, PanelShapes, Begins, Batches
<1>3. Slot'
  <2>1. CASE view # "closed"
    <3>1. at.transfer = state.transfer /\ at.queue = state.queue
      BY <2>1, NewStateFacts DEF PanelInv, Begins, Alike
    <3> QED BY <1>1, <3>1, SlotSame DEF PanelInv
  <2>2. CASE view = "closed"
    <3>1. CASE known
      BY <1>1, <3>1, SlotSame DEF PanelInv, Alike
    <3>2. CASE ~known
      BY <1>1, <2>2, <3>2, NewStateFacts DEF PanelInv, Slot, Batches, PanelShapes
    <3> QED BY <3>1, <3>2
  <2> QED BY <2>1, <2>2
<1>4. Prompts'
  <2>1. CASE known
    BY <1>1, <2>1, PromptsSame DEF PanelInv, Alike
  <2>2. CASE ~known
    BY <1>1, <2>2, NewStateFacts, NoQuestionType DEF Prompts, QuestionsMatchListing
  <2> QED BY <2>1, <2>2
<1>5. Truth'
  BY <1>0, TruthGo DEF PanelInv
<1> QED BY <1>2, <1>3, <1>4, <1>5 DEF PanelInv

LEMMA NavigateKeeps == ASSUME PanelInv, Navigate PROVE PanelInv'
  BY GoKeeps, AlikeSelf DEF Navigate, PanelInv, PanelShapes, remote

LEMMA ListedKeeps == ASSUME PanelInv, Listed PROVE PanelInv'
<1>1. PICK l \in listings, k \in Listing :
         /\ listings' = (listings \ {l}) \union {k}
         /\ k.generation = l.generation /\ k.dir = l.dir
         /\ k.answer = "read" => k.got = server[l.dir]
  <2>1. PICK l \in listings :
           \/ listings' = (listings \ {l}) \union
                  {[l EXCEPT !.answer = "read", !.got = server[l.dir]]}
           \/ listings' = (listings \ {l}) \union {[l EXCEPT !.answer = "failed"]}
    BY DEF Listed
  <2>2. l \in Listing /\ server[l.dir] \in SUBSET Names
    BY <2>1 DEF PanelInv, PanelShapes, Listing
  <2> DEFINE read == [l EXCEPT !.answer = "read", !.got = server[l.dir]]
             missed == [l EXCEPT !.answer = "failed"]
  <2>3. /\ read \in Listing /\ read.generation = l.generation /\ read.dir = l.dir
        /\ read.got = server[l.dir]
    BY <2>2 DEF Listing
  <2>4. /\ missed \in Listing /\ missed.generation = l.generation /\ missed.dir = l.dir
        /\ missed.answer = "failed"
    BY <2>2 DEF Listing
  <2> HIDE DEF read, missed
  <2>5. listings' = (listings \ {l}) \union {read} \/ listings' = (listings \ {l}) \union {missed}
    BY <2>1 DEF read, missed
  <2> QED BY <2>1, <2>3, <2>4, <2>5
<1>2. UNCHANGED <<server, renames, view, known, state, batches>>
  BY DEF Listed, remote
<1>3. PanelShapes'
  BY <1>1, <1>2 DEF PanelInv, PanelShapes, Batches
<1>4. Begins'
  BY <1>1, <1>2 DEF PanelInv, Begins, Batches, Staged
<1>5. Slot' /\ Prompts'
  BY <1>2, SlotSame, PromptsSame DEF PanelInv
<1>6. Truth'
  <2>1. Removing' = Removing
    BY <1>2, RemovingSame
  <2>2. view # "closed" => Recent'
    BY <1>1, <1>2 DEF PanelInv, Truth, Recent
  <2>3. view # "closed" => ReadsTrue'
    BY <1>1, <1>2, <2>1 DEF PanelInv, Truth, ReadsTrue, Current
  <2>4. view # "closed" => ShowsTrue'
    BY <1>1, <1>2, <2>1 DEF PanelInv, Truth, ShowsTrue, Current
  <2> QED BY <1>2, <2>2, <2>3, <2>4 DEF Truth
<1> QED BY <1>3, <1>4, <1>5, <1>6 DEF PanelInv

LEMMA ListingArrivesKeeps == ASSUME PanelInv, ListingArrives PROVE PanelInv'
<1>1. PICK l \in listings :
         /\ l.answer # "none" /\ listings' = listings \ {l}
         /\ LET quiet == [state EXCEPT !.busy = FALSE]
                elsewhere == state.path # l.dir
                there == [(IF elsewhere THEN ResetSelection(quiet) ELSE quiet)
                             EXCEPT !.path = l.dir, !.entries = l.got, !.keep = FALSE,
                                    !.failed = FALSE]
            IN state' = CASE ~Expected(l) -> state
                          [] Expected(l) /\ l.answer = "failed" ->
                                Say([quiet EXCEPT !.keep = FALSE, !.failed = TRUE], "error")
                          [] OTHER -> IF state.keep /\ ~elsewhere THEN there
                                      ELSE [there EXCEPT !.notice = "none"]
  BY DEF ListingArrives
<1>2. UNCHANGED <<server, renames, view, known, batches>>
  BY DEF ListingArrives, remote
<1>3. state \in PanelState /\ l \in Listing
  BY <1>1 DEF PanelInv, PanelShapes
<1>4. Removing' = Removing
  BY <1>2, RemovingSame
<1>5. CASE ~Expected(l)
  <2>1. state' = state
    BY <1>1, <1>5, Zenon
  <2>2. known => ~Current(l)
    BY <1>5 DEF Expected, Current
  <2>3. PanelShapes' /\ Begins' /\ Slot' /\ Prompts'
    BY <1>1, <1>2, <2>1, SlotSame, PromptsSame
    DEF PanelInv, PanelShapes, Begins, Batches, Staged
  <2>4. Truth'
    BY <1>1, <1>2, <1>4, <2>1, <2>2
    DEF PanelInv, Begins, Truth, Recent, ReadsTrue, ShowsTrue, Current
  <2> QED BY <2>3, <2>4 DEF PanelInv
<1>6. CASE Expected(l) /\ l.answer = "failed"
  <2>1. PICK no \in BOOLEAN, yes \in BOOLEAN :
           /\ yes
           /\ state' = Say([[state EXCEPT !.busy = no] EXCEPT !.keep = no, !.failed = yes], "error")
    BY <1>1, <1>6, Zenon
  <2>2. /\ state' \in PanelState /\ state'.failed = yes
        /\ state'.generation = state.generation /\ state'.path = state.path
        /\ state'.entries = state.entries /\ state'.prompt = state.prompt
        /\ state'.transfer = state.transfer /\ state'.queue = state.queue
    BY <1>3, <2>1 DEF Say, PanelState, Notices
  <2>3. PanelShapes' /\ Begins' /\ Slot' /\ Prompts'
    BY <1>1, <1>2, <1>6, <2>2, SlotSame, PromptsSame
    DEF PanelInv, PanelShapes, Begins, Batches, Expected
  <2>4. Truth'
    BY <1>1, <1>2, <1>4, <2>1, <2>2
    DEF PanelInv, Truth, Recent, ReadsTrue, ShowsTrue, Current
  <2> QED BY <2>3, <2>4 DEF PanelInv
<1>7. CASE Expected(l) /\ l.answer # "failed"
  <2> DEFINE from(q, no) == [q EXCEPT !.path = l.dir, !.entries = l.got, !.keep = no, !.failed = no]
  <2>0. PICK no \in BOOLEAN :
           \E q :
              /\ q = [state EXCEPT !.busy = no] \/ q = [[state EXCEPT !.busy = no] EXCEPT !.prompt = NoQuestion]
              /\ state.path # l.dir => q = [[state EXCEPT !.busy = no] EXCEPT !.prompt = NoQuestion]
              /\ state' = from(q, no) \/ state' = [from(q, no) EXCEPT !.notice = "none"]
    BY <1>1, <1>7, Zenon DEF ResetSelection
  <2>1. PICK q :
           /\ q = [state EXCEPT !.busy = no] \/ q = [[state EXCEPT !.busy = no] EXCEPT !.prompt = NoQuestion]
           /\ state.path # l.dir => q = [[state EXCEPT !.busy = no] EXCEPT !.prompt = NoQuestion]
           /\ state' = from(q, no) \/ state' = [from(q, no) EXCEPT !.notice = "none"]
    BY <2>0, Zenon
  <2>2. /\ q \in PanelState /\ q.prompt \in {state.prompt, NoQuestion}
        /\ state.path # l.dir => q.prompt = NoQuestion
        /\ q.generation = state.generation
        /\ q.transfer = state.transfer /\ q.queue = state.queue
    BY <1>3, <2>1, NoQuestionType, ZenonT(60) DEF PanelState
  <2>3. /\ state' \in PanelState /\ state'.prompt = q.prompt
        /\ state'.path = l.dir /\ state'.entries = l.got
        /\ state'.generation = q.generation
        /\ state'.transfer = q.transfer /\ state'.queue = q.queue
    <3>1. l.dir \in Dirs /\ l.got \in SUBSET Names
      BY <1>3 DEF Listing
    <3>2. /\ from(q, no) \in PanelState /\ from(q, no).prompt = q.prompt
          /\ from(q, no).path = l.dir /\ from(q, no).entries = l.got
          /\ from(q, no).generation = q.generation
          /\ from(q, no).transfer = q.transfer /\ from(q, no).queue = q.queue
      BY <2>2, <3>1 DEF PanelState
    <3> HIDE DEF from
    <3> QED BY <2>1, <3>2 DEF PanelState, Notices
  <2>4. l.dir \in Dirs /\ l.dir # NoDir
    BY <1>3, FilePanelAssumption DEF Listing
  <2>5. PanelShapes' /\ Begins' /\ Slot'
    BY <1>1, <1>2, <1>7, <2>2, <2>3, SlotSame
    DEF PanelInv, PanelShapes, Begins, Batches, Expected
  <2>6. Prompts'
    BY <2>2, <2>3, <2>4, NoQuestionType DEF PanelInv, Prompts, QuestionsMatchListing
  <2>7. Truth'
    <3>1. Current(l) /\ l.answer = "read"
      BY <1>1, <1>3, <1>7 DEF Expected, Current, Listing
    <3> QED BY <1>1, <1>2, <1>4, <2>2, <2>3, <3>1
        DEF PanelInv, Truth, Recent, ReadsTrue, ShowsTrue, Current
  <2> QED BY <2>5, <2>6, <2>7 DEF PanelInv
<1> QED BY <1>5, <1>6, <1>7
-----------------------------------------------------------------------------
(* The slot.                                                               *)

LEMMA OverFacts == Over \in Batch /\ Over.kind = "none" /\ Over.stage = "done"
  BY DEF Over, Batch

LEMMA ForgetKeeps == ASSUME PanelInv, Forget PROVE PanelInv'
<1>1. /\ view' = "closed" /\ known' = FALSE /\ state' = NewState
      /\ UNCHANGED <<server, renames, listings>>
  BY DEF Forget, remote
<1>2. batches' = [b \in Batches |-> IF Staged(b, "waiting") THEN Over ELSE batches[b]]
  BY DEF Forget, Staged
<1>3. batches' \in Seq(Batch)
  <2>1. batches' \in [1 .. Len(batches) -> Batch] /\ Len(batches) \in Nat
    BY <1>2, OverFacts DEF PanelInv, PanelShapes, Batches
  <2> QED BY <2>1
<1>4. /\ Len(batches') = Len(batches)
      /\ \A b \in Batches : batches'[b] \in {Over, batches[b]}
  BY <1>2, <1>3 DEF Batches, PanelInv, PanelShapes
<1>5. PanelShapes'
  BY <1>1, <1>3, <1>4, NewStateFacts, OverFacts DEF PanelInv, PanelShapes, Batches
<1>6. Begins' /\ Truth'
  BY <1>1 DEF Begins, Truth
<1>7. Slot'
  BY <1>1, <1>3, NewStateFacts DEF Slot, Batches
<1>8. Prompts'
  BY <1>1, NewStateFacts, NoQuestionType DEF Prompts, QuestionsMatchListing
<1> QED BY <1>5, <1>6, <1>7, <1>8 DEF PanelInv

\* A queue that one more joins.
LEMMA OneMore ==
    ASSUME NEW q, NEW r, NEW n, NEW m \in Nat, Len(q) = m, Len(r) = m + 1,
           \A i \in 1 .. m : r[i] = q[i] /\ q[i] # n, r[m + 1] = n
    PROVE  Apart(q) => Apart(r)
<1>1. 1 .. (m + 1) = 1 .. m \union {m + 1}
  OBVIOUS
<1> QED BY <1>1 DEF Apart

\* A batch that is asked for: there is nobody left to ask, it takes the slot, or it waits.
LEMMA QueueKeeps ==
    ASSUME PanelInv, NEW s, Alike(state, s) \/ Unasked(state, s),
           NEW kind \in {"upload", "download", "delete"}, NEW left \in SUBSET Names,
           NEW dir \in Dirs \union {NoDir}, kind = "download" \/ dir \in Dirs,
           Queue(s, kind, dir, left), UNCHANGED <<remote, view, known, listings>>
    PROVE  PanelInv'
<1> DEFINE n == Len(batches) + 1
           new == [kind |-> kind, dir |-> dir, left |-> left, moved |-> FALSE,
                   stage |-> IF known /\ s.transfer = 0 THEN "moving" ELSE "waiting"]
<1>0. /\ s \in PanelState
      /\ s.path = state.path /\ s.entries = state.entries
      /\ s.prompt \in {state.prompt, NoQuestion}
      /\ s.generation = state.generation /\ s.failed = state.failed
      /\ s.transfer = state.transfer /\ s.queue = state.queue
  BY DEF Alike, Unasked
<1>1. PICK x \in Batch : /\ batches' = Append(batches, x)
                         /\ x.kind \in {"none", kind} /\ x.dir \in {NoDir, dir}
                         /\ x.kind # "none" => x.dir = dir
                         /\ x.stage = IF ~known THEN "done"
                                      ELSE IF s.transfer = 0 THEN "moving" ELSE "waiting"
  <2>1. new \in Batch
    BY DEF Batch
  <2>2. Over.dir = NoDir
    BY DEF Over
  <2> QED BY <2>1, <2>2, OverFacts DEF Queue
<1> HIDE DEF new
<1>2. /\ batches' \in Seq(Batch) /\ Len(batches') = n
      /\ \A b \in Batches : batches'[b] = batches[b]
      /\ batches'[n] = x /\ n \in Nat /\ n \notin Batches /\ Batches' = Batches \union {n}
  <2>1. batches \in Seq(Batch)
    BY DEF PanelInv, PanelShapes
  <2> QED BY <1>1, <2>1 DEF Batches
<1>3. /\ state' \in PanelState
      /\ state'.path = s.path /\ state'.entries = s.entries /\ state'.prompt = s.prompt
      /\ state'.generation = s.generation /\ state'.failed = s.failed
      /\ state'.transfer = IF known /\ s.transfer = 0 THEN n ELSE s.transfer
      /\ state'.queue = IF known /\ s.transfer # 0 THEN Append(s.queue, n) ELSE s.queue
  <2>1. CASE ~known
    <3>1. state' = s
      BY <2>1, Zenon DEF Queue
    <3> QED BY <1>0, <2>1, <3>1
  <2>2. CASE known /\ s.transfer = 0
    <3>1. PICK no \in BOOLEAN :
             state' = [Say(s, "none") EXCEPT !.transfer = n, !.canceled = no, !.unseen = no]
      BY <2>2, Zenon DEF Queue
    <3> DEFINE q == [Say(s, "none") EXCEPT !.transfer = n]
    <3>2. /\ q \in PanelState /\ q.path = s.path /\ q.entries = s.entries /\ q.prompt = s.prompt
          /\ q.generation = s.generation /\ q.failed = s.failed
          /\ q.transfer = n /\ q.queue = s.queue
      BY <1>0, <1>2 DEF PanelState, Say, Notices
    <3> HIDE DEF q
    <3>3. state' = [q EXCEPT !.canceled = no, !.unseen = no]
      BY <3>1, Zenon DEF q
    <3> QED BY <2>2, <3>2, <3>3 DEF PanelState
  <2>3. CASE known /\ s.transfer # 0
    <3>1. state' = [s EXCEPT !.queue = Append(s.queue, n)]
      BY <2>3, Zenon DEF Queue
    <3> DEFINE longer == Append(s.queue, n)
    <3>2. longer \in Seq(Nat)
      BY <1>0, <1>2 DEF PanelState
    <3>3. state' = [s EXCEPT !.queue = longer]
      BY <3>1
    <3>4. longer = Append(s.queue, n)
      OBVIOUS
    <3> HIDE DEF longer
    <3>5. /\ state' \in PanelState /\ state'.queue = longer /\ state'.transfer = s.transfer
          /\ state'.path = s.path /\ state'.entries = s.entries /\ state'.prompt = s.prompt
          /\ state'.generation = s.generation /\ state'.failed = s.failed
      BY <1>0, <3>2, <3>3 DEF PanelState
    <3> QED BY <2>3, <3>4, <3>5
  <2> QED BY <2>1, <2>2, <2>3
<1>4. UNCHANGED <<server, renames, view, known, listings>>
  BY DEF remote
<1>5. PanelShapes'
  <2>1. \A b \in Batches : batches[b].kind \in {"upload", "delete"} => batches[b].dir \in Dirs
    BY DEF PanelInv, PanelShapes
  <2>2. x.kind \in {"upload", "delete"} => x.dir \in Dirs
    BY <1>1
  <2>3. \A b \in Batches' : batches'[b].kind \in {"upload", "delete"} => batches'[b].dir \in Dirs
    BY <1>2, <2>1, <2>2
  <2>4. PanelShapes
    BY DEF PanelInv
  <2> QED BY <1>2, <1>3, <1>4, <2>3, <2>4 DEF PanelShapes
<1>6. Begins'
  <2>1. CASE known
    BY <1>4, <2>1 DEF Begins
  <2>2. CASE ~known
    BY <1>0, <1>1, <1>2, <1>3, <1>4, <2>2 DEF PanelInv, Begins, Staged
  <2> QED BY <2>1, <2>2
<1>7. Prompts'
  BY <1>0, <1>3, PromptsSame DEF PanelInv
<1>8. Slot'
  <2>0. Slot /\ Begins /\ s.queue \in Seq(Nat)
    BY <1>0 DEF PanelInv, PanelState
  <2>1. CASE ~known
    BY <1>0, <1>1, <1>2, <1>3, <1>4, <2>0, <2>1 DEF Slot, Staged, Queued, Apart, Batches
  <2>2. CASE known /\ s.transfer = 0
    BY <1>0, <1>1, <1>2, <1>3, <1>4, <2>0, <2>2 DEF Slot, Staged, Queued, Apart, Batches
  <2>3. CASE known /\ s.transfer # 0
    <3>1. /\ Len(state'.queue) = Len(state.queue) + 1 /\ Len(state.queue) \in Nat
          /\ \A i \in 1 .. Len(state.queue) : state'.queue[i] = state.queue[i]
          /\ state'.queue[Len(state.queue) + 1] = n
      BY <1>0, <1>2, <1>3, <2>0, <2>3
    <3>0. \A i \in 1 .. Len(state.queue) : state'.queue[i] = state.queue[i] /\ state.queue[i] # n
      BY <1>2, <2>0, <3>1 DEF Slot
    <3>8. ASSUME NEW q, NEW r, q = state.queue, r = state'.queue, NEW last, last = n
          PROVE  Apart(q) => Apart(r)
      <4>1. PICK m \in Nat : m = Len(q)
        BY <3>1, <3>8
      <4>2. /\ Len(q) = m /\ Len(r) = m + 1 /\ r[m + 1] = last
            /\ \A i \in 1 .. m : r[i] = q[i] /\ q[i] # last
        BY <3>0, <3>1, <3>8, <4>1
      <4> HIDE DEF n
      <4> QED BY <4>2, OneMore
    <3>2. Apart(state'.queue) \/ view = "closed"
      BY <2>0, <3>8 DEF Slot
    <3>3. \A b \in Batches' : Queued(b)' <=> (b = n \/ Queued(b))
      <4>1. PICK m \in Nat : Len(state.queue) = m /\ Len(state'.queue) = m + 1
        BY <3>1
      <4>2. \A i \in 1 .. m : state'.queue[i] = state.queue[i]
        BY <3>0, <4>1
      <4>3. state'.queue[m + 1] = n /\ 1 .. (m + 1) = 1 .. m \union {m + 1}
        BY <3>1, <4>1
      <4> HIDE DEF n
      <4> QED BY <4>1, <4>2, <4>3 DEF Queued
    <3>4. /\ state'.transfer = state.transfer /\ state'.transfer # 0
          /\ \A i \in 1 .. Len(state'.queue) : state'.queue[i] \in Batches'
      BY <1>0, <1>2, <1>3, <2>0, <2>3, <3>1 DEF Slot
    <3>5. ~Queued(n) /\ n # state.transfer
      BY <1>2, <2>0 DEF Slot, Queued, Batches
    <3>6. state'.transfer \in 0 .. Len(batches')
      BY <1>2, <2>0, <3>4 DEF Slot, PanelInv, PanelShapes
    <3>7. view # "closed" =>
             /\ \A b \in Batches' : Staged(b, "moving")' <=> b = state'.transfer
             /\ \A b \in Batches' : Staged(b, "waiting")' <=> Queued(b)'
      <4> SUFFICES ASSUME view # "closed", NEW b \in Batches'
                   PROVE  /\ Staged(b, "moving")' <=> b = state'.transfer
                          /\ Staged(b, "waiting")' <=> Queued(b)'
        OBVIOUS
      <4>1. CASE b = n
        BY <1>1, <1>2, <1>0, <2>3, <3>3, <3>4, <3>5, <4>1 DEF Staged
      <4>2. CASE b \in Batches /\ b # n
        BY <1>2, <2>0, <3>3, <3>4, <4>2 DEF Slot, Staged
      <4> QED BY <1>2, <4>1, <4>2
    <3> QED BY <1>4, <3>2, <3>4, <3>6, <3>7 DEF Slot
  <2> QED BY <2>1, <2>2, <2>3
<1>9. Truth'
  <2>1. Removing => Removing'
    BY <1>2, <1>4 DEF Removing, Staged
  <2> QED BY <1>0, <1>3, <1>4, <2>1, TruthSame DEF PanelInv
<1> QED BY <1>5, <1>6, <1>7, <1>8, <1>9 DEF PanelInv
\* The slot of a state passes to the batch that has waited longest.
Passed(s, f) ==
    IF s.queue = << >> THEN f.transfer = 0 /\ f.queue = << >>
    ELSE f.transfer = Head(s.queue) /\ f.queue = Tail(s.queue)

LEMMA FinishFacts ==
    ASSUME NEW s \in PanelState, NEW notice \in Notices, NEW f, f = FinishTransfer(s, notice)
    PROVE  /\ f \in PanelState /\ f.path = s.path /\ f.entries = s.entries
           /\ f.prompt = s.prompt /\ f.generation = s.generation /\ f.failed = s.failed
           /\ Passed(s, f)
<1> DEFINE q == [s EXCEPT !.transfer = 0]
<1>1. /\ q \in PanelState /\ q.path = s.path /\ q.entries = s.entries
      /\ q.prompt = s.prompt /\ q.generation = s.generation /\ q.failed = s.failed
      /\ q.transfer = 0 /\ q.queue = s.queue
  BY DEF PanelState
<1> DEFINE from(told, no, yes) ==
              /\ f = GrantNext(told)
              /\ \/ told = Say([q EXCEPT !.canceled = no, !.keep = yes], notice)
                 \/ told = [Say([q EXCEPT !.canceled = no, !.keep = yes], notice) EXCEPT !.unseen = yes]
<1>6. PICK no \in BOOLEAN, yes \in BOOLEAN : \E told : from(told, no, yes)
  BY Zenon DEF FinishTransfer
<1>2. PICK told : from(told, no, yes)
  BY <1>6
<1> HIDE DEF q
<1>3. /\ told \in PanelState /\ told.path = s.path /\ told.entries = s.entries
      /\ told.prompt = s.prompt /\ told.generation = s.generation /\ told.failed = s.failed
      /\ told.transfer = 0 /\ told.queue = s.queue
  <2> DEFINE r == [q EXCEPT !.canceled = no, !.keep = yes]
             n == Say(r, notice)
  <2>1. /\ r \in PanelState /\ r.path = s.path /\ r.entries = s.entries
        /\ r.prompt = s.prompt /\ r.generation = s.generation /\ r.failed = s.failed
        /\ r.transfer = 0 /\ r.queue = s.queue
    BY <1>1 DEF PanelState
  <2> HIDE DEF r
  <2>2. Alike(r, n)
    BY <2>1, SayAlike
  <2> HIDE DEF n
  <2>3. told \in {n, [n EXCEPT !.unseen = yes]}
    BY <1>2, Zenon DEF n, r
  <2>4. Alike(n, told)
    <3>1. n \in PanelState
      BY <2>2 DEF Alike
    <3> QED BY <2>3, <3>1, FlagsAlike, AlikeSelf
  <2> QED BY <2>1, <2>2, <2>4 DEF Alike
<1>4. CASE s.queue = << >>
  BY <1>2, <1>3, <1>4 DEF GrantNext, Passed
<1>5. CASE s.queue # << >>
  <2>1. /\ s.queue \in Seq(Nat) /\ Head(s.queue) \in Nat /\ Tail(s.queue) \in Seq(Nat)
    BY <1>5 DEF PanelState
  <2>2. f = [told EXCEPT !.transfer = Head(s.queue), !.queue = Tail(s.queue)]
    BY <1>2, <1>3, <1>5 DEF GrantNext
  <2> QED BY <1>3, <1>5, <2>1, <2>2 DEF PanelState, Passed
<1> QED BY <1>4, <1>5

LEMMA QueueHead ==
    ASSUME NEW q \in Seq(Nat), q # << >>
    PROVE  \E m \in Nat : /\ Len(q) = m + 1 /\ Len(Tail(q)) = m /\ Head(q) = q[1]
                          /\ 1 \in 1 .. Len(q)
                          /\ \A i \in 1 .. m : Tail(q)[i] = q[i + 1] /\ i + 1 \in 1 .. Len(q)
<1>1. Len(q) \in Nat \ {0}
  OBVIOUS
<1>2. PICK m \in Nat : Len(q) = m + 1
  <2>1. Len(q) - 1 \in Nat /\ Len(q) = (Len(q) - 1) + 1
    BY <1>1
  <2> QED BY <2>1
<1>3. Len(Tail(q)) = m /\ Head(q) = q[1] /\ 1 \in 1 .. Len(q)
  BY <1>2
<1>4. \A i \in 1 .. m : Tail(q)[i] = q[i + 1] /\ i + 1 \in 1 .. Len(q)
  BY <1>2
<1> QED BY <1>2, <1>3, <1>4

LEMMA EndKeeps ==
    ASSUME PanelInv, NEW b \in Batches, Staged(b, "moving"), NEW notice \in Notices, NEW any,
           End(b, notice, any), UNCHANGED <<view, renames>>,
           server' \in [Dirs -> SUBSET Names], \A d \in Dirs : server[d] \subseteq server'[d]
    PROVE  PanelInv'
<1>0. /\ state \in PanelState /\ batches \in Seq(Batch) /\ Slot /\ Begins
      /\ known \/ view = "closed"
      /\ b \in 1 .. Len(batches)
  BY OverFacts DEF PanelInv, PanelShapes, Begins, Staged, Batches
<1>1. PICK s, after :
         /\ s = IF known THEN FinishTransfer(state, IF state.canceled THEN "info" ELSE notice)
                ELSE state
         /\ after = IF batches[b].kind = "delete" THEN ResetSelection(s) ELSE s
         /\ batches' = [(IF s.transfer = 0 THEN batches
                         ELSE [batches EXCEPT ![s.transfer].stage = "moving"]) EXCEPT ![b] = Over]
         /\ \/ /\ batches[b].kind \in {"delete", "upload"} /\ Go(after, batches[b].dir)
            \/ /\ batches[b].kind # "delete" /\ state' = s /\ UNCHANGED <<known, listings>>
  BY Zenon DEF End
<1>2. /\ s \in PanelState /\ s.path = state.path /\ s.entries = state.entries
      /\ s.prompt = state.prompt /\ s.generation = state.generation /\ s.failed = state.failed
      /\ IF known THEN Passed(state, s) ELSE s = state
  <2>1. (IF state.canceled THEN "info" ELSE notice) \in Notices
    BY DEF Notices
  <2> QED BY <1>0, <1>1, <2>1, FinishFacts
<1>3. /\ after \in PanelState /\ after.path = state.path /\ after.entries = state.entries
      /\ after.prompt \in {state.prompt, NoQuestion}
      /\ after.generation = state.generation /\ after.failed = state.failed
      /\ after.transfer = s.transfer /\ after.queue = s.queue
  BY <1>1, <1>2, PromptUnasked DEF Unasked, ResetSelection
<1>4. s.transfer \in {0} \union Batches /\ \A i \in 1 .. Len(s.queue) : s.queue[i] \in Batches
  <2>1. /\ state.transfer \in {0} \union Batches
        /\ \A i \in 1 .. Len(state.queue) : state.queue[i] \in Batches
    BY <1>0 DEF Slot, Batches
  <2>2. CASE known /\ state.queue # << >>
    <3>1. state.queue \in Seq(Nat) /\ s.transfer = Head(state.queue) /\ s.queue = Tail(state.queue)
      BY <1>0, <1>2, <2>2 DEF Passed, PanelState
    <3>2. PICK m \in Nat :
             /\ Len(s.queue) = m /\ s.transfer = state.queue[1] /\ 1 \in 1 .. Len(state.queue)
             /\ \A i \in 1 .. m : /\ s.queue[i] = state.queue[i + 1]
                                 /\ i + 1 \in 1 .. Len(state.queue)
      BY <2>2, <3>1, QueueHead
    <3> QED BY <2>1, <3>2
  <2>3. CASE known /\ state.queue = << >>
    BY <1>2, <2>3 DEF Passed
  <2>4. CASE ~known
    BY <1>2, <2>1, <2>4
  <2> QED BY <2>2, <2>3, <2>4
<1>5. /\ batches' \in Seq(Batch) /\ Len(batches') = Len(batches) /\ batches'[b] = Over
      /\ \A c \in Batches \ {b} :
            /\ batches'[c].kind = batches[c].kind /\ batches'[c].dir = batches[c].dir
            /\ batches'[c].stage = IF c = s.transfer THEN "moving" ELSE batches[c].stage
  <2> DEFINE next == IF s.transfer = 0 THEN batches
                     ELSE [batches EXCEPT ![s.transfer].stage = "moving"]
  <2>1. /\ next \in Seq(Batch) /\ Len(next) = Len(batches)
        /\ \A c \in Batches :
              /\ next[c].kind = batches[c].kind /\ next[c].dir = batches[c].dir
              /\ next[c].stage = IF c = s.transfer THEN "moving" ELSE batches[c].stage
    <3>1. CASE s.transfer = 0
      BY <1>0, <3>1 DEF Batches
    <3>2. CASE s.transfer # 0
      <4> DEFINE i == s.transfer
                 x == [batches[i] EXCEPT !.stage = "moving"]
      <4>1. i \in 1 .. Len(batches) /\ batches[i] \in Batch
        BY <1>0, <1>4, <3>2 DEF Batches
      <4>2. /\ x \in Batch /\ x.kind = batches[i].kind /\ x.dir = batches[i].dir
            /\ x.stage = "moving"
        BY <4>1 DEF Batch
      <4>3. next = [batches EXCEPT ![i] = x]
        BY <3>2
      <4> HIDE DEF x, next
      <4> QED BY <1>0, <4>1, <4>2, <4>3 DEF Batches
    <3> QED BY <3>1, <3>2
  <2> HIDE DEF next
  <2>2. batches' = [next EXCEPT ![b] = Over]
    BY <1>1 DEF next
  <2> QED BY <1>0, <2>1, <2>2, OverFacts DEF Batches
<1>6. /\ state' \in PanelState
      /\ listings' \subseteq Listing /\ known' \in BOOLEAN
      /\ known \/ known' = FALSE \/ known' = TRUE
      /\ known => /\ state'.path = state.path /\ state'.entries = state.entries /\ known'
                  /\ state'.prompt \in {state.prompt, NoQuestion}
                  /\ state'.transfer = s.transfer /\ state'.queue = s.queue
      /\ ~known => \/ state' = state
                   \/ /\ state'.path = NoDir /\ state'.entries = {}
                      /\ state'.prompt = NoQuestion
                      /\ state'.transfer = 0 /\ state'.queue = << >>
  <2>1. CASE batches[b].kind \in {"delete", "upload"} /\ Go(after, batches[b].dir)
    <3>1. batches[b].dir \in Dirs
      BY <2>1 DEF PanelInv, PanelShapes
    <3> DEFINE at == IF known THEN after ELSE NewState
    <3>2. /\ known' = TRUE /\ state' \in PanelState
          /\ state'.path = at.path /\ state'.entries = at.entries /\ state'.prompt = at.prompt
          /\ state'.transfer = at.transfer /\ state'.queue = at.queue
          /\ \E l \in Listing : listings' = listings \union {l}
      BY <1>3, <2>1, <3>1, GoFacts
    <3>3. listings' \subseteq Listing
      BY <3>2 DEF PanelInv, PanelShapes
    <3> QED BY <1>3, <3>2, <3>3, NewStateFacts
  <2>2. CASE state' = s /\ UNCHANGED <<known, listings>>
    BY <1>2, <2>2 DEF PanelInv, PanelShapes
  <2> QED BY <1>1, <2>1, <2>2
<1>7. PanelShapes'
  BY <1>0, <1>5, <1>6, OverFacts DEF PanelInv, PanelShapes, Batches
<1>8. Begins'
  BY <1>0, <1>6 DEF Begins
<1>9. Prompts'
  <2>1. CASE known \/ state' = state
    BY <1>6, <2>1, PromptsSame DEF PanelInv
  <2>2. CASE state'.path = NoDir /\ state'.entries = {} /\ state'.prompt = NoQuestion
    BY <2>2, NoQuestionType DEF Prompts, QuestionsMatchListing
  <2> QED BY <1>6, <2>1, <2>2
<1>10. Truth'
  <2>1. CASE batches[b].kind \in {"delete", "upload"} /\ Go(after, batches[b].dir)
    <3>1. batches[b].dir \in Dirs
      BY <2>1 DEF PanelInv, PanelShapes
    <3> QED BY <1>3, <2>1, <3>1, TruthGo DEF PanelInv
  <2>2. CASE batches[b].kind # "delete" /\ state' = s /\ UNCHANGED <<known, listings>>
    <3>1. Removing => Removing'
      BY <1>5, <2>2 DEF Removing, Staged, Batches
    <3> QED BY <1>2, <2>2, <3>1, TruthSame DEF PanelInv
  <2> QED BY <1>1, <2>1, <2>2
<1>11. Slot'
  <2>1. CASE view = "closed"
    <3>1. state'.transfer \in {0} \union Batches
      BY <1>0, <1>4, <1>6 DEF Slot, Batches
    <3>2. \A i \in 1 .. Len(state'.queue) : state'.queue[i] \in Batches
      BY <1>0, <1>4, <1>6 DEF Slot
    <3>3. Batches' = Batches /\ {0} \union Batches \subseteq 0 .. Len(batches')
      BY <1>0, <1>5 DEF Batches
    <3> QED BY <2>1, <3>1, <3>2, <3>3 DEF Slot
  <2>2. CASE view # "closed"
    <3>1. /\ state.transfer = b /\ Apart(state.queue)
          /\ \A c \in Batches : Staged(c, "moving") <=> c = b
          /\ \A c \in Batches : Staged(c, "waiting") <=> Queued(c)
          /\ Batches' = Batches /\ known
      BY <1>0, <1>5, <2>2 DEF Slot, Batches
    <3>2. state'.transfer = s.transfer /\ state'.queue = s.queue /\ Passed(state, s)
      BY <1>2, <1>6, <3>1
    <3>3. \A c \in Batches : Staged(c, "moving")' <=> (c # b /\ c = s.transfer)
      BY <1>5, <3>1, OverFacts DEF Staged
    <3>4. \A c \in Batches : Staged(c, "waiting")' <=> (Queued(c) /\ c # b /\ c # s.transfer)
      BY <1>5, <3>1, OverFacts DEF Staged
    <3>5. ~Queued(b)
      BY <3>1 DEF Staged
    <3>6. CASE state.queue = << >>
      BY <1>0, <1>4, <1>5, <2>2, <3>1, <3>2, <3>3, <3>4, <3>6 DEF Slot, Passed, Queued, Apart, Batches
    <3>7. CASE state.queue # << >>
      <4>1. PICK m \in Nat : /\ Len(state.queue) = m + 1 /\ Len(s.queue) = m
                             /\ s.transfer = state.queue[1]
                             /\ \A i \in 1 .. m : /\ s.queue[i] = state.queue[i + 1]
                                                 /\ i + 1 \in 1 .. m + 1 /\ i + 1 # 1
        <5>1. state.queue \in Seq(Nat)
          BY <1>0 DEF PanelState
        <5>2. s.transfer = Head(state.queue) /\ s.queue = Tail(state.queue)
          BY <3>2, <3>7 DEF Passed
        <5> QED BY <3>7, <5>1, <5>2, QueueHead
      <4>2. Queued(s.transfer) /\ s.transfer # b /\ s.transfer \in Batches /\ s.transfer # 0
        BY <1>0, <3>5, <4>1 DEF Queued, Slot, Batches
      <4>3. Apart(s.queue)
        <5>1. ASSUME NEW i \in 1 .. m, NEW j \in 1 .. m, s.queue[i] = s.queue[j] PROVE i = j
          <6>1. i + 1 = j + 1
            BY <3>1, <4>1, <5>1 DEF Apart
          <6> QED BY <6>1
        <5> QED BY <4>1, <5>1 DEF Apart
      <4>4. \A c \in Batches : (\E i \in 1 .. m : s.queue[i] = c) <=> (Queued(c) /\ c # s.transfer)
        <5>1. ASSUME NEW c, NEW i \in 1 .. m, s.queue[i] = c PROVE Queued(c) /\ c # s.transfer
          <6>1. i + 1 \in 1 .. Len(state.queue) /\ state.queue[i + 1] = c /\ 1 \in 1 .. Len(state.queue)
            BY <4>1, <5>1
          <6>2. c # s.transfer
            BY <3>1, <4>1, <6>1 DEF Apart
          <6> QED BY <6>1, <6>2 DEF Queued
        <5>2. ASSUME NEW c, Queued(c), c # s.transfer PROVE \E i \in 1 .. m : s.queue[i] = c
          <6>1. PICK j \in 1 .. m + 1 : state.queue[j] = c
            BY <4>1, <5>2 DEF Queued
          <6>2. j - 1 \in 1 .. m /\ s.queue[j - 1] = c
            BY <4>1, <5>2, <6>1
          <6> QED BY <6>2
        <5> QED BY <5>1, <5>2
      <4>5. \A c \in Batches : Queued(c)' <=> (Queued(c) /\ c # s.transfer)
        BY <3>2, <4>1, <4>4 DEF Queued
      <4>6. \A i \in 1 .. Len(state'.queue) : state'.queue[i] \in Batches'
        BY <1>4, <3>1, <3>2
      <4>7. state'.transfer \in 0 .. Len(batches')
        BY <1>5, <3>2, <4>2 DEF Batches
      <4> QED BY <2>2, <3>1, <3>2, <3>3, <3>4, <3>5, <4>2, <4>3, <4>5, <4>6, <4>7 DEF Slot
    <3> QED BY <3>6, <3>7
  <2> QED BY <2>1, <2>2
<1> QED BY <1>7, <1>8, <1>9, <1>10, <1>11 DEF PanelInv

LEMMA BatchKeeps == ASSUME PanelInv, NEW b \in Batches, BatchStep(b) PROVE PanelInv'
<1>0. /\ Staged(b, "moving") /\ UNCHANGED <<view, renames>>
      /\ batches \in Seq(Batch) /\ b \in 1 .. Len(batches) /\ batches[b] \in Batch
      /\ server \in [Dirs -> SUBSET Names]
  BY DEF BatchStep, Staged, PanelInv, PanelShapes, Batches
<1>1. ASSUME \/ UNCHANGED server
             \/ \E n \in batches[b].left : server' = Uploaded(batches[b].dir, n)
      PROVE  /\ server' \in [Dirs -> SUBSET Names]
             /\ \A d \in Dirs : server[d] \subseteq server'[d]
  BY <1>0, <1>1 DEF Uploaded, Batch
<1>2. CASE /\ End(b, IF batches[b].kind = "upload" /\ ~batches[b].moved THEN "error" ELSE "info",
                  batches[b].moved)
           /\ UNCHANGED server
  BY <1>0, <1>1, <1>2, EndKeeps DEF Notices
<1>3. CASE /\ End(b, "error", batches[b].moved)
           /\ \/ UNCHANGED server
              \/ \E n \in batches[b].left : server' = Uploaded(batches[b].dir, n)
  BY <1>0, <1>1, <1>3, EndKeeps DEF Notices
<1>4. CASE /\ \E n \in batches[b].left :
                 /\ batches' = [batches EXCEPT ![b].left = batches[b].left \ {n}, ![b].moved = TRUE]
                 /\ server' = CASE batches[b].kind = "upload" -> Uploaded(batches[b].dir, n)
                                [] batches[b].kind = "delete" -> Deleted(batches[b].dir, n)
                                [] OTHER -> Downloaded(batches[b].dir, n)
           /\ UNCHANGED <<known, state, listings>>
  <2>1. PICK n \in batches[b].left, yes \in BOOLEAN :
           /\ batches' = [batches EXCEPT ![b].left = batches[b].left \ {n}, ![b].moved = yes]
           /\ server' = CASE batches[b].kind = "upload" -> Uploaded(batches[b].dir, n)
                          [] batches[b].kind = "delete" -> Deleted(batches[b].dir, n)
                          [] OTHER -> Downloaded(batches[b].dir, n)
    BY <1>4, Zenon
  <2>2. /\ server' \in [Dirs -> SUBSET Names]
        /\ batches[b].kind = "delete" \/ \A d \in Dirs : server[d] \subseteq server'[d]
    BY <1>0, <1>4, <2>1 DEF Uploaded, Deleted, Downloaded, Batch
  <2>3. /\ batches' \in Seq(Batch) /\ Len(batches') = Len(batches)
        /\ \A c \in Batches : /\ batches'[c].kind = batches[c].kind
                               /\ batches'[c].dir = batches[c].dir
                               /\ batches'[c].stage = batches[c].stage
    <3> DEFINE x == [batches[b] EXCEPT !.left = batches[b].left \ {n}, !.moved = yes]
    <3>1. /\ x \in Batch /\ x.kind = batches[b].kind /\ x.dir = batches[b].dir
          /\ x.stage = batches[b].stage
      BY <1>0 DEF Batch
    <3>2. batches' = [batches EXCEPT ![b] = x]
      BY <2>1, <1>0
    <3> HIDE DEF x
    <3> QED BY <1>0, <3>1, <3>2 DEF Batches
  <2>4. PanelShapes' /\ Begins'
    BY <1>0, <1>4, <2>2, <2>3 DEF PanelInv, PanelShapes, Begins, Batches, Staged
  <2>5. Slot' /\ Prompts'
    BY <1>0, <1>4, <2>3, PromptsSame DEF PanelInv, Slot, Queued, Batches, Staged
  <2>6. Truth'
    <3>1. Removing => Removing'
      BY <1>0, <2>3 DEF Removing, Batches, Staged
    <3>2. batches[b].kind = "delete" => Removing'
      BY <1>0, <2>3 DEF Removing, Batches, Staged
    <3> QED BY <1>0, <1>4, <2>2, <3>1, <3>2, TruthSame DEF PanelInv
  <2> QED BY <2>4, <2>5, <2>6 DEF PanelInv
<1> QED BY <1>2, <1>3, <1>4 DEF BatchStep
-----------------------------------------------------------------------------
(* Asking.                                                                 *)

LEMMA AskKeeps ==
    ASSUME PanelInv, NEW kind \in {"delete", "name", "upload", "download"},
           NEW names \in SUBSET Names, kind = "download" \/ state.path # NoDir,
           Ask(kind, names), UNCHANGED <<remote, view, known, listings, batches>>
    PROVE  PanelInv'
<1> DEFINE q == [kind |-> kind, names |-> names,
                 asked |-> IF kind = "download" THEN NoDir ELSE state.path]
<1>0. state \in PanelState
  BY DEF PanelInv, PanelShapes
<1>1. /\ q \in Question /\ q.kind = kind
      /\ kind # "download" => q.asked = state.path
  BY <1>0 DEF Question, PanelState
<1>2. state' = [state EXCEPT !.prompt = q]
  BY Zenon DEF Ask
<1> HIDE DEF q
<1>3. /\ state' \in PanelState /\ state'.prompt = q
      /\ state'.path = state.path /\ state'.entries = state.entries
      /\ state'.generation = state.generation /\ state'.failed = state.failed
      /\ state'.transfer = state.transfer /\ state'.queue = state.queue
  BY <1>0, <1>1, <1>2 DEF PanelState
<1>4. PanelShapes' /\ Begins'
  BY <1>3 DEF PanelInv, PanelShapes, Begins, Batches, Staged, remote
<1>5. Slot' /\ Truth'
  BY <1>3, SlotSame, TruthSame, RemovingSame DEF PanelInv, remote
<1>6. Prompts'
  BY <1>1, <1>3 DEF PanelInv, Prompts, QuestionsMatchListing
<1> QED BY <1>4, <1>5, <1>6 DEF PanelInv

LEMMA FewAreNames == Few \subseteq SUBSET Names
  BY FilePanelAssumption DEF Few

LEMMA AskSteps ==
    ASSUME PanelInv, OfferUpload \/ AskAbout \/ Delete \/ AnswerTransfer \/ SaveAnswered
    PROVE  PanelInv'
<1>0. state \in PanelState /\ state.entries \subseteq Names /\ state.path \in Dirs \union {NoDir}
  BY DEF PanelInv, PanelShapes, PanelState
<1>1. CASE OfferUpload
  <2>1. PICK names \in Few :
           \/ Ask("upload", names) /\ UNCHANGED batches
           \/ Queue(state, "upload", state.path, names)
    BY <1>1 DEF OfferUpload
  <2>2. /\ state.path # NoDir /\ names \in SUBSET Names
        /\ UNCHANGED <<remote, view, known, listings>>
    BY <1>1, FewAreNames DEF OfferUpload, Acting
  <2> QED BY <1>0, <2>1, <2>2, AlikeSelf, AskKeeps, QueueKeeps
<1>2. CASE AskAbout
  <2>1. PICK kind \in {"delete", "name"}, names \in SUBSET Names : Ask(kind, names)
    BY <1>0, <1>2 DEF AskAbout, AskDelete, AskRename, AskFolder
  <2>2. state.path # NoDir /\ UNCHANGED <<remote, view, known, listings, batches>>
    BY <1>2 DEF AskAbout, Acting
  <2> QED BY <2>1, <2>2, AskKeeps
<1>3. CASE Delete
  <2> DEFINE s == [state EXCEPT !.prompt = NoQuestion]
             targets == state.prompt.names \intersect state.entries
  <2>1. Unasked(state, s) /\ targets \in SUBSET Names
    BY <1>0, PromptUnasked
  <2>2. /\ state.path # NoDir
        /\ \/ state' = s /\ UNCHANGED batches
           \/ Queue(s, "delete", state.path, targets)
        /\ UNCHANGED <<remote, view, known, listings>>
    BY <1>3 DEF Delete, Acting
  <2> HIDE DEF s, targets
  <2>3. CASE state' = s /\ UNCHANGED batches
    BY <2>1, <2>2, <2>3, CalmKeeps DEF PanelInv, PanelShapes
  <2>4. CASE Queue(s, "delete", state.path, targets)
    BY <1>0, <2>1, <2>2, <2>4, QueueKeeps
  <2> QED BY <2>2, <2>3, <2>4
<1>4. CASE AnswerTransfer
  <2> DEFINE s == [state EXCEPT !.prompt = NoQuestion]
             q == state.prompt
             dest == IF q.kind = "upload" THEN state.path ELSE NoDir
  <2>1. /\ Unasked(state, s) /\ q.kind \in {"upload", "download"} /\ q.names \in SUBSET Names
    <3>1. q \in Question \union {NoQuestion} /\ q.kind \in {"upload", "download"}
      BY <1>0, <1>4 DEF AnswerTransfer, PanelState
    <3> QED BY <1>0, <3>1, PromptUnasked, NoQuestionType DEF Question
  <2>2. q.kind = "download" \/ dest \in Dirs
    BY <1>0, <2>1 DEF PanelInv, Prompts
  <2>3. /\ \/ state' = s /\ UNCHANGED batches
           \/ \E left \in {q.names, q.names \ state.entries} : Queue(s, q.kind, dest, left)
        /\ UNCHANGED <<remote, view, known, listings>>
    BY <1>4, Zenon DEF AnswerTransfer
  <2>4. dest \in Dirs \union {NoDir}
    BY <1>0
  <2> HIDE DEF s, q, dest
  <2>5. CASE state' = s /\ UNCHANGED batches
    BY <2>1, <2>3, <2>5, CalmKeeps DEF PanelInv, PanelShapes
  <2>6. ASSUME NEW left \in {q.names, q.names \ state.entries}, Queue(s, q.kind, dest, left)
        PROVE  PanelInv'
    <3>1. left \in SUBSET Names /\ q.kind \in {"upload", "download", "delete"}
      BY <2>1, <2>6
    <3> QED BY <2>1, <2>2, <2>3, <2>4, <2>6, <3>1, QueueKeeps
  <2> QED BY <2>3, <2>5, <2>6
<1>5. CASE SaveAnswered
  <2>1. PICK names \in Few :
           \/ Queue(state, "download", NoDir, names)
           \/ Ask("download", names) /\ UNCHANGED batches
    BY <1>5 DEF SaveAnswered, DownloadOne, DownloadMany
  <2>2. names \in SUBSET Names /\ UNCHANGED <<remote, view, known, listings>>
    BY <1>5, FewAreNames DEF SaveAnswered
  <2> QED BY <1>0, <2>1, <2>2, AlikeSelf, AskKeeps, QueueKeeps
<1> QED BY <1>1, <1>2, <1>3, <1>4, <1>5

LEMMA CommitKeeps == ASSUME PanelInv, CommitName PROVE PanelInv'
<1>0. /\ state \in PanelState /\ known /\ state.path \in Dirs /\ renames = {}
      /\ UNCHANGED <<server, view, known, listings, batches>>
      /\ view \in {"shown", "unseen", "closed"}
  BY DEF CommitName, Acting, PanelInv, PanelShapes, PanelState
<1>1. CASE state' = Say(state, "error") /\ UNCHANGED renames
  BY <1>0, <1>1, SayAlike, CalmKeeps DEF Notices, remote
<1>2. CASE /\ state' = [state EXCEPT !.prompt = NoQuestion]
           /\ \E to \in Names \ state.prompt.names :
                 renames' = renames \union
                    {[dir |-> state.path, from |-> state.prompt.names, to |-> to, done |-> FALSE]}
  <2>1. PICK to \in Names :
           renames' = {[dir |-> state.path, from |-> state.prompt.names, to |-> to, done |-> FALSE]}
    BY <1>0, <1>2
  <2>2. state.prompt.names \in SUBSET Names
    BY <1>0 DEF PanelState, Question, NoQuestion
  <2>3. renames' \subseteq Rename
    BY <1>0, <2>1, <2>2 DEF Rename
  <2>4. Removing => Removing'
    BY <1>0 DEF Removing, Staged, Batches
  <2>5. Unasked(state, state')
    BY <1>0, <1>2, PromptUnasked
  <2> QED BY <1>0, <2>3, <2>4, <2>5, QuietKeeps
<1> QED BY <1>1, <1>2 DEF CommitName

LEMMA RenamedKeeps == ASSUME PanelInv, Renamed PROVE PanelInv'
<1>1. PICK r \in renames, yes \in BOOLEAN :
         /\ yes /\ renames' = (renames \ {r}) \union {[r EXCEPT !.done = yes]}
         /\ server' = [server EXCEPT ![r.dir] = (@ \ r.from) \union {r.to}]
  BY Zenon DEF Renamed
<1>2. UNCHANGED <<view, known, state, listings, batches>>
  BY DEF Renamed
<1>3. [r EXCEPT !.done = yes] \in Rename /\ [r EXCEPT !.done = yes].done = yes /\ r \in Rename
  BY <1>1 DEF Rename, PanelInv, PanelShapes
<1>4. server' \in [Dirs -> SUBSET Names]
  BY <1>1, <1>3 DEF Rename, PanelInv, PanelShapes
<1>5. Removing'
  BY <1>1, <1>3 DEF Removing
<1>6. PanelShapes'
  BY <1>1, <1>2, <1>3, <1>4 DEF PanelInv, PanelShapes, Batches
<1>7. Begins'
  BY <1>1, <1>2 DEF PanelInv, Begins, Batches, Staged
<1>8. Slot' /\ Prompts' /\ Truth'
  BY <1>2, <1>5, SlotSame, PromptsSame, TruthSame DEF PanelInv
<1> QED BY <1>6, <1>7, <1>8 DEF PanelInv

LEMMA RenameAnsweredKeeps == ASSUME PanelInv, RenameAnswered PROVE PanelInv'
<1>0. /\ state \in PanelState /\ UNCHANGED <<server, view, batches>>
      /\ renames \subseteq Rename /\ view \in {"shown", "unseen", "closed"}
  BY DEF RenameAnswered, PanelInv, PanelShapes
<1>1. PICK r \in renames, yes \in BOOLEAN :
         /\ renames' = renames \ {r}
         /\ \/ r.done /\ Go(Say([state EXCEPT !.keep = yes], "info"), r.dir)
            \/ /\ ~r.done /\ UNCHANGED <<known, listings>>
               /\ state' = (IF known THEN Say(state, "error") ELSE state)
  BY Zenon DEF RenameAnswered
<1>2. CASE r.done /\ Go(Say([state EXCEPT !.keep = yes], "info"), r.dir)
  <2>1. r.dir \in Dirs
    BY <1>0, <1>1 DEF Rename
  <2>2. [state EXCEPT !.keep = yes] \in PanelState /\ Alike(state, [state EXCEPT !.keep = yes])
    BY <1>0, FlagsAlike DEF Alike
  <2>3. Alike(state, Say([state EXCEPT !.keep = yes], "info"))
    BY <2>2, SayAlike, AlikeTwice DEF Notices
  <2> QED BY <1>0, <1>1, <1>2, <2>1, <2>3, GoKeeps
<1>3. CASE /\ ~r.done /\ UNCHANGED <<known, listings>>
           /\ state' = (IF known THEN Say(state, "error") ELSE state)
  <2>1. Alike(state, state')
    BY <1>0, <1>3, SayAlike, AlikeSelf DEF Notices
  <2>2. Removing => Removing'
    BY <1>0, <1>1, <1>3 DEF Removing, Staged, Batches
  <2> QED BY <1>0, <1>1, <1>3, <2>1, <2>2, QuietKeeps
<1> QED BY <1>1, <1>2, <1>3
-----------------------------------------------------------------------------
(* The theorems on questions, listings and batches.                        *)

LEMMA PanelStarts == PanelInit => PanelInv
<1> SUFFICES ASSUME PanelInit PROVE PanelInv
  OBVIOUS
<1>1. /\ server = [d \in Dirs |-> Files] /\ view = "shown" /\ known = FALSE /\ state = NewState
      /\ listings = {} /\ batches = << >> /\ renames = {}
  BY DEF PanelInit
<1>2. batches \in Seq(Batch) /\ Len(batches) = 0 /\ Batches = {}
  BY <1>1, EmptySeq DEF Batches
<1>3. PanelShapes /\ Begins
  BY <1>1, <1>2, NewStateFacts, FilePanelAssumption DEF PanelShapes, Begins
<1>4. Slot
  BY <1>1, <1>2, NewStateFacts DEF Slot, Apart, Queued
<1>5. Prompts /\ Truth
  BY <1>1, NewStateFacts, NoQuestionType
  DEF Prompts, QuestionsMatchListing, Truth, Recent, ReadsTrue, ShowsTrue, Current
<1> QED BY <1>3, <1>4, <1>5 DEF PanelInv

LEMMA PanelStep == PanelInv /\ [PanelNext]_panelVars => PanelInv'
<1>1. ASSUME PanelInv, UNCHANGED panelVars PROVE PanelInv'
  BY <1>1, AlikeSelf, CalmKeeps DEF panelVars, remote, PanelInv, PanelShapes
<1>2. ASSUME PanelInv, PanelNext PROVE PanelInv'
  BY <1>2, StatusSteps, NavigateKeeps, ListedKeeps, ListingArrivesKeeps, ForgetKeeps, BatchKeeps,
     AskSteps, CommitKeeps, RenamedKeeps, RenameAnsweredKeeps DEF PanelNext
<1> QED BY <1>1, <1>2

\* The invariant behind the three theorems that follow.
THEOREM PanelInvariant == PanelSpec => []PanelInv
  BY PanelStarts, PanelStep, PTL DEF PanelSpec

\* Whatever listings, tabs and batches do while a question stands, what it deletes,
\* renames or uploads into is the directory that was on screen when it was asked
\* (listing_arrived resets the selection when it moves).
THEOREM QuestionsAreOfTheListing == PanelSpec => []QuestionsMatchListing
<1>1. PanelInv => QuestionsMatchListing
  BY DEF PanelInv, Prompts
<1> QED BY <1>1, PanelInvariant, PTL

\* Once everything is quiet the list names nothing that this session removed: an answer
\* read before a removal never stays over one asked for after it (the generation of go).
THEOREM RemovedIsNotShown == PanelSpec => []NothingGoneIsShown
<1>1. ASSUME PanelInv PROVE NothingGoneIsShown
  <2> SUFFICES ASSUME Settled, ~state.failed, state.path # NoDir
               PROVE  state.entries \subseteq server[state.path]
    BY DEF NothingGoneIsShown
  <2>1. ~Removing
    BY DEF Settled, Removing, At, Staged
  <2> QED BY <1>1, <2>1 DEF Settled, PanelInv, Truth, ShowsTrue, Current
<1> QED BY <1>1, PanelInvariant, PTL

\* A queue in which nobody stands twice has as many places as it holds batches.
LEMMA QueueCount ==
    ASSUME NEW q \in Seq(Nat), Apart(q)
    PROVE  Cardinality({q[i] : i \in 1 .. Len(q)}) = Len(q)
<1> DEFINE S == {q[i] : i \in 1 .. Len(q)}
           f == [i \in 1 .. Len(q) |-> q[i]]
<1>1. f \in [1 .. Len(q) -> S] /\ Len(q) \in Nat
  OBVIOUS
<1>2. f \in Bijection(1 .. Len(q), S)
  BY DEF Bijection, Injection, IsInjective, Surjection, Apart
<1>3. ExistsBijection(1 .. Len(q), S)
  BY <1>2 DEF ExistsBijection
<1> QED BY <1>1, <1>3, FS_CountingElements

\* The panel's slot is one batch's from the grant to its end, and the batches that wait
\* are the queue, each once, which never waits for a free slot (queue_transfer,
\* finish_transfer, grant_next_transfer).
THEOREM PanelIsSound == PanelSpec => []PanelSound
<1>1. ASSUME PanelInv PROVE PanelTypeOK
  <2>1. state \in PanelState /\ batches \in Seq(Batch)
    BY <1>1 DEF PanelInv, PanelShapes
  <2>2. \A b \in Batches : batches[b].left \subseteq Names /\ batches[b].dir \in Dirs \union {NoDir}
    <3>1. ASSUME NEW b \in Batches PROVE batches[b] \in Batch
      BY <2>1 DEF Batches
    <3> QED BY <3>1 DEF Batch
  <2>3. state.path \in Dirs \union {NoDir} /\ state.entries \subseteq Names
        /\ state.prompt \in Question \union {NoQuestion} /\ state.notice \in Notices
    BY <2>1 DEF PanelState
  <2> QED BY <1>1, <2>2, <2>3 DEF PanelInv, PanelShapes, Slot, Prompts, PanelTypeOK, Notices
<1>2. ASSUME PanelInv, view # "closed" PROVE SlotIsHeld
  <2>1. Slot /\ state.queue \in Seq(Nat) /\ batches \in Seq(Batch)
    BY <1>2 DEF PanelInv, PanelShapes, PanelState
  <2>2. At("moving") = {state.transfer} \ {0}
    BY <1>2, <2>1 DEF Slot, At, Staged, Batches
  <2>3. At("waiting") = {state.queue[i] : i \in 1 .. Len(state.queue)}
    <3>1. ASSUME NEW b PROVE b \in At("waiting") <=> \E i \in 1 .. Len(state.queue) : state.queue[i] = b
      BY <1>2, <2>1 DEF Slot, At, Staged, Queued
    <3> HIDE DEF At
    <3> QED BY <3>1
  <2>4. Cardinality(At("waiting")) = Len(state.queue)
    BY <1>2, <2>1, <2>3, QueueCount DEF Slot
  <2> QED BY <1>2, <2>1, <2>2, <2>3, <2>4 DEF Slot, SlotIsHeld
<1>3. PanelInv => PanelSound
  BY <1>1, <1>2 DEF PanelSound, SlotIsHeld
<1> QED BY <1>3, PanelInvariant, PTL
-----------------------------------------------------------------------------
(* Rows.                                                                   *)

LEMMA LeastNatural ==
    ASSUME NEW S \in SUBSET Nat, S # {}
    PROVE  \E m \in S : \A k \in S : m <= k
<1> PICK n \in S : TRUE
  OBVIOUS
<1> DEFINE B == {0 .. k : k \in {k \in S : k <= n}}
           I == 0 .. n
<1>1. IsWellFoundedOn(StrictSubsetOrdering(I), SUBSET I)
  <2>1. IsFiniteSet(I)
    BY FS_Interval
  <2> QED BY <2>1, FS_FiniteSubsetsOfFinite, FS_StrictSubsetOrderingWellFounded, Zenon
<1>2. B \subseteq SUBSET I /\ B # {}
  <2>1. n \in {k \in S : k <= n}
    OBVIOUS
  <2> QED BY <2>1
<1>3. \E x \in B : \A y \in B : <<y, x>> \notin StrictSubsetOrdering(I)
  <2> HIDE DEF B, I
  <2> QED BY <1>1, <1>2, WFMin
<1>4. PICK m \in S : m <= n /\ \A y \in B : <<y, 0 .. m>> \notin StrictSubsetOrdering(I)
  BY <1>3
<1>5. ASSUME NEW k \in S, k < m PROVE FALSE
  <2>1. 0 .. k \in B /\ 0 .. m \in B
    BY <1>4, <1>5
  <2>2. 0 .. k \subseteq 0 .. m /\ 0 .. k # 0 .. m
    <3>1. m \in 0 .. m /\ m \notin 0 .. k
      BY <1>5
    <3> QED BY <3>1, <1>5
  <2>3. <<0 .. k, 0 .. m>> \in (SUBSET I) \X (SUBSET I)
    BY <2>1, <1>2
  <2>4. <<0 .. k, 0 .. m>> \in StrictSubsetOrdering(I)
    <3> HIDE DEF I, B
    <3> QED BY <2>2, <2>3 DEF StrictSubsetOrdering
  <2> QED BY <1>4, <2>1, <2>4
<1> QED BY <1>4, <1>5

LEMMA RowFacts == Rows \subseteq Nat /\ NoRow \notin Rows
<1>1. Cardinality(Rows) \in Nat
  BY MenusAssumption, FS_CardinalityType
<1> QED BY <1>1, MenusAssumption DEF NoRow

LEMMA Extremes ==
    ASSUME NEW S \in SUBSET Rows, S # {}
    PROVE  /\ \E m \in S : \A k \in S : m <= k
           /\ \E m \in S : \A k \in S : k <= m
<1>1. PICK n \in Nat : Rows = 1 .. n
  BY MenusAssumption, FS_CardinalityType
<1>2. \E m \in S : \A k \in S : m <= k
  BY <1>1, LeastNatural
<1>3. \E m \in S : \A k \in S : k <= m
  <2> DEFINE T == {n - k : k \in S}
  <2>1. T \in SUBSET Nat /\ T # {}
    <3>1. \A k \in S : n - k \in Nat
      BY <1>1
    <3> QED BY <3>1
  <2>2. PICK x \in T : \A y \in T : x <= y
    BY <2>1, LeastNatural
  <2>3. PICK m \in S : x = n - m
    BY <2>2
  <2>4. ASSUME NEW k \in S PROVE k <= m
    <3>1. n - m <= n - k
      BY <2>2, <2>3
    <3> QED BY <1>1, <3>1
  <2> QED BY <2>4
<1> QED BY <1>2, <1>3

LEMMA SteppedIsRow ==
    ASSUME NEW rows \in SUBSET Rows, rows # {}, NEW from \in rows \union {NoRow},
           NEW down \in BOOLEAN
    PROVE  Stepped(rows, from, down) \in rows
<1> DEFINE ahead == {r \in rows : IF down THEN r > from ELSE r < from}
           ends == {r \in rows : \A o \in rows : IF down THEN r <= o ELSE o <= r}
<1>1. CASE from = NoRow
  <2>1. ends # {} /\ ends \subseteq rows
    BY Extremes
  <2>2. Stepped(rows, from, down) = CHOOSE r \in ends : TRUE
    BY <1>1, Zenon DEF Stepped
  <2> HIDE DEF ends
  <2> QED BY <2>1, <2>2
<1>2. CASE from # NoRow /\ ahead = {}
  <2>1. Stepped(rows, from, down) = from
    BY <1>2, Zenon DEF Stepped
  <2> QED BY <1>2, <2>1
<1>3. CASE from # NoRow /\ ahead # {}
  <2>1. ahead \in SUBSET Rows /\ ahead \subseteq rows
    OBVIOUS
  <2>2. \E r \in ahead : \A o \in ahead : IF down THEN r <= o ELSE o <= r
    <3> HIDE DEF ahead
    <3> QED BY <1>3, <2>1, Extremes
  <2>3. Stepped(rows, from, down)
           = CHOOSE r \in ahead : \A o \in ahead : IF down THEN r <= o ELSE o <= r
    BY <1>3, Zenon DEF Stepped
  <2> HIDE DEF ahead
  <2> QED BY <2>1, <2>2, <2>3, Zenon
<1> QED BY <1>1, <1>2, <1>3
-----------------------------------------------------------------------------
(* The inductive invariant of the selection and the menus.                 *)

Browsing ==
    [path : Folders \union {NoPlace}, rows : SUBSET Rows, chosen : SUBSET Rows,
     anchor : Rows \union {NoRow}, cursor : Rows \union {NoRow}, asked : Nat,
     where : Folders \union {NoPlace}]
Request ==
    [what : {"list", "roots", "siblings", "file"}, of : Sessions, dir : Folders \union {NoPlace},
     row : Rows \union {NoRow}, number : Nat, id : Nat]
Pane == [of : Sessions, dir : Folders \union {NoPlace}, row : Rows \union {NoRow}, here : BOOLEAN]
Menus == [kind : {"none", "listing", "crumb"}, of : Sessions \union {NoPlace}]

MenuShapes ==
    /\ panelOf \in Sessions \union {NoPlace} /\ crumbAsked \in BOOLEAN
    /\ browsing \in [Sessions -> Browsing] /\ panelMenu \in Menus
    /\ answers \subseteq Request /\ asksMade \in Nat /\ panes \in Seq(Pane)

\* What is chosen, and where a range would start, are of the directory listed.
Anchored(s) == s.chosen # {} \/ s.anchor # NoRow => s.where = s.path
Selections == \A t \in Sessions : Anchored(browsing[t])

\* The flag stands for the one request for the path's pieces.
IsCrumb(q) == q.what \in {"roots", "siblings"}
OneAnswer ==
    IF crumbAsked THEN \E q \in answers : IsCrumb(q) /\ \A p \in answers : IsCrumb(p) => p = q
    ELSE \A p \in answers : ~IsCrumb(p)

MenusInv == MenuShapes /\ Selections /\ MenuOfShown /\ OneAnswer /\ OneBufferPerFile
-----------------------------------------------------------------------------
(* The selection.                                                          *)

LEMMA BlankFacts == Blank \in Browsing /\ Anchored(Blank) /\ Blank.chosen = {} /\ Blank.anchor = NoRow
  BY DEF Blank, Browsing, Anchored

LEMMA SelectOnlyFacts ==
    ASSUME NEW s \in Browsing, NEW r \in Rows
    PROVE  SelectOnly(s, r) \in Browsing /\ Anchored(SelectOnly(s, r))
  BY DEF SelectOnly, Browsing, Anchored

\* The cursor goes where it likes.
LEMMA CursorFacts ==
    ASSUME NEW s \in Browsing, Anchored(s), NEW r \in Rows
    PROVE  [s EXCEPT !.cursor = r] \in Browsing /\ Anchored([s EXCEPT !.cursor = r])
  BY DEF Browsing, Anchored

LEMMA ClickedFacts ==
    ASSUME NEW s \in Browsing, Anchored(s), NEW r \in Rows, NEW how \in {"plain", "toggle", "range"}
    PROVE  Clicked(s, r, how) \in Browsing /\ Anchored(Clicked(s, r, how))
<1> DEFINE toggled == [s EXCEPT !.chosen = IF r \in @ THEN @ \ {r} ELSE @ \union {r},
                                !.anchor = r, !.where = s.path]
           ranged == [s EXCEPT !.chosen = RangeOf(s.rows, s.anchor, r)]
<1>1. toggled \in Browsing /\ Anchored(toggled)
  BY DEF Browsing, Anchored
<1>2. s.anchor \in s.rows => ranged \in Browsing /\ Anchored(ranged)
  <2>1. s.anchor \in s.rows => s.anchor # NoRow
    BY RowFacts DEF Browsing
  <2> QED BY <2>1 DEF Browsing, Anchored, RangeOf
<1>3. SelectOnly(s, r) \in Browsing /\ Anchored(SelectOnly(s, r))
  BY SelectOnlyFacts
<1>4. \E c \in Browsing : Anchored(c) /\ Clicked(s, r, how) = [c EXCEPT !.cursor = r]
  <2>1. CASE how = "toggle"
    <3>1. Clicked(s, r, how) = [toggled EXCEPT !.cursor = r]
      BY <2>1, Zenon DEF Clicked
    <3> HIDE DEF toggled
    <3> QED BY <1>1, <3>1
  <2>2. CASE how = "range" /\ s.anchor \in s.rows
    <3>0. how # "toggle"
      BY <2>2
    <3>1. Clicked(s, r, how) = [ranged EXCEPT !.cursor = r]
      BY <2>2, <3>0, Zenon DEF Clicked
    <3> HIDE DEF ranged
    <3> QED BY <1>2, <2>2, <3>1
  <2>3. CASE how # "toggle" /\ ~(how = "range" /\ s.anchor \in s.rows)
    <3>1. Clicked(s, r, how) = [SelectOnly(s, r) EXCEPT !.cursor = r]
      BY <2>3, Zenon DEF Clicked
    <3> QED BY <1>3, <3>1
  <2> QED BY <2>1, <2>2, <2>3
<1> QED BY <1>4, CursorFacts

LEMMA PutCursorFacts ==
    ASSUME NEW s \in Browsing, Anchored(s), NEW r \in Rows, NEW extend \in BOOLEAN
    PROVE  PutCursor(s, r, extend) \in Browsing /\ Anchored(PutCursor(s, r, extend))
<1>1. CASE extend /\ s.anchor # NoRow
  <2>1. PutCursor(s, r, extend) = Clicked(s, r, "range")
    BY <1>1, Zenon DEF PutCursor
  <2> QED BY <2>1, ClickedFacts
<1>2. CASE ~(extend /\ s.anchor # NoRow)
  <2>1. PutCursor(s, r, extend) = [SelectOnly(s, r) EXCEPT !.cursor = r]
    BY <1>2, Zenon DEF PutCursor
  <2> QED BY <2>1, SelectOnlyFacts, CursorFacts
<1> QED BY <1>1, <1>2

\* A step that changes what is chosen in the session on screen, and may open its menu.
LEMMA PutKeeps ==
    ASSUME MenusInv, panelOf \in Sessions, NEW s \in Browsing, Anchored(s), Put(s),
           UNCHANGED <<panelOf, crumbAsked, answers, asksMade, panes>>,
           panelMenu' = panelMenu \/ panelMenu' = [kind |-> "listing", of |-> panelOf]
    PROVE  MenusInv'
<1>1. browsing' = [browsing EXCEPT ![panelOf] = s]
  BY DEF Put
<1>2. MenuShapes'
  BY <1>1 DEF MenusInv, MenuShapes, Menus
<1>3. Selections'
  BY <1>1 DEF MenusInv, MenuShapes, Selections
<1>4. MenuOfShown'
  BY DEF MenusInv, MenuOfShown
<1>5. OneAnswer' /\ OneBufferPerFile'
  BY DEF MenusInv, OneAnswer, OneBufferPerFile
<1> QED BY <1>2, <1>3, <1>4, <1>5 DEF MenusInv

LEMMA HereFacts ==
    ASSUME MenusInv, panelOf # NoPlace
    PROVE  panelOf \in Sessions /\ Here \in Browsing /\ Anchored(Here)
  BY DEF MenusInv, MenuShapes, Selections, Here

LEMMA SelectSteps ==
    ASSUME MenusInv, ClickRow \/ SelectAll \/ StepRows \/ TypeAhead \/ OpenContext
    PROVE  MenusInv'
<1>0. /\ panelOf \in Sessions /\ Here \in Browsing /\ Anchored(Here) /\ Here.rows \subseteq Rows
      /\ UNCHANGED <<panelOf, crumbAsked, answers, asksMade, panes>>
  <2>1. panelOf # NoPlace
    BY DEF ClickRow, SelectAll, StepRows, TypeAhead, OpenContext, OnRows
  <2> QED BY <2>1, HereFacts
      DEF ClickRow, SelectAll, StepRows, TypeAhead, OpenContext, OnRows, Browsing
<1>1. CASE ClickRow
  <2>1. PICK r \in Here.rows, how \in {"plain", "toggle", "range"} : Put(Clicked(Here, r, how))
    BY <1>1 DEF ClickRow
  <2> QED BY <1>0, <1>1, <2>1, ClickedFacts, PutKeeps DEF ClickRow
<1>2. CASE SelectAll
  <2> DEFINE first == CHOOSE r \in Here.rows : \A o \in Here.rows : r <= o
             s == [Here EXCEPT !.chosen = Here.rows, !.anchor = first, !.where = Here.path]
  <2>1. first \in Rows
    <3>1. \E r \in Here.rows : \A o \in Here.rows : r <= o
      BY <1>0, <1>2, Extremes DEF SelectAll
    <3>2. first \in Here.rows
      BY <3>1, Zenon
    <3> QED BY <1>0, <3>2
  <2>2. Put(s) /\ UNCHANGED panelMenu
    BY <1>2 DEF SelectAll
  <2> HIDE DEF first
  <2>3. s \in Browsing /\ Anchored(s)
    BY <1>0, <2>1 DEF Browsing, Anchored
  <2> QED BY <1>0, <2>2, <2>3, PutKeeps
<1>3. CASE StepRows
  <2> DEFINE from == IF Here.cursor \in Here.rows THEN Here.cursor
                     ELSE IF Here.anchor \in Here.rows THEN Here.anchor ELSE NoRow
  <2>1. from \in Here.rows \union {NoRow} /\ Here.rows # {} /\ UNCHANGED panelMenu
    BY <1>3 DEF StepRows
  <2>2. PICK down \in BOOLEAN, extend \in BOOLEAN :
           Put(PutCursor(Here, Stepped(Here.rows, from, down), extend))
    BY <1>3 DEF StepRows
  <2> HIDE DEF from
  <2>3. Stepped(Here.rows, from, down) \in Rows
    BY <1>0, <2>1, SteppedIsRow
  <2> QED BY <1>0, <2>1, <2>2, <2>3, PutCursorFacts, PutKeeps
<1>4. CASE TypeAhead
  <2>1. PICK r \in Here.rows : Put(PutCursor(Here, r, FALSE))
    BY <1>4 DEF TypeAhead
  <2> QED BY <1>0, <1>4, <2>1, PutCursorFacts, PutKeeps DEF TypeAhead
<1>5. CASE OpenContext
  <2>1. PICK r \in Here.rows \union {NoRow} :
           /\ Put(IF r = NoRow \/ r \in Here.chosen THEN Here ELSE SelectOnly(Here, r))
           /\ panelMenu' = [kind |-> "listing", of |-> panelOf]
    BY <1>5 DEF OpenContext
  <2>2. CASE r = NoRow \/ r \in Here.chosen
    BY <1>0, <2>1, <2>2, PutKeeps
  <2>3. CASE ~(r = NoRow \/ r \in Here.chosen)
    <3>1. r \in Rows
      BY <1>0, <2>3
    <3> QED BY <1>0, <2>1, <2>3, <3>1, SelectOnlyFacts, PutKeeps
  <2> QED BY <2>2, <2>3
<1> QED BY <1>1, <1>2, <1>3, <1>4, <1>5
-----------------------------------------------------------------------------
(* Sessions, listings, menus and files.                                    *)

LEMMA SessionSteps ==
    ASSUME MenusInv, (\E t \in Sessions : ShowTab(t)) \/ ForgetTab PROVE MenusInv'
<1>1. CASE \E t \in Sessions : ShowTab(t)
  <2>1. /\ panelOf' \in Sessions /\ panelMenu' = NoMenu
        /\ UNCHANGED <<browsing, crumbAsked, answers, asksMade, panes>>
    BY <1>1 DEF ShowTab
  <2>2. NoMenu \in Menus
    BY DEF NoMenu, Menus
  <2>3. MenuShapes' /\ Selections' /\ MenuOfShown'
    BY <2>1, <2>2 DEF MenusInv, MenuShapes, Selections, MenuOfShown, NoMenu
  <2>4. OneAnswer' /\ OneBufferPerFile'
    BY <2>1 DEF MenusInv, OneAnswer, OneBufferPerFile
  <2> QED BY <2>3, <2>4 DEF MenusInv
<1>2. CASE ForgetTab
  <2>1. /\ panelOf \in Sessions /\ panelOf' = NoPlace
        /\ browsing' = [browsing EXCEPT ![panelOf] = Blank]
        /\ UNCHANGED <<panelMenu, crumbAsked, answers, asksMade, panes>>
    BY <1>2, HereFacts DEF ForgetTab, Put
  <2>2. MenuShapes' /\ Selections' /\ MenuOfShown'
    BY <2>1, BlankFacts DEF MenusInv, MenuShapes, Selections, MenuOfShown
  <2>3. OneAnswer' /\ OneBufferPerFile'
    BY <2>1 DEF MenusInv, OneAnswer, OneBufferPerFile
  <2> QED BY <2>2, <2>3 DEF MenusInv
<1> QED BY <1>1, <1>2

\* A request joins those that wait for their answer.
LEMMA SendFacts ==
    ASSUME MenusInv, panelOf \in Sessions, NEW what \in {"list", "roots", "siblings", "file"},
           NEW dir \in Folders \union {NoPlace}, NEW row \in Rows \union {NoRow},
           NEW n \in Nat, Send(Query(what, dir, row, n))
    PROVE  /\ asksMade' \in Nat
           /\ \E q \in Request : q.what = what /\ answers' = answers \union {q}
<1> DEFINE q == [what |-> what, of |-> panelOf, dir |-> dir, row |-> row, number |-> n, id |-> 0]
           r == [q EXCEPT !.id = asksMade + 1]
<1>1. asksMade \in Nat /\ asksMade' = asksMade + 1 /\ answers' = answers \union {r}
  BY DEF MenusInv, MenuShapes, Send, Query
<1>2. q \in Request /\ q.what = what
  BY DEF Request
<1> HIDE DEF q
<1>3. PICK m \in Nat : m = asksMade + 1
  BY <1>1
<1>4. r = [q EXCEPT !.id = m]
  BY <1>3
<1> HIDE DEF r
<1>5. r \in Request /\ r.what = what
  BY <1>2, <1>4 DEF Request
<1> QED BY <1>1, <1>5

LEMMA AskingSteps ==
    ASSUME MenusInv,
           (\E dir \in Folders : GoTo(dir)) \/ AskCrumb("roots") \/ AskCrumb("siblings") \/ EditFile
    PROVE  MenusInv'
<1>0. panelOf \in Sessions /\ Here \in Browsing /\ Anchored(Here)
  <2>1. panelOf # NoPlace
    BY DEF GoTo, AskCrumb, EditFile, ActOn
  <2> QED BY <2>1, HereFacts
<1>1. ASSUME NEW dir \in Folders, GoTo(dir) PROVE MenusInv'
  <2> DEFINE s == [Here EXCEPT !.asked = @ + 1]
  <2>1. Here.asked + 1 \in Nat
    BY <1>0 DEF Browsing
  <2>2. s \in Browsing /\ Anchored(s)
    <3>1. PICK n \in Nat : n = Here.asked + 1
      BY <2>1
    <3>2. s = [Here EXCEPT !.asked = n]
      BY <3>1
    <3> QED BY <1>0, <3>2 DEF Browsing, Anchored
  <2>3. PICK q \in Request : q.what = "list" /\ answers' = answers \union {q} /\ asksMade' \in Nat
    BY <1>0, <1>1, <2>1, SendFacts DEF GoTo
  <2>4. /\ browsing' = [browsing EXCEPT ![panelOf] = s]
        /\ UNCHANGED <<panelOf, crumbAsked, panelMenu, panes>>
    BY <1>1 DEF GoTo, Put
  <2> HIDE DEF s
  <2>5. MenuShapes' /\ Selections' /\ MenuOfShown'
    BY <1>0, <2>2, <2>3, <2>4 DEF MenusInv, MenuShapes, Selections, MenuOfShown
  <2>6. OneAnswer' /\ OneBufferPerFile'
    BY <2>3, <2>4 DEF MenusInv, OneAnswer, OneBufferPerFile, IsCrumb
  <2> QED BY <2>5, <2>6 DEF MenusInv
<1>2. ASSUME NEW what \in {"roots", "siblings"}, AskCrumb(what) PROVE MenusInv'
  <2>1. PICK q \in Request : q.what = what /\ answers' = answers \union {q} /\ asksMade' \in Nat
    BY <1>0, <1>2, SendFacts DEF AskCrumb
  <2>2. /\ ~crumbAsked /\ crumbAsked' = TRUE
        /\ UNCHANGED <<panelOf, browsing, panelMenu, panes>>
    BY <1>2 DEF AskCrumb
  <2>3. MenuShapes' /\ Selections' /\ MenuOfShown'
    BY <2>1, <2>2 DEF MenusInv, MenuShapes, Selections, MenuOfShown
  <2>4. OneAnswer' /\ OneBufferPerFile'
    BY <1>2, <2>1, <2>2 DEF MenusInv, OneAnswer, OneBufferPerFile, IsCrumb
  <2> QED BY <2>3, <2>4 DEF MenusInv
<1>3. ASSUME EditFile PROVE MenusInv'
  <2>1. PICK r \in Selection : Send(Query("file", Here.path, r, 0))
    BY <1>3 DEF EditFile
  <2>2. r \in Rows /\ Here.path \in Folders \union {NoPlace}
    BY <1>0, <2>1 DEF Selection, Browsing
  <2>3. PICK q \in Request : q.what = "file" /\ answers' = answers \union {q} /\ asksMade' \in Nat
    BY <1>0, <2>1, <2>2, SendFacts
  <2>4. UNCHANGED <<panelOf, browsing, panelMenu, crumbAsked, panes>>
    BY <1>3 DEF EditFile
  <2>5. MenuShapes' /\ Selections' /\ MenuOfShown'
    BY <2>3, <2>4 DEF MenusInv, MenuShapes, Selections, MenuOfShown
  <2>6. OneAnswer' /\ OneBufferPerFile'
    BY <2>3, <2>4 DEF MenusInv, OneAnswer, OneBufferPerFile, IsCrumb
  <2> QED BY <2>5, <2>6 DEF MenusInv
<1> QED BY <1>1, <1>2, <1>3

LEMMA RowsArriveKeeps == ASSUME MenusInv, NEW q \in answers, RowsArrive(q) PROVE MenusInv'
<1>0. /\ q \in Request /\ q.what = "list" /\ answers' = answers \ {q}
      /\ UNCHANGED <<panelOf, panelMenu, crumbAsked, asksMade, panes>>
  BY DEF RowsArrive, MenusInv, MenuShapes
<1>1. /\ browsing' \in [Sessions -> Browsing]
      /\ \A t \in Sessions : Anchored(browsing'[t])
  <2>1. CASE UNCHANGED browsing
    BY <2>1 DEF MenusInv, MenuShapes, Selections
  <2>2. ASSUME NEW rows \in SUBSET Rows,
               browsing' = [browsing EXCEPT ![q.of] =
                   [(IF browsing[q.of].path = q.dir THEN browsing[q.of]
                     ELSE DropSelection(browsing[q.of])) EXCEPT !.path = q.dir, !.rows = rows]]
        PROVE  /\ browsing' \in [Sessions -> Browsing]
               /\ \A t \in Sessions : Anchored(browsing'[t])
    <3> DEFINE s == browsing[q.of]
               kept == [s EXCEPT !.path = q.dir, !.rows = rows]
               dropped == [DropSelection(s) EXCEPT !.path = q.dir, !.rows = rows]
    <3>1. q.of \in Sessions /\ q.dir \in Folders \union {NoPlace} /\ s \in Browsing /\ Anchored(s)
      BY <1>0 DEF Request, MenusInv, MenuShapes, Selections
    <3>2. s.path = q.dir => kept \in Browsing /\ Anchored(kept)
      BY <3>1 DEF Browsing, Anchored
    <3>3. dropped \in Browsing /\ Anchored(dropped)
      BY <3>1 DEF Browsing, Anchored, DropSelection
    <3>4. browsing' = [browsing EXCEPT ![q.of] = IF s.path = q.dir THEN kept ELSE dropped]
      BY <2>2, Zenon
    <3> HIDE DEF kept, dropped
    <3> QED BY <3>1, <3>2, <3>3, <3>4 DEF MenusInv, MenuShapes, Selections
  <2> QED BY <2>1, <2>2, Zenon DEF RowsArrive
<1>2. MenuShapes' /\ Selections' /\ MenuOfShown'
  BY <1>0, <1>1 DEF MenusInv, MenuShapes, Selections, MenuOfShown
<1>3. OneAnswer' /\ OneBufferPerFile'
  BY <1>0 DEF MenusInv, OneAnswer, OneBufferPerFile, IsCrumb
<1> QED BY <1>2, <1>3 DEF MenusInv

LEMMA CrumbSteps ==
    ASSUME MenusInv, NEW q \in answers, CrumbArrives(q) \/ RootAlone(q) PROVE MenusInv'
<1>1. CASE CrumbArrives(q)
  <2>1. /\ IsCrumb(q) /\ q \in Request /\ answers' = answers \ {q} /\ crumbAsked' = FALSE
        /\ \/ panelMenu' = panelMenu
           \/ panelOf = q.of /\ panelMenu' = [kind |-> "crumb", of |-> q.of]
        /\ UNCHANGED <<panelOf, browsing, asksMade, panes>>
    BY <1>1 DEF CrumbArrives, AnswerOfShown, IsCrumb, MenusInv, MenuShapes
  <2>2. panelMenu' \in Menus /\ MenuOfShown'
    <3>1. CASE panelMenu' = panelMenu
      BY <2>1, <3>1 DEF MenusInv, MenuShapes, MenuOfShown
    <3>2. CASE panelOf = q.of /\ panelMenu' = [kind |-> "crumb", of |-> q.of]
      <4>1. q.of \in Sessions
        BY <2>1 DEF Request
      <4> QED BY <2>1, <3>2, <4>1 DEF Menus, MenuOfShown
    <3> QED BY <2>1, <3>1, <3>2
  <2>3. MenuShapes' /\ Selections'
    BY <2>1, <2>2 DEF MenusInv, MenuShapes, Selections
  <2>4. OneAnswer' /\ OneBufferPerFile'
    BY <2>1 DEF MenusInv, OneAnswer, OneBufferPerFile
  <2> QED BY <2>2, <2>3, <2>4 DEF MenusInv
<1>2. CASE RootAlone(q)
  <2> DEFINE r == [q EXCEPT !.what = "siblings"]
  <2>1. /\ q.what = "roots" /\ crumbAsked' = TRUE /\ answers' = (answers \ {q}) \union {r}
        /\ UNCHANGED <<panelOf, browsing, panelMenu, asksMade, panes>>
    BY <1>2 DEF RootAlone
  <2>2. r \in Request /\ r.what = "siblings"
    BY DEF MenusInv, MenuShapes, Request
  <2> HIDE DEF r
  <2>3. MenuShapes' /\ Selections' /\ MenuOfShown'
    BY <2>1, <2>2 DEF MenusInv, MenuShapes, Selections, MenuOfShown
  <2>4. OneAnswer' /\ OneBufferPerFile'
    BY <2>1, <2>2 DEF MenusInv, OneAnswer, OneBufferPerFile, IsCrumb
  <2> QED BY <2>3, <2>4 DEF MenusInv
<1> QED BY <1>1, <1>2

LEMMA MenuSteps == ASSUME MenusInv, PutMenuAway \/ OpenFolded PROVE MenusInv'
<1>1. /\ panelMenu' = NoMenu \/ (panelOf \in Sessions /\ panelMenu' = [kind |-> "crumb", of |-> panelOf])
      /\ UNCHANGED <<panelOf, browsing, crumbAsked, answers, asksMade, panes>>
  BY HereFacts DEF PutMenuAway, OpenFolded, ActOn
<1>2. NoMenu \in Menus
  BY DEF NoMenu, Menus
<1>3. MenuShapes' /\ Selections' /\ MenuOfShown'
  BY <1>1, <1>2 DEF MenusInv, MenuShapes, Menus, Selections, MenuOfShown
<1>4. OneAnswer' /\ OneBufferPerFile'
  BY <1>1 DEF MenusInv, OneAnswer, OneBufferPerFile
<1> QED BY <1>3, <1>4 DEF MenusInv

LEMMA FileSteps ==
    ASSUME MenusInv, (\E q \in answers : FileArrives(q)) \/ TakeAway PROVE MenusInv'
<1>0. panes \in Seq(Pane)
  BY DEF MenusInv, MenuShapes
<1>1. ASSUME NEW q \in answers, FileArrives(q) PROVE MenusInv'
  <2> DEFINE new == [of |-> q.of, dir |-> q.dir, row |-> q.row, here |-> TRUE]
  <2>1. /\ q \in Request /\ q.what = "file" /\ answers' = answers \ {q}
        /\ panes' = panes \/ (~PaneOfFile(q) /\ panes' = Append(panes, new))
        /\ UNCHANGED <<panelOf, browsing, panelMenu, crumbAsked, asksMade>>
    BY <1>1 DEF FileArrives, MenusInv, MenuShapes
  <2>2. new \in Pane /\ new.of = q.of /\ new.dir = q.dir /\ new.row = q.row
    BY <2>1 DEF Pane, Request
  <2> HIDE DEF new
  <2>3. MenuShapes' /\ Selections' /\ MenuOfShown'
    BY <1>0, <2>1, <2>2 DEF MenusInv, MenuShapes, Selections, MenuOfShown
  <2>4. OneAnswer'
    BY <2>1 DEF MenusInv, OneAnswer, IsCrumb
  <2>5. OneBufferPerFile'
    <3>1. CASE panes' = panes
      BY <3>1 DEF MenusInv, OneBufferPerFile
    <3>2. CASE ~PaneOfFile(q) /\ panes' = Append(panes, new)
      <4>1. PICK n \in Nat : Len(panes) = n
        BY <1>0
      <4>2. /\ Len(panes') = n + 1 /\ panes'[n + 1] = new
            /\ \A i \in 1 .. n : panes'[i] = panes[i]
        BY <1>0, <3>2, <4>1
      <4>3. 1 .. n + 1 = 1 .. n \union {n + 1}
        OBVIOUS
      <4>4. \A i \in 1 .. n : panes[i].here => panes[i] # new
        BY <2>2, <3>2, <4>1 DEF PaneOfFile
      <4>5. \A i, j \in 1 .. n : panes[i] = panes[j] /\ panes[i].here => i = j
        BY <4>1 DEF MenusInv, OneBufferPerFile
      <4> QED BY <4>2, <4>3, <4>4, <4>5 DEF OneBufferPerFile
    <3> QED BY <2>1, <3>1, <3>2
  <2> QED BY <2>3, <2>4, <2>5 DEF MenusInv
<1>2. CASE TakeAway
  <2>1. PICK i \in 1 .. Len(panes), no \in BOOLEAN :
           ~no /\ panes' = [panes EXCEPT ![i].here = no]
    BY <1>2, Zenon DEF TakeAway
  <2>2. UNCHANGED <<panelOf, browsing, panelMenu, crumbAsked, answers, asksMade>>
    BY <1>2 DEF TakeAway
  <2> DEFINE x == [panes[i] EXCEPT !.here = no]
  <2>3. x \in Pane /\ ~x.here
    <3>1. panes[i] \in Pane
      BY <1>0, <2>1
    <3>2. x \in Pane /\ x.here = no
      BY <3>1 DEF Pane
    <3> QED BY <2>1, <3>2
  <2>4. panes' = [panes EXCEPT ![i] = x]
    BY <2>1
  <2> HIDE DEF x
  <2>5. /\ panes' \in Seq(Pane) /\ Len(panes') = Len(panes) /\ panes'[i] = x
        /\ \A j \in 1 .. Len(panes) : j # i => panes'[j] = panes[j]
    BY <1>0, <2>3, <2>4
  <2>6. MenuShapes' /\ Selections' /\ MenuOfShown'
    BY <2>2, <2>5 DEF MenusInv, MenuShapes, Selections, MenuOfShown
  <2>7. OneAnswer' /\ OneBufferPerFile'
    BY <2>2, <2>3, <2>5 DEF MenusInv, OneAnswer, OneBufferPerFile
  <2> QED BY <2>6, <2>7 DEF MenusInv
<1> QED BY <1>1, <1>2
-----------------------------------------------------------------------------
(* The theorem on the selection and the menus.                             *)

LEMMA MenusStart == MenusInit => MenusInv
<1> SUFFICES ASSUME MenusInit PROVE MenusInv
  OBVIOUS
<1>1. /\ panelOf \in Sessions /\ panelMenu = NoMenu /\ crumbAsked = FALSE
      /\ answers = {} /\ asksMade = 0 /\ panes = << >> /\ NoMenu \in Menus
  BY DEF MenusInit, NoMenu, Menus
<1>2. PICK dir \in Folders :
         browsing = [t \in Sessions |->
             IF t = panelOf THEN [Blank EXCEPT !.path = dir, !.rows = Rows, !.asked = 1] ELSE Blank]
  BY DEF MenusInit
<1> DEFINE s == [Blank EXCEPT !.path = dir, !.rows = Rows, !.asked = 1]
<1>3. s \in Browsing /\ Anchored(s)
  BY BlankFacts DEF Browsing, Anchored
<1> HIDE DEF s
<1>4. browsing \in [Sessions -> Browsing] /\ \A t \in Sessions : Anchored(browsing[t])
  BY <1>2, <1>3, BlankFacts DEF s
<1>5. MenuShapes
  BY <1>1, <1>4, EmptySeq DEF MenuShapes
<1>6. Selections /\ MenuOfShown /\ OneAnswer /\ OneBufferPerFile
  BY <1>1, <1>4 DEF Selections, MenuOfShown, OneAnswer, OneBufferPerFile
<1> QED BY <1>5, <1>6 DEF MenusInv

LEMMA MenusStep == MenusInv /\ [MenusNext]_menuVars => MenusInv'
<1>1. ASSUME MenusInv, UNCHANGED menuVars PROVE MenusInv'
  BY <1>1 DEF menuVars, MenusInv, MenuShapes, Selections, MenuOfShown, OneAnswer, OneBufferPerFile
<1>2. ASSUME MenusInv, MenusNext PROVE MenusInv'
  BY <1>2, SessionSteps, SelectSteps, AskingSteps, RowsArriveKeeps, CrumbSteps, MenuSteps, FileSteps
  DEF MenusNext
<1> QED BY <1>1, <1>2

\* However late listings, the menus of the path and files arrive, and whichever session
\* the panel was turned to meanwhile: the menu is of the session on screen, what is chosen
\* was chosen in the directory listed, the path's pieces wait for one answer exactly while
\* one is under way, and two reads of a file end in one pane (navigation.rs, keyboard.rs).
THEOREM MenusAreSound == MenusSpec => []MenusSound
<1>1. ASSUME MenusInv PROVE MenusSound
  <2>1. MenuTypes
    BY <1>1 DEF MenusInv, MenuShapes, Menus, Browsing, MenuTypes
  <2>2. ChosenHere
    BY <1>1 DEF MenusInv, Selections, Anchored, ChosenHere
  <2>3. OneCrumbAsked
    <3>0. crumbAsked = TRUE \/ crumbAsked = FALSE
      BY <1>1 DEF MenusInv, MenuShapes
    <3> DEFINE C == {q \in answers : q.what \in {"roots", "siblings"}}
    <3>1. CASE crumbAsked = TRUE
      <4>1. \E q : C = {q}
        BY <1>1, <3>1 DEF MenusInv, OneAnswer, IsCrumb
      <4>2. Cardinality(C) = 1
        BY <4>1, FS_Singleton
      <4> QED BY <3>1, <4>2 DEF OneCrumbAsked
    <3>2. CASE crumbAsked = FALSE
      <4>1. C = {}
        BY <1>1, <3>2 DEF MenusInv, OneAnswer, IsCrumb
      <4>2. Cardinality(C) = 0
        BY <4>1, FS_EmptySet
      <4>3. Cardinality(C) # 1
        BY <4>2
      <4> QED BY <3>2, <4>3, Zenon DEF OneCrumbAsked
    <3> QED BY <3>0, <3>1, <3>2
  <2> QED BY <1>1, <2>1, <2>2, <2>3 DEF MenusInv, MenusSound
<1>2. MenusSpec => []MenusInv
  BY MenusStart, MenusStep, PTL DEF MenusSpec
<1> QED BY <1>1, <1>2, PTL
-----------------------------------------------------------------------------
(* The editor: the inductive invariant.                                    *)

Reloads == [on : BOOLEAN, bytes : Known \cup {Missing, Nothing}]
SudoPrompts == {NoPrompt} \cup [purpose : {"Unlock", "Save"}, remember : BOOLEAN, busy : BOOLEAN]
Unlocks == [purpose : {"Unlock", "Save", "Free"},
            mode : {"Free", "Remembered", "EveryTime"}, cancelled : BOOLEAN]

\* What TypeOK leaves out.
Shapes ==
    /\ limit \in 1 .. MaxContents
    /\ reload \in Reloads
    /\ prompt \in SudoPrompts
    /\ unlocks \subseteq Unlocks

\* Whatever was read from the disk, or set aside on it, had been there.
WasThere ==
    /\ {file, backup} \subseteq stored \cup {Missing}
    /\ reload.bytes \in stored \cup {Missing, Nothing}

\* A save expects what the editor knows, and one that worked is noted and stored.
Expects ==
    /\ {0, original, job.expected, late.expected} \subseteq noted
    /\ job.step = "landed" /\ job.result = "ok" => job.bytes \in noted \cap stored

\* Until the buffer moves, the save in flight is of what it shows.
SavesBuffer == open = "open" /\ saving /\ ~moved => text = job.bytes

\* What is modified, asked about, or waits for the password of a write is not
\* locked; an unlock in flight is the only one while the pane is, and its question
\* stands for the one access that needs it.
Locks ==
    /\ dirty \/ question \/ prompt.purpose = "Save" => ~readOnly
    /\ \A u \in unlocks :
          /\ u.purpose = "Save" => ~readOnly
          /\ u.purpose # "Save" => readOnly /\ unlocks = {u}
          /\ u.purpose = "Free" => access = "Granted"
    /\ prompt.purpose = "Unlock" =>
          readOnly /\ access = "NeedsPassword" /\ (~prompt.busy => unlocks = {})

Armed == ArmedForCause /\ (open # "open" => ~closeAfter)

EditInv ==
    /\ TypeOK /\ Shapes /\ WasThere /\ DiskSafe /\ Expects
    /\ SavesBuffer /\ Locks /\ Armed /\ CleanIsStored
-----------------------------------------------------------------------------
(* Saves.                                                                  *)

LEMMA Distinct ==
    /\ Missing \notin Known /\ Nothing \notin Known /\ Missing # Nothing
    /\ 0 \in Contents /\ Contents \subseteq Known
  BY SafeSaveAssumption DEF Missing, Nothing, Known, Contents, Torn

LEMMA LandedShape ==
    ASSUME NEW j \in JobType, NEW r \in {"ok", "conflict", "unpreservable", "failed"}
    PROVE  /\ Landed(j, r) \in JobType /\ Landed(j, r).step = "landed"
           /\ Landed(j, r).result = r /\ Landed(j, r).expected = 0
           /\ Landed(j, r).bytes = j.bytes
  BY Distinct DEF Landed, JobType

LEMMA SaveStep ==
    ASSUME TypeOK, WasThere, DiskSafe, limit \in Nat,
           NEW j \in JobType, j.expected \in noted, 0 \in noted, NEW k, RunSave(j, k)
    PROVE  /\ k \in JobType /\ k.step # None /\ k.bytes = j.bytes
           /\ noted \subseteq noted' /\ stored \subseteq stored'
           /\ noted' \cup stored' \subseteq Known
           /\ {file', backup'} \subseteq stored' \cup {Missing}
           /\ DiskSafe' /\ limit' = limit
           /\ k.expected \in noted'
           /\ k.step = "landed" /\ k.result = "ok" => k.bytes \in noted' \cap stored'
<1> DEFINE Goal ==
           /\ k \in JobType /\ k.step # None /\ k.bytes = j.bytes
           /\ noted \subseteq noted' /\ stored \subseteq stored'
           /\ noted' \cup stored' \subseteq Known
           /\ {file', backup'} \subseteq stored' \cup {Missing}
           /\ DiskSafe' /\ limit' = limit
           /\ k.expected \in noted'
           /\ k.step = "landed" /\ k.result = "ok" => k.bytes \in noted' \cap stored'
<1> USE Distinct DEF None
<1>0. /\ file \in Known \cup {Missing} /\ backup \in Known \cup {Missing}
      /\ noted \subseteq Known /\ stored \subseteq Known
      /\ file \in stored \cup {Missing} /\ backup \in stored \cup {Missing}
      /\ ~blind /\ (file = Missing => backup # Missing)
  BY DEF TypeOK, WasThere, DiskSafe
<1>1. CASE ReadNow(j, k)
  <2>1. CASE /\ file # Missing /\ noted' = noted \cup {file}
             /\ k = [j EXCEPT !.step = "compare", !.expected = file]
    BY <1>0, <1>1, <2>1 DEF ReadNow, JobType, DiskSafe
  <2>2. CASE k = Landed(j, "failed") /\ noted' = noted
    BY <1>0, <1>1, <2>2, LandedShape DEF ReadNow, DiskSafe
  <2> QED BY <1>1, <2>1, <2>2 DEF ReadNow
<1>2. CASE CompareAndStage(j, k)
  <2>1. CASE UNCHANGED disk /\ k = [j EXCEPT !.step = "commit"]
    BY <1>0, <2>1 DEF JobType, DiskSafe, disk
  <2>2. CASE /\ UNCHANGED disk
             /\ \E r \in {"conflict", "unpreservable", "failed"} : k = Landed(j, r)
    BY <1>0, <2>2, LandedShape DEF DiskSafe, disk
  <2> QED BY <1>2, <2>1, <2>2 DEF CompareAndStage
<1>3. CASE Commit(j, k)
  <2>1. CASE StillExpected(j) /\ Replace(j.bytes) /\ k = Landed(j, "ok")
             /\ UNCHANGED <<limit, backup>>
    <3>1. j.bytes \in Known
      BY DEF JobType
    <3>2. /\ noted' = noted \cup {j.bytes} /\ stored' = stored \cup {j.bytes}
          /\ file' = j.bytes /\ blind' = FALSE /\ backup' = backup /\ limit' = limit
      BY <1>0, <2>1 DEF Replace, StillExpected
    <3> QED BY <1>0, <2>1, <3>1, <3>2, LandedShape DEF DiskSafe
  <2>2. CASE UNCHANGED disk /\ \E r \in {"conflict", "failed"} : k = Landed(j, r)
    BY <1>0, <2>2, LandedShape DEF DiskSafe, disk
  <2> QED BY <1>3, <2>1, <2>2 DEF Commit
<1>4. CASE CommitHalf(j, k)
  BY <1>0, <1>4 DEF CommitHalf, StillExpected, JobType, DiskSafe
<1>5. CASE Restore(j, k)
  BY <1>0, <1>5, LandedShape DEF Restore, DiskSafe
<1>6. CASE WriteInPlace(j, k)
  <2>1. ASSUME NEW c \in {j.bytes, Torn}, file = j.expected, Replace(c),
               UNCHANGED <<limit, backup>>,
               (k = Landed(j, "ok") /\ c = j.bytes) \/ k = Landed(j, "failed")
        PROVE  Goal
    <3>1. c \in Known /\ c # Missing
      BY <2>1 DEF JobType, Known
    <3>2. /\ noted' = noted \cup {c} /\ stored' = stored \cup {c}
          /\ file' = c /\ blind' = FALSE /\ backup' = backup /\ limit' = limit
      BY <1>0, <2>1 DEF Replace
    <3> QED BY <1>0, <2>1, <3>1, <3>2, LandedShape DEF DiskSafe, Goal
  <2>2. CASE /\ UNCHANGED <<limit, backup, file, blind, noted, stored>>
             /\ \E r \in {"conflict", "failed"} : k = Landed(j, r)
    BY <1>0, <2>2, LandedShape DEF DiskSafe
  <2> QED BY <1>6, <2>1, <2>2 DEF WriteInPlace, Goal
<1> QED BY <1>1, <1>2, <1>3, <1>4, <1>5, <1>6 DEF RunSave

-----------------------------------------------------------------------------
(* The conjuncts of TypeOK and Shapes, in three groups.                    *)

Bytes ==
    /\ source \in Sources /\ limit \in 1 .. MaxContents
    /\ {file, backup} \subseteq Known \cup {Missing}
    /\ {text, original} \subseteq Known /\ fresh \in Contents
    /\ job \in JobType /\ late \in JobType
    /\ noted \cup stored \subseteq Known
    /\ reload \in Reloads

Flags == {dirty, moved, readOnly, closeAfter, discarding, question} \subseteq BOOLEAN

Labels ==
    /\ access \in {"None", "NeedsPassword", "Granted"}
    /\ open \in {"open", "saved", "clean", "discarded"}
    /\ rootMode \in {"No", "Free", "Remembered", "EveryTime"}
    /\ message \in {None, "conflict", "in_place"}
    /\ conflict \in {None, "offered", "confirm"}
    /\ prompt \in SudoPrompts
    /\ unlocks \subseteq Unlocks

LEMMA ReloadShapes ==
    /\ NoReload \in Reloads /\ NoReload.bytes = Nothing
    /\ [on |-> TRUE, bytes |-> Nothing] \in Reloads
    /\ \A r \in Reloads : r.on \in BOOLEAN
  BY DEF Reloads, NoReload

LEMMA Types == TypeOK /\ Shapes <=> Bytes /\ Flags /\ Labels
  BY ReloadShapes DEF TypeOK, Shapes, Bytes, Flags, Labels

LEMMA PromptShapes ==
    /\ NoPrompt \in SudoPrompts /\ NoPrompt.purpose = None
    /\ \A p \in {"Unlock", "Save"} :
          AskPassword(p) => /\ prompt' \in SudoPrompts /\ prompt'.purpose = p
                            /\ prompt'.busy = FALSE /\ question' = FALSE
    /\ prompt \in SudoPrompts /\ prompt # NoPrompt => prompt.purpose \in {"Unlock", "Save"}
    /\ \A b \in BOOLEAN :
          prompt \in SudoPrompts /\ SetBusy(b) =>
             /\ prompt' \in SudoPrompts /\ prompt'.purpose = prompt.purpose
             /\ prompt = NoPrompt => prompt' = NoPrompt
             /\ prompt # NoPrompt => prompt' # NoPrompt /\ prompt'.busy = b
<1>1. NoPrompt \in SudoPrompts /\ NoPrompt.purpose = None
  BY DEF SudoPrompts, NoPrompt
<1>2. \A p \in {"Unlock", "Save"} :
          AskPassword(p) => /\ prompt' \in SudoPrompts /\ prompt'.purpose = p
                            /\ prompt'.busy = FALSE /\ question' = FALSE
  BY DEF SudoPrompts, AskPassword
<1>3. prompt \in SudoPrompts /\ prompt # NoPrompt => prompt.purpose \in {"Unlock", "Save"}
  BY DEF SudoPrompts
<1>4. ASSUME NEW b \in BOOLEAN, prompt \in SudoPrompts, SetBusy(b)
      PROVE  /\ prompt' \in SudoPrompts /\ prompt'.purpose = prompt.purpose
             /\ prompt = NoPrompt => prompt' = NoPrompt
             /\ prompt # NoPrompt => prompt' # NoPrompt /\ prompt'.busy = b
  <2>1. CASE prompt = NoPrompt
    BY <1>4, <2>1 DEF SetBusy
  <2>2. CASE prompt # NoPrompt
    <3>1. prompt \in [purpose : {"Unlock", "Save"}, remember : BOOLEAN, busy : BOOLEAN]
      BY <1>4, <2>2 DEF SudoPrompts
    <3>2. prompt' = [prompt EXCEPT !.busy = b]
      BY <1>4, <2>2 DEF SetBusy
    <3>3. /\ prompt' \in [purpose : {"Unlock", "Save"}, remember : BOOLEAN, busy : BOOLEAN]
          /\ prompt'.purpose = prompt.purpose /\ prompt'.busy = b
      BY <3>1, <3>2
    <3> QED BY <1>1, <2>2, <3>3 DEF SudoPrompts, None
  <2> QED BY <2>1, <2>2
<1> QED BY <1>1, <1>2, <1>3, <1>4

LEMMA UnlockShapes ==
    /\ \A p \in {"Unlock", "Save", "Free"}, m \in {"Free", "Remembered", "EveryTime"} :
          Unlock(p, m) \in Unlocks /\ Unlock(p, m).purpose = p
    /\ \A u \in Unlocks : u.mode \in {"Free", "Remembered", "EveryTime"}
    /\ \A us \in SUBSET Unlocks :
          /\ Cancelled(us) \subseteq Unlocks
          /\ \A v \in Cancelled(us) :
                \E u \in us : v.purpose = u.purpose /\ (us = {u} => Cancelled(us) = {v})
  BY DEF Unlocks, Unlock, Cancelled

-----------------------------------------------------------------------------
(* Each action keeps the invariant.                                        *)

USE DEF AtPane, Explain, held, pane, dialogs, disk, saveVars, saving, None

LEMMA TypeKeeps == ASSUME EditInv, Type PROVE EditInv'
<1> USE Distinct DEF EditInv, Type, Idle, NoPrompt, NoReload
<1>a. Bytes'
  BY Types, SafeSaveAssumption DEF Bytes, Contents, Reloads
<1>f. Flags'
  BY Types DEF Flags
<1>l. Labels'
  BY Types DEF Labels
<1>1. TypeOK' /\ Shapes'
  BY <1>a, <1>f, <1>l, ReloadShapes DEF TypeOK, Shapes, Bytes, Flags, Labels
<1>2. WasThere' /\ DiskSafe' /\ Expects'
  BY DEF TypeOK, Shapes, JobType, WasThere, DiskSafe, Expects
<1>3. SavesBuffer' /\ CleanIsStored'
  BY DEF TypeOK, Shapes, JobType, WasThere, Expects, SavesBuffer, CleanIsStored
<1>4. Locks' /\ Armed'
  BY DEF TypeOK, Shapes, Locks, Armed, ArmedForCause
<1> QED BY <1>1, <1>2, <1>3, <1>4

LEMMA SetCharsetKeeps == ASSUME EditInv, SetCharset PROVE EditInv'
<1> USE Distinct DEF EditInv, SetCharset, Idle
<1>a. Bytes'
  BY Types, Distinct, ReloadShapes DEF Bytes, Reloads
<1>f. Flags'
  BY Types DEF NoPrompt, NoReload, Flags
<1>l. Labels'
  BY Types DEF NoPrompt, NoReload, Labels
<1>1. TypeOK' /\ Shapes'
  BY <1>a, <1>f, <1>l, ReloadShapes DEF TypeOK, Shapes, Bytes, Flags, Labels
<1>2. WasThere' /\ DiskSafe' /\ Expects'
  BY DEF NoPrompt, NoReload, TypeOK, Shapes, JobType, WasThere, DiskSafe, Expects
<1>3. SavesBuffer' /\ CleanIsStored'
  BY DEF NoPrompt, NoReload, TypeOK, Shapes, JobType, WasThere, Expects, SavesBuffer, CleanIsStored
<1>4. Locks' /\ Armed'
  BY DEF NoPrompt, NoReload, TypeOK, Shapes, Locks, Armed, ArmedForCause
<1> QED BY <1>1, <1>2, <1>3, <1>4

LEMMA ReopenFromDiskKeeps == ASSUME EditInv, ReopenFromDisk PROVE EditInv'
<1> USE Distinct DEF EditInv, ReopenFromDisk, Idle, NoPrompt, NoReload
<1>a. Bytes'
  BY Types DEF Bytes, JobType, Contents, Reloads
<1>f. Flags'
  BY Types DEF Flags
<1>l. Labels'
  BY Types DEF Labels
<1>1. TypeOK' /\ Shapes'
  BY <1>a, <1>f, <1>l, ReloadShapes DEF TypeOK, Shapes, Bytes, Flags, Labels
<1>2. WasThere' /\ DiskSafe' /\ Expects'
  BY DEF TypeOK, Shapes, JobType, WasThere, DiskSafe, Expects
<1>3. SavesBuffer' /\ CleanIsStored'
  BY DEF TypeOK, Shapes, JobType, WasThere, Expects, SavesBuffer, CleanIsStored
<1>4. Locks' /\ Armed'
  BY DEF TypeOK, Shapes, Locks, Armed, ArmedForCause
<1> QED BY <1>1, <1>2, <1>3, <1>4

LEMMA ReadFileKeeps == ASSUME EditInv, ReadFile PROVE EditInv'
<1> USE Distinct DEF EditInv, ReadFile, Idle, NoPrompt, NoReload
<1>a. Bytes'
  BY Types DEF Bytes, JobType, Contents, Reloads
<1>f. Flags'
  BY Types DEF Flags
<1>l. Labels'
  BY Types DEF Labels
<1>1. TypeOK' /\ Shapes'
  BY <1>a, <1>f, <1>l, ReloadShapes DEF TypeOK, Shapes, Bytes, Flags, Labels
<1>2. WasThere' /\ DiskSafe' /\ Expects'
  BY DEF TypeOK, Shapes, JobType, WasThere, DiskSafe, Expects
<1>3. SavesBuffer' /\ CleanIsStored'
  BY DEF TypeOK, Shapes, JobType, WasThere, Expects, SavesBuffer, CleanIsStored
<1>4. Locks' /\ Armed'
  BY DEF TypeOK, Shapes, Locks, Armed, ArmedForCause
<1> QED BY <1>1, <1>2, <1>3, <1>4

LEMMA FinishReloadKeeps == ASSUME EditInv, FinishReload PROVE EditInv'
<1> USE Distinct DEF EditInv, FinishReload, MayReplace, Readable, Idle, NoPrompt, NoReload
<1>a. Bytes'
  BY Types DEF Bytes, JobType, Contents, Reloads
<1>f. Flags'
  BY Types DEF Flags
<1>l. Labels'
  BY Types DEF Labels
<1>1. TypeOK' /\ Shapes'
  BY <1>a, <1>f, <1>l, ReloadShapes DEF TypeOK, Shapes, Bytes, Flags, Labels
<1>2. WasThere' /\ DiskSafe' /\ Expects'
  BY DEF TypeOK, Shapes, JobType, WasThere, DiskSafe, Expects
<1>3. SavesBuffer' /\ CleanIsStored'
  BY DEF TypeOK, Shapes, JobType, WasThere, Expects, SavesBuffer, CleanIsStored
<1>4. Locks' /\ Armed'
  BY DEF TypeOK, Shapes, Locks, Armed, ArmedForCause
<1> QED BY <1>1, <1>2, <1>3, <1>4

LEMMA SaveKeyKeeps == ASSUME EditInv, SaveKey PROVE EditInv'
<1> USE Distinct DEF EditInv, SaveKey, SavePressed, StartSave, StartWrite, Unsaved, Save, Idle, NoReload
<1>a. Bytes'
  BY Types DEF AskPassword, NoPrompt, Bytes, JobType, Contents, Reloads
<1>f. Flags'
  BY Types DEF AskPassword, NoPrompt, Flags
<1>l. Labels'
  BY Types, PromptShapes, UnlockShapes DEF Labels, Unlocks
<1>1. TypeOK' /\ Shapes'
  BY <1>a, <1>f, <1>l, ReloadShapes DEF TypeOK, Shapes, Bytes, Flags, Labels
<1>2. WasThere' /\ DiskSafe' /\ Expects'
  BY DEF AskPassword, NoPrompt, TypeOK, Shapes, JobType, WasThere, DiskSafe, Expects
<1>3. SavesBuffer' /\ CleanIsStored'
  BY DEF AskPassword, NoPrompt, TypeOK, Shapes, JobType, WasThere, Expects, SavesBuffer, CleanIsStored
<1>4. Locks' /\ Armed'
  BY DEF AskPassword, NoPrompt, TypeOK, Shapes, Locks, Armed, ArmedForCause
<1> QED BY <1>1, <1>2, <1>3, <1>4

LEMMA SaveAndCloseKeeps == ASSUME EditInv, SaveAndClose PROVE EditInv'
<1> USE Distinct DEF EditInv, SaveAndClose, SavePressed, StartSave, StartWrite, Unsaved, Save, Idle, NoReload
<1>a. Bytes'
  BY Types DEF AskPassword, NoPrompt, Bytes, JobType, Contents, Reloads
<1>f. Flags'
  BY Types DEF AskPassword, NoPrompt, Flags
<1>l. Labels'
  BY Types, PromptShapes, UnlockShapes DEF Labels, Unlocks
<1>1. TypeOK' /\ Shapes'
  BY <1>a, <1>f, <1>l, ReloadShapes DEF TypeOK, Shapes, Bytes, Flags, Labels
<1>2. WasThere' /\ DiskSafe' /\ Expects'
  BY DEF AskPassword, NoPrompt, TypeOK, Shapes, JobType, WasThere, DiskSafe, Expects
<1>3. SavesBuffer' /\ CleanIsStored'
  BY DEF AskPassword, NoPrompt, TypeOK, Shapes, JobType, WasThere, Expects, SavesBuffer, CleanIsStored
<1>4. Locks' /\ Armed'
  BY DEF AskPassword, NoPrompt, TypeOK, Shapes, Locks, Armed, ArmedForCause
<1> QED BY <1>1, <1>2, <1>3, <1>4

LEMMA SaveInPlaceKeeps == ASSUME EditInv, SaveInPlace PROVE EditInv'
<1> USE Distinct DEF EditInv, SaveInPlace, StartWrite, Unsaved, Save, Idle, NoPrompt, NoReload
<1>a. Bytes'
  BY Types DEF Bytes, JobType, Contents, Reloads
<1>f. Flags'
  BY Types DEF Flags
<1>l. Labels'
  BY Types DEF Labels
<1>1. TypeOK' /\ Shapes'
  BY <1>a, <1>f, <1>l, ReloadShapes DEF TypeOK, Shapes, Bytes, Flags, Labels
<1>2. WasThere' /\ DiskSafe' /\ Expects'
  BY DEF TypeOK, Shapes, JobType, WasThere, DiskSafe, Expects
<1>3. SavesBuffer' /\ CleanIsStored'
  BY DEF TypeOK, Shapes, JobType, WasThere, Expects, SavesBuffer, CleanIsStored
<1>4. Locks' /\ Armed'
  BY DEF TypeOK, Shapes, Locks, Armed, ArmedForCause
<1> QED BY <1>1, <1>2, <1>3, <1>4

LEMMA OverwriteDiskKeeps == ASSUME EditInv, OverwriteDisk PROVE EditInv'
<1> USE Distinct DEF EditInv, OverwriteDisk, StartWrite, Unsaved, Save, Idle, NoPrompt, NoReload
<1>a. Bytes'
  BY Types DEF Bytes, JobType, Contents, Reloads
<1>f. Flags'
  BY Types DEF Flags
<1>l. Labels'
  BY Types DEF Labels
<1>1. TypeOK' /\ Shapes'
  BY <1>a, <1>f, <1>l, ReloadShapes DEF TypeOK, Shapes, Bytes, Flags, Labels
<1>2. WasThere' /\ DiskSafe' /\ Expects'
  BY DEF TypeOK, Shapes, JobType, WasThere, DiskSafe, Expects
<1>3. SavesBuffer' /\ CleanIsStored'
  BY DEF TypeOK, Shapes, JobType, WasThere, Expects, SavesBuffer, CleanIsStored
<1>4. Locks' /\ Armed'
  BY DEF TypeOK, Shapes, Locks, Armed, ArmedForCause
<1> QED BY <1>1, <1>2, <1>3, <1>4

LEMMA TurnConflictKeeps == ASSUME EditInv, TurnConflict PROVE EditInv'
<1> USE Distinct DEF EditInv, TurnConflict, Unsaved, Idle, NoPrompt, NoReload
<1>a. Bytes'
  BY Types DEF Bytes, JobType, Contents, Reloads
<1>f. Flags'
  BY Types DEF Flags
<1>l. Labels'
  BY Types DEF Labels
<1>1. TypeOK' /\ Shapes'
  BY <1>a, <1>f, <1>l, ReloadShapes DEF TypeOK, Shapes, Bytes, Flags, Labels
<1>2. WasThere' /\ DiskSafe' /\ Expects'
  BY DEF TypeOK, Shapes, JobType, WasThere, DiskSafe, Expects
<1>3. SavesBuffer' /\ CleanIsStored'
  BY DEF TypeOK, Shapes, JobType, WasThere, Expects, SavesBuffer, CleanIsStored
<1>4. Locks' /\ Armed'
  BY DEF TypeOK, Shapes, Locks, Armed, ArmedForCause
<1> QED BY <1>1, <1>2, <1>3, <1>4

LEMMA FinishSaveKeeps == ASSUME EditInv, FinishSave PROVE EditInv'
<1> USE Distinct DEF EditInv, FinishSave, Reported, Succeed, Fail, Covers, Disarmed, Drop, Elevated, Idle, NoPrompt, NoReload
<1>a. Bytes'
  <2>1. /\ original' \in {original, job.bytes, 0} /\ reload' \in {reload, NoReload}
        /\ job' = Idle /\ UNCHANGED <<source, limit, file, backup, text, fresh, late, noted, stored>>
    BY DEF FinishSave, Succeed, Fail, Drop, disk
  <2>2. job.bytes \in Known /\ Idle \in JobType
    BY Types DEF Bytes, JobType, Idle
  <2> QED BY <2>1, <2>2, Types, ReloadShapes DEF Bytes, Reloads
<1>f. Flags'
  BY Types DEF Flags
<1>l. Labels'
  BY Types DEF Labels
<1>1. TypeOK' /\ Shapes'
  BY <1>a, <1>f, <1>l, ReloadShapes DEF TypeOK, Shapes, Bytes, Flags, Labels
<1>2. WasThere' /\ DiskSafe' /\ Expects'
  BY DEF TypeOK, Shapes, JobType, WasThere, DiskSafe, Expects
<1>3. SavesBuffer' /\ CleanIsStored'
  BY DEF TypeOK, Shapes, JobType, WasThere, Expects, SavesBuffer, CleanIsStored
<1>4. Locks' /\ Armed'
  BY DEF TypeOK, Shapes, Locks, Armed, ArmedForCause
<1> QED BY <1>1, <1>2, <1>3, <1>4

LEMMA CloseKeeps == ASSUME EditInv, Close PROVE EditInv'
<1> USE Distinct DEF EditInv, Close, Drop, Idle
<1>a. Bytes'
  BY Types, Distinct, ReloadShapes DEF Bytes, Reloads
<1>f. Flags'
  BY Types DEF NoPrompt, NoReload, Flags
<1>l. Labels'
  BY Types DEF NoPrompt, NoReload, Labels
<1>1. TypeOK' /\ Shapes'
  BY <1>a, <1>f, <1>l, ReloadShapes DEF TypeOK, Shapes, Bytes, Flags, Labels
<1>2. WasThere' /\ DiskSafe' /\ Expects'
  BY DEF NoPrompt, NoReload, TypeOK, Shapes, JobType, WasThere, DiskSafe, Expects
<1>3. SavesBuffer' /\ CleanIsStored'
  BY DEF NoPrompt, NoReload, TypeOK, Shapes, JobType, WasThere, Expects, SavesBuffer, CleanIsStored
<1>4. Locks' /\ Armed'
  BY DEF NoPrompt, NoReload, TypeOK, Shapes, Locks, Armed, ArmedForCause
<1> QED BY <1>1, <1>2, <1>3, <1>4

LEMMA AnswerCloseKeeps == ASSUME EditInv, AnswerClose PROVE EditInv'
<1> USE Distinct DEF EditInv, AnswerClose, Drop, Idle
<1>a. Bytes'
  BY Types, Distinct, ReloadShapes DEF Bytes, Reloads
<1>f. Flags'
  BY Types DEF NoPrompt, NoReload, Flags
<1>l. Labels'
  BY Types DEF NoPrompt, NoReload, Labels
<1>1. TypeOK' /\ Shapes'
  BY <1>a, <1>f, <1>l, ReloadShapes DEF TypeOK, Shapes, Bytes, Flags, Labels
<1>2. WasThere' /\ DiskSafe' /\ Expects'
  BY DEF NoPrompt, NoReload, TypeOK, Shapes, JobType, WasThere, DiskSafe, Expects
<1>3. SavesBuffer' /\ CleanIsStored'
  BY DEF NoPrompt, NoReload, TypeOK, Shapes, JobType, WasThere, Expects, SavesBuffer, CleanIsStored
<1>4. Locks' /\ Armed'
  BY DEF NoPrompt, NoReload, TypeOK, Shapes, Locks, Armed, ArmedForCause
<1> QED BY <1>1, <1>2, <1>3, <1>4

LEMMA EditAsRootKeeps == ASSUME EditInv, EditAsRoot PROVE EditInv'
<1> USE Distinct DEF EditInv, EditAsRoot, Idle, NoReload
<1>a. Bytes'
  BY Types DEF AskPassword, Unlock, NoPrompt, Bytes, JobType, Contents, Reloads
<1>f. Flags'
  BY Types DEF AskPassword, Unlock, NoPrompt, Flags
<1>l. Labels'
  BY Types, PromptShapes, UnlockShapes DEF Labels, Unlocks
<1>1. TypeOK' /\ Shapes'
  BY <1>a, <1>f, <1>l, ReloadShapes DEF TypeOK, Shapes, Bytes, Flags, Labels
<1>2. WasThere' /\ DiskSafe' /\ Expects'
  BY DEF AskPassword, Unlock, NoPrompt, TypeOK, Shapes, JobType, WasThere, DiskSafe, Expects
<1>3. SavesBuffer' /\ CleanIsStored'
  BY DEF AskPassword, Unlock, NoPrompt, TypeOK, Shapes, JobType, WasThere, Expects, SavesBuffer, CleanIsStored
<1>4. Locks' /\ Armed'
  BY PromptShapes, UnlockShapes DEF TypeOK, Shapes, Locks, SudoPrompts, Unlocks, Armed, ArmedForCause
<1> QED BY <1>1, <1>2, <1>3, <1>4

LEMMA SubmitPasswordKeeps == ASSUME EditInv, SubmitPassword PROVE EditInv'
<1> USE Distinct DEF EditInv, None
<1>0. prompt \in SudoPrompts /\ unlocks \subseteq Unlocks /\ prompt # NoPrompt
  BY Types DEF Labels, SubmitPassword
<1>1. /\ ~prompt.busy
      /\ \/ /\ prompt.purpose = "Save" /\ prompt' = NoPrompt /\ UNCHANGED unlocks
            /\ IF saving \/ readOnly THEN UNCHANGED <<job, moved, message, conflict>>
               ELSE StartSave
         \/ /\ \E b \in BOOLEAN : b = TRUE /\ SetBusy(b)
            /\ \E m \in {"Remembered", "EveryTime"} :
                  unlocks' = unlocks \cup {Unlock(prompt.purpose, m)}
            /\ UNCHANGED <<job, moved, message, conflict>>
      /\ Unsaved /\ UNCHANGED <<open, closeAfter, reload, question>>
  BY Zenon DEF SubmitPassword
<1> HIDE DEF EditInv
<1>2. /\ prompt' \in SudoPrompts /\ unlocks' \subseteq Unlocks
      /\ \/ /\ prompt.purpose = "Save" /\ prompt' = NoPrompt /\ unlocks' = unlocks
            /\ IF saving \/ readOnly THEN UNCHANGED <<job, moved, message, conflict>>
               ELSE StartSave
         \/ /\ prompt'.purpose = prompt.purpose /\ prompt'.busy = TRUE
            /\ \E m \in {"Remembered", "EveryTime"} :
                  unlocks' = unlocks \cup {Unlock(prompt.purpose, m)}
            /\ UNCHANGED <<job, moved, message, conflict>>
  BY <1>0, <1>1, PromptShapes, UnlockShapes
<1>3. \/ UNCHANGED <<job, moved, message, conflict>>
      \/ ~saving /\ ~readOnly /\ StartSave
  BY <1>2
<1>a. Bytes'
  BY <1>1, <1>3, Types DEF EditInv, StartSave, StartWrite, Unsaved, Save, disk, Bytes, JobType
<1>f. Flags'
  BY <1>1, <1>3, Types DEF EditInv, StartSave, StartWrite, Unsaved, Save, disk, Flags
<1>l. Labels'
  BY <1>1, <1>2, <1>3, Types DEF EditInv, StartSave, StartWrite, Unsaved, Labels
<1>4. TypeOK' /\ Shapes'
  BY <1>a, <1>f, <1>l, ReloadShapes DEF TypeOK, Shapes, Bytes, Flags, Labels
<1>5. WasThere' /\ DiskSafe' /\ Expects'
  BY <1>1, <1>3
  DEF EditInv, StartSave, StartWrite, Unsaved, Save, disk, WasThere, DiskSafe, Expects
<1>6. SavesBuffer' /\ CleanIsStored'
  BY <1>1, <1>3
  DEF EditInv, StartSave, StartWrite, Unsaved, Save, disk, saving, SavesBuffer, CleanIsStored
<1>7. Locks'
  BY <1>0, <1>1, <1>2, PromptShapes, UnlockShapes DEF EditInv, Locks, Unsaved
<1>8. Armed'
  BY <1>1, <1>2, PromptShapes
  DEF EditInv, Armed, ArmedForCause, StartSave, StartWrite, Save, saving, Idle, Locks
<1> QED BY <1>4, <1>5, <1>6, <1>7, <1>8 DEF EditInv

LEMMA CancelPasswordKeeps == ASSUME EditInv, CancelPassword PROVE EditInv'
<1> USE Distinct DEF EditInv, CancelPassword, Disarmed, Idle, NoReload
<1>a. Bytes'
  BY Types DEF Cancelled, NoPrompt, Bytes, JobType, Contents, Reloads
<1>f. Flags'
  BY Types DEF Cancelled, NoPrompt, Flags
<1>l. Labels'
  BY Types, PromptShapes, UnlockShapes DEF Labels, Unlocks
<1>1. TypeOK' /\ Shapes'
  BY <1>a, <1>f, <1>l, ReloadShapes DEF TypeOK, Shapes, Bytes, Flags, Labels
<1>2. WasThere' /\ DiskSafe' /\ Expects'
  BY DEF Cancelled, NoPrompt, TypeOK, Shapes, JobType, WasThere, DiskSafe, Expects
<1>3. SavesBuffer' /\ CleanIsStored'
  BY DEF Cancelled, NoPrompt, TypeOK, Shapes, JobType, WasThere, Expects, SavesBuffer, CleanIsStored
<1>4. Locks'
  <2>1. unlocks \subseteq Unlocks /\ NoPrompt.purpose = None /\ prompt' = NoPrompt
    BY Types, PromptShapes DEF Labels, CancelPassword
  <2>2. UNCHANGED <<dirty, readOnly, access>> /\ (question' => question)
        /\ unlocks' \in {unlocks, Cancelled(unlocks)}
    BY DEF CancelPassword, saveVars, disk
  <2> QED BY <2>1, <2>2, UnlockShapes DEF Locks
<1>5. Armed'
  BY PromptShapes DEF CancelPassword, Disarmed, saveVars, saving, Armed, ArmedForCause, Locks
<1> QED BY <1>1, <1>2, <1>3, <1>4, <1>5

LEMMA UnlockedKeeps == ASSUME EditInv, Unlocked PROVE EditInv'
<1> USE Distinct DEF EditInv, Unlocked, StartSave, StartWrite, Save, Idle
<1>a. Bytes'
  BY Types DEF NoPrompt, NoReload, Bytes, JobType, Contents, Reloads
<1>f. Flags'
  BY Types DEF NoPrompt, NoReload, Flags
<1>l. Labels'
  BY Types, PromptShapes, UnlockShapes DEF Labels
<1>1. TypeOK' /\ Shapes'
  BY <1>a, <1>f, <1>l, ReloadShapes DEF TypeOK, Shapes, Bytes, Flags, Labels
<1>2. WasThere' /\ DiskSafe' /\ Expects'
  BY DEF NoPrompt, NoReload, TypeOK, Shapes, JobType, WasThere, DiskSafe, Expects
<1>3. SavesBuffer' /\ CleanIsStored'
  BY DEF NoPrompt, NoReload, TypeOK, Shapes, JobType, WasThere, Expects, SavesBuffer, CleanIsStored
<1>4. Locks' /\ Armed'
  BY DEF NoPrompt, NoReload, TypeOK, Shapes, Locks, Armed, ArmedForCause
<1> QED BY <1>1, <1>2, <1>3, <1>4

LEMMA NotUnlockedKeeps == ASSUME EditInv, NotUnlocked PROVE EditInv'
<1> USE Distinct DEF EditInv
<1>a. Bytes'
  BY Types DEF NotUnlocked, Idle, NoPrompt, NoReload, Bytes, JobType, Contents, Reloads
<1>f. Flags'
  BY Types DEF NotUnlocked, Idle, NoPrompt, NoReload, Flags
<1>p. /\ prompt' \in SudoPrompts /\ prompt'.purpose = prompt.purpose
      /\ prompt' # prompt => \E u \in unlocks : u.purpose # "Free" /\ unlocks' = unlocks \ {u}
  <2>1. prompt \in SudoPrompts
    BY Types DEF Labels
  <2>2. \/ UNCHANGED prompt
        \/ \E b \in BOOLEAN : SetBusy(b)
    BY Zenon DEF NotUnlocked
  <2>3. prompt' # prompt => \E u \in unlocks : u.purpose # "Free" /\ unlocks' = unlocks \ {u}
    BY DEF NotUnlocked
  <2> QED BY <2>1, <2>2, <2>3, PromptShapes
<1>u. /\ \E u \in unlocks : unlocks' = unlocks \ {u}
      /\ message' \in {message, None, "conflict"}
      /\ UNCHANGED <<source, limit, access, open, rootMode, conflict>>
  BY DEF NotUnlocked, Explain, saveVars, disk
<1>l. Labels'
  BY <1>p, <1>u, Types DEF Labels
<1>1. TypeOK' /\ Shapes'
  BY <1>a, <1>f, <1>l, ReloadShapes DEF TypeOK, Shapes, Bytes, Flags, Labels
<1>2. WasThere' /\ DiskSafe' /\ Expects'
  BY DEF NotUnlocked, Idle, NoPrompt, NoReload, TypeOK, Shapes, JobType, WasThere, DiskSafe, Expects
<1>3. SavesBuffer' /\ CleanIsStored'
  BY DEF NotUnlocked, Idle, NoPrompt, NoReload, TypeOK, Shapes, JobType, WasThere, Expects, SavesBuffer, CleanIsStored
<1>4. Locks' /\ Armed'
  <2>1. UNCHANGED <<dirty, readOnly, access, question, job, closeAfter, open>>
    BY DEF NotUnlocked, saveVars
  <2>2. Locks'
    BY <1>p, <1>u, <2>1 DEF Locks
  <2> QED BY <1>p, <2>1, <2>2 DEF Armed, ArmedForCause, saving
<1> QED BY <1>1, <1>2, <1>3, <1>4

LEMMA CloseOverlaysKeeps == ASSUME EditInv, CloseOverlays PROVE EditInv'
<1> USE Distinct DEF EditInv, CloseOverlays, Disarmed, Idle, NoReload
<1>a. Bytes'
  BY Types DEF Cancelled, NoPrompt, Bytes, JobType, Contents, Reloads
<1>f. Flags'
  BY Types DEF Cancelled, NoPrompt, Flags
<1>l. Labels'
  BY Types, PromptShapes, UnlockShapes DEF Labels, Unlocks
<1>1. TypeOK' /\ Shapes'
  BY <1>a, <1>f, <1>l, ReloadShapes DEF TypeOK, Shapes, Bytes, Flags, Labels
<1>2. WasThere' /\ DiskSafe' /\ Expects'
  BY DEF Cancelled, NoPrompt, TypeOK, Shapes, JobType, WasThere, DiskSafe, Expects
<1>3. SavesBuffer' /\ CleanIsStored'
  BY DEF Cancelled, NoPrompt, TypeOK, Shapes, JobType, WasThere, Expects, SavesBuffer, CleanIsStored
<1>4. Locks'
  <2>1. unlocks \subseteq Unlocks /\ NoPrompt.purpose = None /\ prompt' = NoPrompt
    BY Types, PromptShapes DEF Labels, CloseOverlays
  <2>2. UNCHANGED <<dirty, readOnly, access>> /\ (question' => question)
        /\ unlocks' \in {unlocks, Cancelled(unlocks)}
    BY DEF CloseOverlays, saveVars, disk
  <2> QED BY <2>1, <2>2, UnlockShapes DEF Locks
<1>5. Armed'
  BY PromptShapes DEF CloseOverlays, Disarmed, saveVars, saving, Armed, ArmedForCause, Locks
<1> QED BY <1>1, <1>2, <1>3, <1>4, <1>5

LEMMA StutterKeeps == ASSUME EditInv, UNCHANGED vars PROVE EditInv'
<1> USE Distinct DEF EditInv, vars, Idle, NoPrompt, NoReload
<1>a. Bytes'
  BY Types DEF Bytes, JobType, Contents, Reloads
<1>f. Flags'
  BY Types DEF Flags
<1>l. Labels'
  BY Types DEF Labels
<1>1. TypeOK' /\ Shapes'
  BY <1>a, <1>f, <1>l, ReloadShapes DEF TypeOK, Shapes, Bytes, Flags, Labels
<1>2. WasThere' /\ DiskSafe' /\ Expects'
  BY DEF TypeOK, Shapes, JobType, WasThere, DiskSafe, Expects
<1>3. SavesBuffer' /\ CleanIsStored'
  BY DEF TypeOK, Shapes, JobType, WasThere, Expects, SavesBuffer, CleanIsStored
<1>4. Locks' /\ Armed'
  BY DEF TypeOK, Shapes, Locks, Armed, ArmedForCause
<1> QED BY <1>1, <1>2, <1>3, <1>4

-----------------------------------------------------------------------------
(* The source, by itself and beside the pane.                              *)

\* A step of the source that leaves the pane alone keeps the invariant when its
\* disk does: contents that were noted and stored stay so.
LEMMA DiskMoves ==
    ASSUME EditInv, UNCHANGED <<source, access, pane, dialogs>>, limit' = limit,
           fresh' \in Contents, job' \in JobType, late' \in JobType,
           noted' \cup stored' \subseteq Known,
           noted \subseteq noted', stored \subseteq stored',
           {file', backup'} \subseteq stored' \cup {Missing}, DiskSafe',
           job'.expected \in noted', late'.expected \in noted',
           job'.step = "landed" /\ job'.result = "ok" => job'.bytes \in noted' \cap stored',
           saving => saving', saving' => saving /\ job'.bytes = job.bytes
    PROVE  EditInv'
<1> USE DEF EditInv
<1>0. UNCHANGED <<open, text, dirty, original, moved, readOnly, rootMode, closeAfter, reload,
                  discarding, message, conflict, question, prompt, unlocks>>
  BY DEF pane, held, dialogs
<1>1. TypeOK' /\ Shapes'
  <2>1. Bytes'
    BY <1>0, Types, Distinct DEF Bytes
  <2>2. Flags' /\ Labels'
    BY <1>0, Types DEF Flags, Labels
  <2> QED BY <2>1, <2>2, ReloadShapes DEF TypeOK, Shapes, Bytes, Flags, Labels
<1>2. WasThere' /\ Expects'
  BY <1>0 DEF WasThere, Expects
<1>3. SavesBuffer' /\ CleanIsStored'
  BY <1>0 DEF SavesBuffer, CleanIsStored
<1>4. Locks' /\ Armed'
  BY <1>0 DEF Locks, Armed, ArmedForCause
<1> QED BY <1>1, <1>2, <1>3, <1>4

LEMMA RunJobKeeps ==
    ASSUME EditInv, RunJob, UNCHANGED <<access, pane, dialogs>> PROVE EditInv'
<1>1. /\ TypeOK /\ WasThere /\ DiskSafe /\ limit \in Nat /\ job \in JobType /\ late \in JobType
      /\ job.expected \in noted /\ late.expected \in noted /\ 0 \in noted /\ fresh \in Contents
  BY SafeSaveAssumption DEF EditInv, TypeOK, Shapes, Expects
<1>2. RunSave(job, job') /\ UNCHANGED <<source, fresh, late>>
  BY DEF RunJob
<1>3. /\ job' \in JobType /\ job'.step # None /\ job'.bytes = job.bytes
      /\ noted \subseteq noted' /\ stored \subseteq stored'
      /\ noted' \cup stored' \subseteq Known
      /\ {file', backup'} \subseteq stored' \cup {Missing}
      /\ DiskSafe' /\ limit' = limit
      /\ job'.expected \in noted'
      /\ job'.step = "landed" /\ job'.result = "ok" => job'.bytes \in noted' \cap stored'
  BY <1>1, <1>2, SaveStep
<1>4. job.step # None
  BY <1>2 DEF RunSave, ReadNow, CompareAndStage, Commit, CommitHalf, Restore, WriteInPlace, None
<1>5. saving /\ saving'
  BY <1>3, <1>4 DEF saving, Idle
<1> QED BY <1>1, <1>2, <1>3, <1>5, DiskMoves

LEMMA LoseKeeps ==
    ASSUME EditInv, Lose, UNCHANGED <<access, pane, dialogs>> PROVE EditInv'
<1>1. /\ TypeOK /\ WasThere /\ DiskSafe /\ job \in JobType /\ fresh \in Contents
      /\ job.expected \in noted /\ 0 \in noted /\ noted \cup stored \subseteq Known
  BY DEF EditInv, TypeOK, Expects
<1>2. /\ UNCHANGED <<source, disk, fresh>> /\ job.step \in {"compare", "commit"}
      /\ job' = Landed(job, "failed") /\ late' \in {job, Idle}
  BY DEF Lose
<1>3. /\ job' \in JobType /\ job'.step = "landed" /\ job'.result = "failed"
      /\ job'.expected = 0 /\ job'.bytes = job.bytes
  BY <1>1, <1>2, LandedShape
<1>4. Idle \in JobType /\ Idle.expected = 0
  BY Distinct DEF Idle, JobType, None
<1>5. saving /\ saving'
  BY <1>2, <1>3 DEF saving, Idle, None
<1> QED BY <1>1, <1>2, <1>3, <1>4, <1>5, DiskMoves DEF WasThere, DiskSafe, disk

LEMMA RunLateKeeps ==
    ASSUME EditInv, RunLate, UNCHANGED <<access, pane, dialogs>> PROVE EditInv'
<1>1. /\ TypeOK /\ WasThere /\ DiskSafe /\ limit \in Nat /\ job \in JobType /\ late \in JobType
      /\ job.expected \in noted /\ late.expected \in noted /\ 0 \in noted /\ fresh \in Contents
      /\ noted \cup stored \subseteq Known
      /\ job.step = "landed" /\ job.result = "ok" => job.bytes \in noted \cap stored
  BY SafeSaveAssumption DEF EditInv, TypeOK, Shapes, Expects
<1>2. UNCHANGED <<source, fresh, job>>
  BY DEF RunLate
<1>3. Idle \in JobType /\ Idle.expected = 0
  BY Distinct DEF Idle, JobType, None
<1>4. CASE late' = Idle /\ UNCHANGED disk
  BY <1>1, <1>2, <1>3, <1>4, DiskMoves DEF WasThere, DiskSafe, disk, saving
<1>5. ASSUME NEW k, RunSave(late, k), late' = IF Running(k) THEN k ELSE Idle
      PROVE  EditInv'
  <2>1. /\ k \in JobType /\ noted \subseteq noted' /\ stored \subseteq stored'
        /\ noted' \cup stored' \subseteq Known
        /\ {file', backup'} \subseteq stored' \cup {Missing}
        /\ DiskSafe' /\ limit' = limit /\ k.expected \in noted'
    BY <1>1, <1>5, SaveStep
  <2>2. late' \in JobType /\ late'.expected \in noted'
    BY <1>1, <1>3, <1>5, <2>1
  <2> QED BY <1>1, <1>2, <2>1, <2>2, DiskMoves DEF saving
<1> QED BY <1>4, <1>5 DEF RunLate

LEMMA OutsideKeeps ==
    ASSUME EditInv, Outside, UNCHANGED <<access, pane, dialogs>> PROVE EditInv'
<1>1. /\ TypeOK /\ Shapes /\ WasThere /\ DiskSafe /\ Expects
  BY DEF EditInv
<1>2. PICK c \in stored \cup {fresh + 1} :
         /\ c <= limit /\ file' = c /\ stored' = stored \cup {c}
         /\ fresh' = IF c > fresh THEN c ELSE fresh
         /\ UNCHANGED <<source, limit, backup, job, late, noted, blind>>
  BY DEF Outside
<1>3. c \in Known /\ fresh' \in Contents
  <2>1. fresh \in 0 .. MaxContents /\ limit \in 1 .. MaxContents /\ stored \subseteq Known
    BY <1>1 DEF TypeOK, Shapes, Contents
  <2>2. Known = 0 .. MaxContents \cup {MaxContents + 2}
    BY DEF Known, Contents, Torn
  <2> QED BY <1>2, <2>1, <2>2, SafeSaveAssumption DEF Contents
<1>4. c # Missing
  BY <1>3, Distinct
<1> QED BY <1>1, <1>2, <1>3, <1>4, DiskMoves
        DEF TypeOK, WasThere, DiskSafe, Expects, saving
-----------------------------------------------------------------------------
(* The theorems.                                                           *)

LEMMA InitKeeps == Init => EditInv
<1> SUFFICES ASSUME Init PROVE EditInv
  OBVIOUS
<1> USE Distinct DEF Init, SaveInit, None
<1>1. TypeOK /\ Shapes
  <2>1. Bytes
    BY ReloadShapes DEF Bytes, JobType, Idle
  <2>2. Flags
    BY DEF Flags
  <2>3. Labels
    BY EditorPaneAssumption, PromptShapes DEF Labels
  <2> QED BY <2>1, <2>2, <2>3, Types
<1>2. WasThere /\ DiskSafe /\ Expects /\ SavesBuffer /\ CleanIsStored
  BY ReloadShapes DEF WasThere, DiskSafe, Expects, SavesBuffer, CleanIsStored, saving, Idle
<1>3. Locks /\ Armed
  BY PromptShapes DEF Locks, Armed, ArmedForCause
<1> QED BY <1>1, <1>2, <1>3 DEF EditInv

LEMMA StepKeeps == EditInv /\ [Next]_vars => EditInv'
<1> SUFFICES ASSUME EditInv, [Next]_vars PROVE EditInv'
  OBVIOUS
<1>1. CASE Type BY <1>1, TypeKeeps
<1>2. CASE SetCharset BY <1>2, SetCharsetKeeps
<1>3. CASE ReopenFromDisk BY <1>3, ReopenFromDiskKeeps
<1>4. CASE ReadFile BY <1>4, ReadFileKeeps
<1>5. CASE FinishReload BY <1>5, FinishReloadKeeps
<1>6. CASE SaveKey BY <1>6, SaveKeyKeeps
<1>7. CASE SaveAndClose BY <1>7, SaveAndCloseKeeps
<1>8. CASE SaveInPlace BY <1>8, SaveInPlaceKeeps
<1>9. CASE OverwriteDisk BY <1>9, OverwriteDiskKeeps
<1>10. CASE TurnConflict BY <1>10, TurnConflictKeeps
<1>11. CASE FinishSave BY <1>11, FinishSaveKeeps
<1>12. CASE Close BY <1>12, CloseKeeps
<1>13. CASE AnswerClose BY <1>13, AnswerCloseKeeps
<1>14. CASE EditAsRoot BY <1>14, EditAsRootKeeps
<1>15. CASE SubmitPassword BY <1>15, SubmitPasswordKeeps
<1>16. CASE CancelPassword BY <1>16, CancelPasswordKeeps
<1>17. CASE Unlocked BY <1>17, UnlockedKeeps
<1>18. CASE NotUnlocked BY <1>18, NotUnlockedKeeps
<1>19. CASE CloseOverlays BY <1>19, CloseOverlaysKeeps
<1>20. CASE Source
  BY <1>20, RunJobKeeps, LoseKeeps, RunLateKeeps, OutsideKeeps DEF Source
<1>21. CASE UNCHANGED vars BY <1>21, StutterKeeps
<1> QED
  BY <1>1, <1>2, <1>3, <1>4, <1>5, <1>6, <1>7, <1>8, <1>9, <1>10, <1>11, <1>12, <1>13,
     <1>14, <1>15, <1>16, <1>17, <1>18, <1>19, <1>20, <1>21 DEF Next

\* What the pane, its save, a script left behind and the disk know of each other holds
\* throughout: what is read was there, a save expects only what the editor knows, and
\* whatever is modified or asked about is not locked.
THEOREM EditInvariant == Spec => []EditInv
  BY InitKeeps, StepKeeps, PTL DEF Spec

\* The pane is well formed, no save replaces contents the editor has not read or written
\* itself, and a file without a name is at its backup's: safe_replace, replace and
\* safe_save_script compare again right before they rename.
THEOREM PaneIsSound == Spec => []PaneSound
<1>1. EditInv => PaneSound
  BY DEF EditInv, PaneSound
<1> QED BY EditInvariant, <1>1, PTL

\* Whatever a pane shows as saved, or was closed with, the file has held: neither typing
\* during a save nor a reload nor an unlock is taken for saved (finish_save, finish_reload).
THEOREM CleanWasStored == Spec => []CleanIsStored
<1>1. EditInv => CleanIsStored
  BY DEF EditInv
<1> QED BY EditInvariant, <1>1, PTL

\* A pane that will close by itself waits for a save or for the password of one
\* (close_after_save, abandon_root_save).
THEOREM ArmedPaneWaits == Spec => []ArmedForCause
<1>1. EditInv => ArmedForCause
  BY DEF EditInv, Armed
<1> QED BY EditInvariant, <1>1, PTL

LEMMA SetInduction ==
    ASSUME NEW T, 0 \in T, \A n \in Nat : n \in T => n + 1 \in T
    PROVE  Nat \subseteq T
<1> SUFFICES ASSUME NEW n \in Nat \ T PROVE FALSE
  OBVIOUS
<1>1. PICK m \in Nat \ T : \A k \in Nat \ T : m <= k
  BY LeastNatural
<1>2. m # 0 /\ m - 1 \in Nat
  BY <1>1
<1>3. m - 1 \in T
  BY <1>1, <1>2
<1> QED BY <1>1, <1>2, <1>3

-----------------------------------------------------------------------------
(* Paths.                                                                  *)

PlainPath == {p \in Path : \A n \in 1 .. Len(p) : IsPlainName(p[n])}
Up(p, n) == SubSeq(p, 1, n)

LEMMA UpTo ==
    ASSUME NEW p \in Path, NEW n \in 0 .. Len(p)
    PROVE  /\ Up(p, n) \in Path /\ Len(Up(p, n)) = n
           /\ \A k \in 1 .. n : Up(p, n)[k] = p[k]
           /\ Up(p, 0) = << >> /\ Up(p, Len(p)) = p
           /\ \A k \in 0 .. n : Up(Up(p, n), k) = Up(p, k)
<1>0. Len(p) \in Nat /\ \A k \in 1 .. Len(p) : p[k] \in Name
  BY LenProperties DEF Path
<1>1. \A k \in 1 .. n : p[k] \in Name
  BY <1>0
<1>2. /\ Up(p, n) \in Path /\ Len(Up(p, n)) = n
      /\ \A k \in 1 .. n : Up(p, n)[k] = p[k]
  <2>1. /\ Up(p, n) \in Seq(Name) /\ Len(Up(p, n)) = IF 1 <= n THEN n - 1 + 1 ELSE 0
        /\ \A i \in 1 .. (n - 1 + 1) : Up(p, n)[i] = p[1 + i - 1]
    BY <1>0, <1>1, SubSeqProperties DEF Up, Path
  <2> QED BY <1>0, <2>1 DEF Path
<1>3. Up(p, 0) = << >>
  BY <1>0, SubSeqEmpty DEF Up, Path
<1>4. Up(p, Len(p)) = p
  BY <1>0, SubSeqFull DEF Up, Path
<1>5. ASSUME NEW k \in 0 .. n PROVE Up(Up(p, n), k) = Up(p, k)
  <2>1. /\ Up(p, k) \in Seq(Name) /\ Len(Up(p, k)) = k
        /\ \A i \in 1 .. k : Up(p, k)[i] = p[i]
    <3>1. \A j \in 1 .. k : p[j] \in Name
      BY <1>0
    <3>2. /\ Up(p, k) \in Seq(Name) /\ Len(Up(p, k)) = IF 1 <= k THEN k - 1 + 1 ELSE 0
          /\ \A i \in 1 .. (k - 1 + 1) : Up(p, k)[i] = p[1 + i - 1]
      BY <1>0, <3>1, SubSeqProperties DEF Up, Path
    <3> QED BY <1>0, <3>2
  <2>2. /\ Up(Up(p, n), k) \in Seq(Name) /\ Len(Up(Up(p, n), k)) = k
        /\ \A i \in 1 .. k : Up(Up(p, n), k)[i] = Up(p, n)[i]
    <3> DEFINE q == Up(p, n)
    <3>0. q \in Path /\ Len(q) = n /\ n \in Nat
      BY <1>2, <1>0
    <3> HIDE DEF q
    <3>1. \A j \in 1 .. k : q[j] \in Name
      BY <3>0, LenProperties DEF Path
    <3>2. /\ Up(q, k) \in Seq(Name) /\ Len(Up(q, k)) = IF 1 <= k THEN k - 1 + 1 ELSE 0
          /\ \A i \in 1 .. (k - 1 + 1) : Up(q, k)[i] = q[1 + i - 1]
      BY <3>0, <3>1, SubSeqProperties DEF Up, Path
    <3> QED BY <3>0, <3>2 DEF q
  <2> QED BY <1>0, <1>2, <2>1, <2>2, SeqEqual
<1> QED BY <1>2, <1>3, <1>4, <1>5

LEMMA OneOn ==
    ASSUME NEW p \in Path, NEW x \in Name
    PROVE  /\ Append(p, x) \in Path /\ Append(p, x) # << >>
           /\ Len(Append(p, x)) = Len(p) + 1
           /\ \A n \in 1 .. Len(p) : Append(p, x)[n] = p[n]
           /\ Append(p, x)[Len(p) + 1] = x
           /\ Front(Append(p, x)) = p /\ Last(Append(p, x)) = x
           /\ \A k \in 0 .. Len(p) : Up(Append(p, x), k) = Up(p, k)
<1> DEFINE q == Append(p, x)
<1>0. Len(p) \in Nat
  BY LenProperties DEF Path
<1>1. /\ q \in Path /\ q # << >> /\ Len(q) = Len(p) + 1
      /\ \A n \in 1 .. Len(p) : q[n] = p[n]
      /\ q[Len(p) + 1] = x
  <2>1. p \in Seq(Name)
    BY DEF Path
  <2>2. /\ q \in Seq(Name) /\ q # << >> /\ Len(q) = Len(p) + 1
        /\ \A n \in 1 .. Len(p) : q[n] = p[n]
        /\ q[Len(p) + 1] = x
    BY <2>1, AppendProperties
  <2> QED BY <2>2 DEF Path
<1> HIDE DEF q
<1>2. /\ Up(q, Len(p)) \in Path /\ Len(Up(q, Len(p))) = Len(p)
      /\ \A k \in 1 .. Len(p) : Up(q, Len(p))[k] = q[k]
      /\ \A k \in 0 .. Len(p) : Up(Up(q, Len(p)), k) = Up(q, k)
  BY <1>0, <1>1, UpTo
<1>3. Up(q, Len(p)) = p
  BY <1>0, <1>1, <1>2, SeqEqual DEF Path
<1>4. Front(q) = p /\ Last(q) = x
  BY <1>0, <1>1, <1>3 DEF Front, Last, Up
<1> QED BY <1>1, <1>2, <1>3, <1>4 DEF q

LEMMA FrontAndLast ==
    ASSUME NEW p \in Path, p # << >>
    PROVE  /\ Len(p) \in Nat /\ Len(p) > 0
           /\ Front(p) \in Path /\ Len(Front(p)) = Len(p) - 1 /\ Front(p) = Up(p, Len(p) - 1)
           /\ Last(p) \in Name /\ Last(p) = p[Len(p)]
           /\ p = Append(Front(p), Last(p))
           /\ \A n \in 1 .. (Len(p) - 1) : Front(p)[n] = p[n]
<1>0. Len(p) \in Nat /\ Len(p) > 0 /\ \A n \in 1 .. Len(p) : p[n] \in Name
  BY LenProperties, EmptySeq DEF Path
<1>1. Front(p) = Up(p, Len(p) - 1) /\ Last(p) = p[Len(p)]
  BY DEF Front, Last, Up
<1>2. Len(p) - 1 \in 0 .. Len(p)
  BY <1>0
<1>3. /\ Up(p, Len(p) - 1) \in Path /\ Len(Up(p, Len(p) - 1)) = Len(p) - 1
      /\ \A n \in 1 .. (Len(p) - 1) : Up(p, Len(p) - 1)[n] = p[n]
  BY <1>2, UpTo
<1>4. Last(p) \in Name
  BY <1>0, <1>1
<1>5. p = Append(Front(p), Last(p))
  <2> DEFINE f == Front(p)
             l == Last(p)
  <2>1. f \in Path /\ Len(f) = Len(p) - 1 /\ l \in Name /\ l = p[Len(p)]
        /\ \A n \in 1 .. (Len(p) - 1) : f[n] = p[n]
    BY <1>1, <1>3, <1>4
  <2> HIDE DEF f, l
  <2>2. /\ Append(f, l) \in Path /\ Len(Append(f, l)) = Len(p)
        /\ \A n \in 1 .. Len(f) : Append(f, l)[n] = f[n]
        /\ Append(f, l)[Len(f) + 1] = l
    BY <1>0, <2>1, OneOn
  <2>3. \A n \in 1 .. Len(p) : Append(f, l)[n] = p[n]
    BY <1>0, <2>1, <2>2
  <2>4. p = Append(f, l)
    BY <1>0, <2>2, <2>3, SeqEqual DEF Path
  <2> QED BY <2>4 DEF f, l
<1> QED BY <1>0, <1>1, <1>3, <1>4, <1>5

LEMMA UpStep ==
    ASSUME NEW p \in Path, NEW n \in Nat, n < Len(p)
    PROVE  Up(p, n + 1) = Append(Up(p, n), p[n + 1]) /\ p[n + 1] \in Name
<1>0. Len(p) \in Nat /\ n + 1 \in 0 .. Len(p) /\ n \in 0 .. (n + 1) /\ p[n + 1] \in Name
  BY LenProperties DEF Path
<1> DEFINE q == Up(p, n + 1)
<1>1. q \in Path /\ Len(q) = n + 1 /\ q[n + 1] = p[n + 1] /\ Up(q, n) = Up(p, n)
  BY <1>0, UpTo
<1> HIDE DEF q
<1>2. q # << >>
  BY <1>0, <1>1, EmptySeq
<1>3. q = Append(Front(q), Last(q)) /\ Front(q) = Up(q, n) /\ Last(q) = q[n + 1]
  BY <1>0, <1>1, <1>2, FrontAndLast
<1> QED BY <1>0, <1>1, <1>3 DEF q

-----------------------------------------------------------------------------
(* Where a path leads.                                                     *)

Leads(h, d, path) ==
    h = [n \in 0 .. Len(path) |-> IF n = 0 THEN << >> ELSE Enter(d, h[n - 1], path[n])]

LEMMA LeadsExist ==
    ASSUME NEW d
    PROVE  \A path \in Path : \E h : Leads(h, d, path)
<1> DEFINE T == {n \in Nat : \A path \in Path : Len(path) = n => \E h : Leads(h, d, path)}
<1>1. 0 \in T
  <2> SUFFICES ASSUME NEW path \in Path, Len(path) = 0 PROVE \E h : Leads(h, d, path)
    OBVIOUS
  <2> DEFINE h == [n \in 0 .. 0 |-> << >>]
  <2>1. h = [n \in 0 .. 0 |-> IF n = 0 THEN << >> ELSE Enter(d, h[n - 1], path[n])]
    OBVIOUS
  <2> HIDE DEF h
  <2> QED BY <2>1 DEF Leads
<1>2. ASSUME NEW n \in Nat, n \in T PROVE n + 1 \in T
  <2> SUFFICES ASSUME NEW path \in Path, Len(path) = n + 1 PROVE \E h : Leads(h, d, path)
    OBVIOUS
  <2>0. n \in 0 .. Len(path)
    OBVIOUS
  <2>1. Up(path, n) \in Path /\ Len(Up(path, n)) = n /\ \A k \in 1 .. n : Up(path, n)[k] = path[k]
    BY <2>0, UpTo
  <2>2. PICK g : Leads(g, d, Up(path, n))
    BY <1>2, <2>1
  <2>3. g = [k \in 0 .. n |-> IF k = 0 THEN << >> ELSE Enter(d, g[k - 1], Up(path, n)[k])]
    BY <2>1, <2>2 DEF Leads
  <2> DEFINE h == [k \in 0 .. (n + 1) |-> IF k = n + 1 THEN Enter(d, g[n], path[n + 1]) ELSE g[k]]
  <2>4. ASSUME NEW k \in 0 .. (n + 1)
        PROVE  h[k] = IF k = 0 THEN << >> ELSE Enter(d, h[k - 1], path[k])
    <3>1. CASE k = n + 1
      BY <3>1
    <3>2. CASE k # n + 1 /\ k # 0
      <4>1. k \in 0 .. n /\ k - 1 \in 0 .. (n + 1) /\ k - 1 # n + 1 /\ k \in 1 .. n
        BY <3>2
      <4>2. h[k] = g[k] /\ h[k - 1] = g[k - 1]
        BY <3>2, <4>1
      <4> HIDE DEF h
      <4>3. g[k] = Enter(d, g[k - 1], Up(path, n)[k])
        BY <2>3, <3>2, <4>1
      <4> QED BY <2>1, <3>2, <4>1, <4>2, <4>3
    <3>3. CASE k = 0
      <4>1. h[0] = g[0]
        OBVIOUS
      <4> HIDE DEF h
      <4>2. g[0] = << >>
        BY <2>3
      <4> QED BY <3>3, <4>1, <4>2
    <3> QED BY <3>1, <3>2, <3>3
  <2>5. h = [k \in 0 .. (n + 1) |-> h[k]]
    OBVIOUS
  <2> HIDE DEF h
  <2>6. Leads(h, d, path)
    BY <2>4, <2>5 DEF Leads
  <2> QED BY <2>6
<1> HIDE DEF T
<1>3. Nat \subseteq T
  BY <1>1, <1>2, SetInduction
<1> QED BY <1>3, LenProperties DEF T, Path

LEMMA CanonicalLeads ==
    ASSUME NEW d, NEW path \in Path
    PROVE  \E h : Leads(h, d, path) /\ Canonical(d, path) = h[Len(path)]
<1> DEFINE h == CHOOSE h : Leads(h, d, path)
<1>1. Leads(h, d, path)
  <2>1. \E g : Leads(g, d, path)
    BY LeadsExist
  <2> QED BY <2>1, Zenon
<1>2. Canonical(d, path) = h[Len(path)]
  BY Zenon DEF Canonical, Leads
<1> QED BY <1>1, <1>2

\* Two walks over the same names are the same as far as both go.
LEMMA LeadsAgree ==
    ASSUME NEW d, NEW p \in Path, NEW q \in Path, NEW g, NEW h, Leads(g, d, p), Leads(h, d, q),
           NEW m \in Nat, m <= Len(p), m <= Len(q), \A k \in 1 .. m : p[k] = q[k]
    PROVE  \A k \in 0 .. m : g[k] = h[k]
<1>0. Len(p) \in Nat /\ Len(q) \in Nat
  BY LenProperties DEF Path
<1> DEFINE T == {n \in Nat : n <= m => g[n] = h[n]}
<1>1. \A k \in 0 .. Len(p) : g[k] = IF k = 0 THEN << >> ELSE Enter(d, g[k - 1], p[k])
  BY DEF Leads
<1>2. \A k \in 0 .. Len(q) : h[k] = IF k = 0 THEN << >> ELSE Enter(d, h[k - 1], q[k])
  BY DEF Leads
<1>3. 0 \in T
  BY <1>0, <1>1, <1>2
<1>4. ASSUME NEW n \in Nat, n \in T PROVE n + 1 \in T
  <2> SUFFICES ASSUME n + 1 <= m PROVE g[n + 1] = h[n + 1]
    OBVIOUS
  <2>1. n + 1 \in 0 .. Len(p) /\ n + 1 \in 0 .. Len(q) /\ n + 1 # 0 /\ (n + 1) - 1 = n /\ n + 1 \in 1 .. m
    BY <1>0
  <2>2. g[n + 1] = Enter(d, g[n], p[n + 1]) /\ h[n + 1] = Enter(d, h[n], q[n + 1])
    BY <1>1, <1>2, <2>1
  <2>3. g[n] = h[n]
    BY <1>4
  <2> QED BY <2>1, <2>2, <2>3
<1> HIDE DEF T
<1>5. Nat \subseteq T
  BY <1>3, <1>4, SetInduction
<1> QED BY <1>5 DEF T

LEMMA CanonicalRoot == \A d : Canonical(d, << >>) = << >>
<1> SUFFICES ASSUME NEW d PROVE Canonical(d, << >>) = << >>
  OBVIOUS
<1>1. << >> \in Path /\ Len(<< >>) = 0
  BY EmptySeq DEF Path
<1>2. PICK h : Leads(h, d, << >>) /\ Canonical(d, << >>) = h[Len(<< >>)]
  BY <1>1, CanonicalLeads
<1>3. h = [n \in 0 .. 0 |-> IF n = 0 THEN << >> ELSE Enter(d, h[n - 1], << >>[n])]
  BY <1>1, <1>2 DEF Leads
<1> QED BY <1>1, <1>2, <1>3

LEMMA CanonicalStep ==
    ASSUME NEW d, NEW p \in Path, NEW x \in Name
    PROVE  Canonical(d, Append(p, x)) = Enter(d, Canonical(d, p), x)
<1> DEFINE q == Append(p, x)
<1>0. /\ Len(p) \in Nat /\ q \in Path /\ Len(q) = Len(p) + 1
      /\ \A n \in 1 .. Len(p) : q[n] = p[n]
      /\ q[Len(p) + 1] = x
  BY OneOn, LenProperties DEF Path
<1> HIDE DEF q
<1>1. PICK g : Leads(g, d, p) /\ Canonical(d, p) = g[Len(p)]
  BY CanonicalLeads
<1>2. PICK h : Leads(h, d, q) /\ Canonical(d, q) = h[Len(q)]
  BY <1>0, CanonicalLeads
<1>3. \A k \in 0 .. Len(p) : g[k] = h[k]
  <2>1. Len(p) <= Len(p) /\ Len(p) <= Len(q) /\ \A k \in 1 .. Len(p) : p[k] = q[k]
    BY <1>0
  <2>2. q \in Path /\ Len(p) \in Nat /\ Leads(g, d, p) /\ Leads(h, d, q)
    BY <1>0, <1>1, <1>2
  <2> HIDE <1>0, <1>1, <1>2
  <2> QED BY <2>1, <2>2, LeadsAgree
<1>4. \A k \in 0 .. Len(q) : h[k] = IF k = 0 THEN << >> ELSE Enter(d, h[k - 1], q[k])
  BY <1>2 DEF Leads
<1>5. h[Len(q)] = Enter(d, h[Len(p)], x)
  <2>1. Len(q) \in 0 .. Len(q) /\ Len(q) # 0 /\ Len(q) - 1 = Len(p)
    BY <1>0
  <2> QED BY <1>0, <1>4, <2>1
<1>6. g[Len(p)] = h[Len(p)]
  BY <1>0, <1>3
<1> QED BY <1>1, <1>2, <1>5, <1>6 DEF q

-----------------------------------------------------------------------------
(* A path taken from under one directory to under another.                 *)

Moved(p, a, b) == b \o SubSeq(p, Len(a) + 1, Len(p))

LEMMA BelowUp ==
    ASSUME NEW p \in Path, NEW a \in Path
    PROVE  /\ Below(p, a) <=> Len(a) <= Len(p) /\ Up(p, Len(a)) = a
           /\ Below(p, p)
           /\ Below(p, a) => \A k \in 1 .. Len(a) : p[k] = a[k]
           /\ Below(p, a) => \A n \in Len(a) .. Len(p) : Below(Up(p, n), a)
<1>0. Len(p) \in Nat /\ Len(a) \in Nat
  BY LenProperties DEF Path
<1>1. Below(p, a) <=> Len(a) <= Len(p) /\ Up(p, Len(a)) = a
  BY <1>0 DEF Below, Up
<1>2. Below(p, p)
  <2>1. Up(p, Len(p)) = p
    BY <1>0, UpTo
  <2> QED BY <1>0, <2>1 DEF Below, Up
<1>3. ASSUME Below(p, a) PROVE \A k \in 1 .. Len(a) : p[k] = a[k]
  <2>1. Len(a) \in 0 .. Len(p) /\ Up(p, Len(a)) = a
    BY <1>0, <1>1, <1>3
  <2>2. \A k \in 1 .. Len(a) : Up(p, Len(a))[k] = p[k]
    BY <2>1, UpTo
  <2> QED BY <2>1, <2>2
<1>4. ASSUME Below(p, a), NEW n \in Len(a) .. Len(p) PROVE Below(Up(p, n), a)
  <2>1. n \in 0 .. Len(p) /\ Len(a) \in 0 .. n
    BY <1>0
  <2>2. Len(Up(p, n)) = n /\ Up(Up(p, n), Len(a)) = Up(p, Len(a))
    BY <2>1, UpTo
  <2>3. Up(Up(p, n), Len(a)) = a
    BY <1>1, <1>4, <2>2
  <2> QED BY <1>0, <2>2, <2>3 DEF Below, Up
<1> QED BY <1>1, <1>2, <1>3, <1>4

LEMMA MovedIs ==
    ASSUME NEW p \in Path, NEW a \in Path, NEW b \in Path, Below(p, a)
    PROVE  /\ Moved(p, a, b) \in Path
           /\ Len(Moved(p, a, b)) = Len(b) + (Len(p) - Len(a))
           /\ \A k \in 1 .. Len(b) : Moved(p, a, b)[k] = b[k]
           /\ \A k \in 1 .. (Len(p) - Len(a)) : Moved(p, a, b)[Len(b) + k] = p[Len(a) + k]
<1>0. Len(p) \in Nat /\ Len(a) \in Nat /\ Len(b) \in Nat /\ Len(a) <= Len(p)
  BY LenProperties DEF Path, Below
<1> DEFINE r == SubSeq(p, Len(a) + 1, Len(p))
<1>1. /\ r \in Path /\ Len(r) = Len(p) - Len(a)
      /\ \A k \in 1 .. (Len(p) - Len(a)) : r[k] = p[Len(a) + k]
  <2>1. \A i \in (Len(a) + 1) .. Len(p) : p[i] \in Name
    BY <1>0, LenProperties DEF Path
  <2>2. /\ r \in Seq(Name) /\ Len(r) = IF Len(a) + 1 <= Len(p) THEN Len(p) - (Len(a) + 1) + 1 ELSE 0
        /\ \A i \in 1 .. (Len(p) - (Len(a) + 1) + 1) : r[i] = p[(Len(a) + 1) + i - 1]
    BY <1>0, <2>1, SubSeqProperties
  <2> QED BY <1>0, <2>2 DEF Path
<1> HIDE DEF r
<1>2. /\ b \o r \in Seq(Name) /\ Len(b \o r) = Len(b) + Len(r)
      /\ \A i \in 1 .. (Len(b) + Len(r)) : (b \o r)[i] = IF i <= Len(b) THEN b[i] ELSE r[i - Len(b)]
  BY <1>1, ConcatProperties DEF Path
<1>3. Moved(p, a, b) = b \o r
  BY DEF Moved, r
<1>4. \A k \in 1 .. Len(b) : (b \o r)[k] = b[k]
  BY <1>0, <1>1, <1>2
<1>5. \A k \in 1 .. (Len(p) - Len(a)) : (b \o r)[Len(b) + k] = p[Len(a) + k]
  BY <1>0, <1>1, <1>2
<1> QED BY <1>0, <1>1, <1>2, <1>3, <1>4, <1>5 DEF Path

\* What has the same names is the same path.
LEMMA SamePath ==
    ASSUME NEW p \in Path, NEW q \in Path, Len(p) = Len(q), \A k \in 1 .. Len(p) : p[k] = q[k]
    PROVE  p = q
  BY SeqEqual DEF Path

LEMMA MovedBelow ==
    ASSUME NEW p \in Path, NEW a \in Path, NEW b \in Path, Below(p, a)
    PROVE  /\ Below(Moved(p, a, b), b)
           /\ Moved(a, a, b) = b
           /\ Moved(Moved(p, a, b), b, a) = p
           /\ \A c \in Path : Moved(Moved(p, a, b), b, c) = Moved(p, a, c)
<1>0. Len(p) \in Nat /\ Len(a) \in Nat /\ Len(b) \in Nat /\ Len(a) <= Len(p) /\ Below(a, a)
  BY LenProperties, BelowUp DEF Path, Below
<1> DEFINE m == Moved(p, a, b)
<1>1. /\ m \in Path /\ Len(m) = Len(b) + (Len(p) - Len(a))
      /\ \A k \in 1 .. Len(b) : m[k] = b[k]
      /\ \A k \in 1 .. (Len(p) - Len(a)) : m[Len(b) + k] = p[Len(a) + k]
  BY MovedIs, ZenonT(60)
<1> HIDE DEF m
<1>2. Below(m, b)
  <2>1. Len(b) \in 0 .. Len(m)
    BY <1>0, <1>1
  <2>2. Up(m, Len(b)) \in Path /\ Len(Up(m, Len(b))) = Len(b)
        /\ \A k \in 1 .. Len(b) : Up(m, Len(b))[k] = m[k]
    BY <1>1, <2>1, UpTo
  <2>3. Up(m, Len(b)) = b
    BY <1>1, <2>2, SamePath
  <2> QED BY <1>0, <1>1, <2>3 DEF Below, Up
<1>3. Moved(a, a, b) = b
  <2>1. Moved(a, a, b) \in Path /\ Len(Moved(a, a, b)) = Len(b) + (Len(a) - Len(a))
        /\ \A k \in 1 .. Len(b) : Moved(a, a, b)[k] = b[k]
    BY <1>0, MovedIs, ZenonT(60)
  <2> QED BY <1>0, <2>1, SamePath
<1>4. ASSUME NEW c \in Path PROVE Moved(m, b, c) = Moved(p, a, c)
  <2>1. /\ Moved(m, b, c) \in Path /\ Len(Moved(m, b, c)) = Len(c) + (Len(m) - Len(b))
        /\ \A k \in 1 .. Len(c) : Moved(m, b, c)[k] = c[k]
        /\ \A k \in 1 .. (Len(m) - Len(b)) : Moved(m, b, c)[Len(c) + k] = m[Len(b) + k]
    <3>1. m \in Path
      BY <1>1
    <3> QED BY <3>1, <1>2, MovedIs, ZenonT(60)
  <2>2. /\ Moved(p, a, c) \in Path /\ Len(Moved(p, a, c)) = Len(c) + (Len(p) - Len(a))
        /\ \A k \in 1 .. Len(c) : Moved(p, a, c)[k] = c[k]
        /\ \A k \in 1 .. (Len(p) - Len(a)) : Moved(p, a, c)[Len(c) + k] = p[Len(a) + k]
    BY MovedIs, ZenonT(60)
  <2>3. Len(m) - Len(b) = Len(p) - Len(a) /\ Len(c) \in Nat
    BY <1>0, <1>1, LenProperties DEF Path
  <2> DEFINE u == Moved(m, b, c)
             v == Moved(p, a, c)
  <2>4. ASSUME NEW k \in 1 .. Len(u) PROVE u[k] = v[k]
    <3>1. CASE k <= Len(c)
      <4>1. k \in 1 .. Len(c)
        BY <2>3, <3>1, <2>1
      <4> QED BY <4>1, <2>1, <2>2
    <3>2. CASE k > Len(c)
      <4>1. PICK j \in 1 .. (Len(p) - Len(a)) : k = Len(c) + j
        <5>1. k - Len(c) \in 1 .. (Len(p) - Len(a)) /\ k = Len(c) + (k - Len(c))
          BY <1>0, <2>1, <2>3, <3>2
        <5> QED BY <5>1
      <4>2. u[Len(c) + j] = m[Len(b) + j] /\ v[Len(c) + j] = p[Len(a) + j] /\ m[Len(b) + j] = p[Len(a) + j]
        BY <1>1, <2>1, <2>2, <2>3
      <4> QED BY <4>1, <4>2
    <3> QED BY <3>1, <3>2, <2>1, <2>3
  <2>5. u \in Path /\ v \in Path /\ Len(u) = Len(v)
    BY <2>1, <2>2, <2>3
  <2> HIDE DEF u, v
  <2>6. u = v
    BY <2>4, <2>5, SamePath
  <2> QED BY <2>6 DEF u, v
<1>5. Moved(p, a, a) = p
  <2>1. /\ Moved(p, a, a) \in Path /\ Len(Moved(p, a, a)) = Len(a) + (Len(p) - Len(a))
        /\ \A k \in 1 .. Len(a) : Moved(p, a, a)[k] = a[k]
        /\ \A k \in 1 .. (Len(p) - Len(a)) : Moved(p, a, a)[Len(a) + k] = p[Len(a) + k]
    BY MovedIs, ZenonT(60)
  <2>2. \A k \in 1 .. Len(a) : p[k] = a[k]
    BY BelowUp
  <2> DEFINE u == Moved(p, a, a)
  <2>3. ASSUME NEW k \in 1 .. Len(p) PROVE u[k] = p[k]
    <3>1. CASE k <= Len(a)
      BY <1>0, <2>1, <2>2, <3>1
    <3>2. CASE k > Len(a)
      <4>1. k - Len(a) \in 1 .. (Len(p) - Len(a)) /\ k = Len(a) + (k - Len(a))
        BY <1>0, <3>2
      <4> QED BY <4>1, <2>1
    <3> QED BY <3>1, <3>2, <1>0
  <2>4. u \in Path /\ Len(u) = Len(p)
    BY <1>0, <2>1
  <2> HIDE DEF u
  <2>5. u = p
    BY <2>3, <2>4, SamePath
  <2> QED BY <2>5 DEF u
<1>6. Moved(m, b, a) = p
  BY <1>4, <1>5
<1> QED BY <1>2, <1>3, <1>4, <1>6 DEF m

LEMMA MovedOn ==
    ASSUME NEW p \in Path, NEW a \in Path, NEW b \in Path, Below(p, a), NEW x \in Name
    PROVE  /\ Below(Append(p, x), a)
           /\ Moved(Append(p, x), a, b) = Append(Moved(p, a, b), x)
<1>0. Len(p) \in Nat /\ Len(a) \in Nat /\ Len(b) \in Nat /\ Len(a) <= Len(p) /\ Up(p, Len(a)) = a
  BY LenProperties, BelowUp DEF Path, Below
<1> DEFINE q == Append(p, x)
           m == Moved(p, a, b)
           n == Append(m, x)
           u == Moved(q, a, b)
<1>1. /\ q \in Path /\ Len(q) = Len(p) + 1 /\ q[Len(p) + 1] = x
      /\ \A k \in 1 .. Len(p) : q[k] = p[k]
      /\ \A k \in 0 .. Len(p) : Up(q, k) = Up(p, k)
  BY OneOn
<1>2. /\ m \in Path /\ Len(m) = Len(b) + (Len(p) - Len(a))
      /\ \A k \in 1 .. Len(b) : m[k] = b[k]
      /\ \A k \in 1 .. (Len(p) - Len(a)) : m[Len(b) + k] = p[Len(a) + k]
  BY MovedIs, ZenonT(60)
<1> HIDE DEF q, m
<1>3. /\ n \in Path /\ Len(n) = Len(m) + 1 /\ n[Len(m) + 1] = x
      /\ \A k \in 1 .. Len(m) : n[k] = m[k]
  BY <1>2, OneOn
<1>4. Below(q, a)
  <2>1. Up(q, Len(a)) = a
    BY <1>0, <1>1
  <2> QED BY <1>0, <1>1, <2>1 DEF Below, Up
<1>5. /\ u \in Path /\ Len(u) = Len(b) + (Len(q) - Len(a))
      /\ \A k \in 1 .. Len(b) : u[k] = b[k]
      /\ \A k \in 1 .. (Len(q) - Len(a)) : u[Len(b) + k] = q[Len(a) + k]
  BY <1>1, <1>4, MovedIs, ZenonT(60)
<1> HIDE DEF n, u
<1>6. ASSUME NEW k \in 1 .. Len(u) PROVE u[k] = n[k]
  <2>1. CASE k <= Len(b)
    <3>1. k \in 1 .. Len(b) /\ k \in 1 .. Len(m)
      BY <1>0, <1>2, <1>5, <2>1
    <3> QED BY <1>2, <1>3, <1>5, <3>1
  <2>2. CASE k > Len(b) /\ k <= Len(m)
    <3>1. PICK j \in 1 .. (Len(p) - Len(a)) : k = Len(b) + j
      <4>1. k - Len(b) \in 1 .. (Len(p) - Len(a)) /\ k = Len(b) + (k - Len(b))
        BY <1>0, <1>2, <2>2
      <4> QED BY <4>1
    <3>2. j \in 1 .. (Len(q) - Len(a)) /\ Len(a) + j \in 1 .. Len(p) /\ k \in 1 .. Len(m)
      BY <1>0, <1>1, <1>2, <2>2, <3>1
    <3>3. u[k] = q[Len(a) + j] /\ q[Len(a) + j] = p[Len(a) + j] /\ n[k] = m[k] /\ m[k] = p[Len(a) + j]
      BY <1>1, <1>2, <1>3, <1>5, <3>1, <3>2
    <3> QED BY <3>3
  <2>3. CASE k > Len(m)
    <3>1. k = Len(m) + 1 /\ Len(q) - Len(a) \in 1 .. (Len(q) - Len(a)) /\ k = Len(b) + (Len(q) - Len(a))
          /\ Len(a) + (Len(q) - Len(a)) = Len(p) + 1
      <4>1. Len(q) = Len(p) + 1 /\ Len(m) = Len(b) + (Len(p) - Len(a))
            /\ Len(u) = Len(b) + (Len(q) - Len(a)) /\ k \in 1 .. Len(u) /\ k > Len(m)
        BY <1>1, <1>2, <1>5, <2>3
      <4> QED BY <1>0, <4>1
    <3> QED BY <1>1, <1>3, <1>5, <3>1
  <2> QED BY <1>0, <1>2, <1>5, <2>1, <2>2, <2>3
<1>7. Len(u) = Len(n)
  BY <1>0, <1>1, <1>2, <1>3, <1>5
<1>8. u = n
  BY <1>3, <1>5, <1>6, <1>7, SamePath
<1> QED BY <1>4, <1>8 DEF q, m, n, u

-----------------------------------------------------------------------------
(* What a tree is, and where a path leads in one.                          *)

LEMMA FixedPaths ==
    /\ Nowhere \in Path /\ Len(Nowhere) = 1 /\ Nowhere # << >>
    /\ InPart \in Path /\ Len(InPart) = 1
    /\ "late" \in Name /\ IsPlainName("late") /\ << >> \in Path /\ Len(<< >>) = 0
<1>1. \A x \in Name : <<x>> \in Path /\ Len(<<x>>) = 1 /\ <<x>> # << >>
  BY DEF Path
<1>2. "nowhere" \in Name /\ "part" \in Name /\ "late" \in Name
  BY TransfersAssumption
<1>3. IsPlainName("late")
  BY DEF IsPlainName
<1>4. << >> \in Path /\ Len(<< >>) = 0
  BY EmptySeq DEF Path
<1> QED BY <1>1, <1>2, <1>3, <1>4 DEF Nowhere, InPart

Kinds == {"file", "dir", "link"}
Entry == [kind : Kinds, to : Path, data : Path]

LEMMA InTree ==
    ASSUME NEW d, IsTree(d)
    PROVE  /\ IsFolder(d, << >>) /\ ~IsFolder(d, Nowhere)
           /\ \A p \in DOMAIN d : /\ p \in PlainPath /\ p \in Path /\ p # << >> /\ p # Nowhere
                                  /\ IsFolder(d, Front(p))
                                  /\ d[p] \in Entry /\ d[p].kind \in Kinds
                                  /\ d[p].to \in Path /\ d[p].data \in Path
           /\ \A p : IsFolder(d, p) => p \in PlainPath /\ p \in Path
<1>1. \A p \in DOMAIN d : /\ p \in PlainPath /\ p \in Path /\ p # << >> /\ p # Nowhere
                          /\ IsFolder(d, Front(p))
                          /\ d[p] \in Entry
  BY DEF IsTree, PlainPath, Entry, Kinds
<1>2. \A p \in DOMAIN d : d[p].kind \in Kinds /\ d[p].to \in Path /\ d[p].data \in Path
  BY <1>1 DEF Entry
<1>3. << >> \in PlainPath
  BY FixedPaths DEF PlainPath
<1>4. IsFolder(d, << >>) /\ ~IsFolder(d, Nowhere)
  BY <1>1, FixedPaths DEF IsFolder
<1>5. \A p : IsFolder(d, p) => p \in PlainPath /\ p \in Path
  BY <1>1, <1>3, FixedPaths DEF IsFolder
<1> QED BY <1>1, <1>2, <1>4, <1>5

\* Above what is there are directories.
LEMMA FoldersAbove ==
    ASSUME NEW d, IsTree(d), NEW p \in DOMAIN d, NEW n \in 1 .. (Len(p) - 1)
    PROVE  Up(p, n) \in DOMAIN d /\ d[Up(p, n)].kind = "dir"
<1>0. p \in Path /\ Len(p) \in Nat
  BY InTree, LenProperties DEF Path
<1> DEFINE there(k) == /\ Up(p, k) \in DOMAIN d
                       /\ k < Len(p) => d[Up(p, k)].kind = "dir"
           T == {m \in Nat : m < Len(p) => there(Len(p) - m)}
<1>1. 0 \in T
  <2>1. Up(p, Len(p)) = p
    BY <1>0, UpTo
  <2> QED BY <1>0, <2>1
<1>2. ASSUME NEW m \in Nat, m \in T PROVE m + 1 \in T
  <2> SUFFICES ASSUME m + 1 < Len(p) PROVE there(Len(p) - (m + 1))
    OBVIOUS
  <2> DEFINE k == Len(p) - m
             q == Up(p, k)
  <2>1. k \in 0 .. Len(p) /\ k - 1 \in 0 .. k /\ k - 1 > 0 /\ k - 1 = Len(p) - (m + 1)
    BY <1>0
  <2>2. q \in DOMAIN d
    BY <1>0, <1>2
  <2>3. q \in Path /\ Len(q) = k /\ Up(q, k - 1) = Up(p, k - 1)
    BY <1>0, <2>1, UpTo
  <2> HIDE DEF q, k
  <2>4. IsFolder(d, Front(q)) /\ q # << >>
    BY <2>2, InTree
  <2>5. Front(q) = Up(p, k - 1)
    BY <2>3, <2>4, FrontAndLast
  <2>6. Up(p, k - 1) # << >>
    <3>1. k - 1 \in 0 .. Len(p)
      BY <1>0, <2>1
    <3>2. Len(Up(p, k - 1)) = k - 1
      BY <1>0, <3>1, UpTo
    <3> QED BY <2>1, <3>2, FixedPaths
  <2> QED BY <2>1, <2>4, <2>5, <2>6 DEF IsFolder
<1> HIDE DEF T
<1>3. Nat \subseteq T
  BY <1>1, <1>2, SetInduction
<1>4. Len(p) - n \in Nat /\ Len(p) - n < Len(p) /\ Len(p) - (Len(p) - n) = n /\ n < Len(p)
  BY <1>0
<1> QED BY <1>3, <1>4 DEF T

LEMMA EnterIs ==
    ASSUME NEW d, NEW at, NEW x
    PROVE  /\ ~IsFolder(d, at) => Enter(d, at, x) = Nowhere
           /\ IsFolder(d, at) /\ IsPlainName(x) =>
                 LET p == Append(at, x)
                 IN Enter(d, at, x) = IF p \notin DOMAIN d THEN Nowhere
                                      ELSE IF d[p].kind # "link" THEN p
                                      ELSE IF d[p].to \in DOMAIN d THEN d[p].to ELSE Nowhere
  BY DEF Enter, IsPlainName

\* A path leads somewhere that is there, or nowhere.
LEMMA LeadsIntoTree ==
    ASSUME NEW d, IsTree(d), NEW p \in PlainPath
    PROVE  /\ p # << >> => Canonical(d, p) \in DOMAIN d \union {Nowhere}
           /\ Canonical(d, p) \in Path
<1>0. p \in Path
  BY DEF PlainPath
<1>1. CASE p = << >>
  BY <1>1, CanonicalRoot, FixedPaths
<1>2. CASE p # << >>
  <2>1. /\ Front(p) \in Path /\ Last(p) \in Name /\ p = Append(Front(p), Last(p))
        /\ Last(p) = p[Len(p)] /\ Len(p) \in 1 .. Len(p)
    BY <1>0, <1>2, FrontAndLast
  <2>2. IsPlainName(Last(p))
    BY <2>1 DEF PlainPath
  <2>3. Canonical(d, p) = Enter(d, Canonical(d, Front(p)), Last(p))
    BY <2>1, CanonicalStep
  <2>4. Canonical(d, p) \in DOMAIN d \union {Nowhere}
    BY <2>2, <2>3, EnterIs
  <2> QED BY <2>4, InTree, FixedPaths
<1> QED BY <1>1, <1>2

\* On the way to a directory there are only directories.
LEMMA FoldersOnTheWay ==
    ASSUME NEW d, IsTree(d), NEW p \in PlainPath, IsFolder(d, Canonical(d, p)), NEW n \in 0 .. Len(p)
    PROVE  IsFolder(d, Canonical(d, Up(p, n)))
<1>0. p \in Path /\ Len(p) \in Nat
  BY LenProperties DEF PlainPath, Path
<1> DEFINE T == {m \in Nat : m <= Len(p) => IsFolder(d, Canonical(d, Up(p, Len(p) - m)))}
<1>1. 0 \in T
  <2>1. Up(p, Len(p)) = p
    BY <1>0, UpTo
  <2> QED BY <1>0, <2>1
<1>2. ASSUME NEW m \in Nat, m \in T PROVE m + 1 \in T
  <2> SUFFICES ASSUME m + 1 <= Len(p) PROVE IsFolder(d, Canonical(d, Up(p, Len(p) - (m + 1))))
    OBVIOUS
  <2> DEFINE k == Len(p) - (m + 1)
  <2>1. k \in Nat /\ k < Len(p) /\ k + 1 = Len(p) - m /\ k \in 0 .. Len(p)
    BY <1>0
  <2>2. IsFolder(d, Canonical(d, Up(p, k + 1)))
    <3>1. m <= Len(p)
      BY <1>0
    <3> QED BY <1>2, <2>1, <3>1
  <2>3. Up(p, k + 1) = Append(Up(p, k), p[k + 1]) /\ p[k + 1] \in Name /\ Up(p, k) \in Path
    <3> HIDE DEF k
    <3> QED BY <1>0, <2>1, UpStep, UpTo
  <2>4. Canonical(d, Up(p, k + 1)) = Enter(d, Canonical(d, Up(p, k)), p[k + 1])
    BY <2>3, CanonicalStep
  <2> HIDE DEF k
  <2>5. IsFolder(d, Canonical(d, Up(p, k)))
    BY <2>2, <2>4, EnterIs, InTree
  <2> QED BY <2>5 DEF k
<1> HIDE DEF T
<1>3. Nat \subseteq T
  BY <1>1, <1>2, SetInduction
<1>4. Len(p) - n \in Nat /\ Len(p) - n <= Len(p) /\ Len(p) - (Len(p) - n) = n
  BY <1>0
<1> QED BY <1>3, <1>4 DEF T

\* A path from `a` on that meets no link leads where its names say.
LEMMA LeadsStraight ==
    ASSUME NEW d, IsTree(d), NEW a \in Path, NEW b \in Path, NEW p \in PlainPath, Below(p, a),
           IsFolder(d, Canonical(d, a)) => Canonical(d, a) = b,
           \A n \in (Len(a) + 1) .. Len(p) :
              Moved(Up(p, n), a, b) \in DOMAIN d => d[Moved(Up(p, n), a, b)].kind # "link"
    PROVE  IsFolder(d, Canonical(d, p)) => Canonical(d, p) = Moved(p, a, b)
<1>0. /\ p \in Path /\ Len(p) \in Nat /\ Len(a) \in Nat /\ Len(a) <= Len(p)
      /\ Up(p, Len(a)) = a /\ Up(p, Len(p)) = p
  BY LenProperties, BelowUp, UpTo DEF PlainPath, Path
<1> DEFINE says(n) == IsFolder(d, Canonical(d, Up(p, n))) => Canonical(d, Up(p, n)) = Moved(Up(p, n), a, b)
           T == {m \in Nat : Len(a) + m <= Len(p) => says(Len(a) + m)}
<1>1. 0 \in T
  <2>1. Moved(a, a, b) = b
    BY BelowUp, MovedBelow
  <2>2. Len(a) + 0 = Len(a)
    BY <1>0
  <2> QED BY <1>0, <2>1, <2>2
<1>2. ASSUME NEW m \in Nat, m \in T PROVE m + 1 \in T
  <2> SUFFICES ASSUME Len(a) + (m + 1) <= Len(p), IsFolder(d, Canonical(d, Up(p, Len(a) + (m + 1))))
               PROVE  Canonical(d, Up(p, Len(a) + (m + 1))) = Moved(Up(p, Len(a) + (m + 1)), a, b)
    OBVIOUS
  <2> DEFINE k == Len(a) + m
             u == Up(p, k)
             x == p[k + 1]
  <2>1. k \in Nat /\ k < Len(p) /\ k + 1 = Len(a) + (m + 1) /\ k \in Len(a) .. Len(p) /\ k \in 0 .. Len(p)
        /\ k + 1 \in (Len(a) + 1) .. Len(p) /\ k + 1 \in 1 .. Len(p)
    BY <1>0
  <2>2. says(k)
    <3>1. Len(a) + m <= Len(p)
      BY <1>0
    <3> QED BY <1>2, <3>1
  <2> HIDE DEF k
  <2>3. Up(p, k + 1) = Append(u, x) /\ x \in Name /\ u \in Path
    BY <1>0, <2>1, UpStep, UpTo
  <2>4. IsPlainName(x)
    BY <2>1 DEF PlainPath
  <2>5. Below(u, a)
    BY <1>0, <2>1, BelowUp
  <2> HIDE DEF u, x
  <2>6. Canonical(d, Append(u, x)) = Enter(d, Canonical(d, u), x)
    BY <2>3, CanonicalStep
  <2>7. Moved(Append(u, x), a, b) = Append(Moved(u, a, b), x)
    BY <2>3, <2>5, MovedOn
  <2>8. IsFolder(d, Enter(d, Canonical(d, u), x))
    BY <2>1, <2>3, <2>6
  <2>9. IsFolder(d, Canonical(d, u))
    BY <2>8, EnterIs, InTree
  <2>10. Canonical(d, u) = Moved(u, a, b)
    BY <2>2, <2>9 DEF u
  <2>11. Append(Moved(u, a, b), x) \in DOMAIN d => d[Append(Moved(u, a, b), x)].kind # "link"
    BY <2>1, <2>3, <2>7
  <2>12. Enter(d, Canonical(d, u), x) = Append(Moved(u, a, b), x)
    BY <2>4, <2>8, <2>9, <2>10, <2>11, EnterIs, InTree
  <2> QED BY <2>1, <2>3, <2>6, <2>7, <2>12
<1> HIDE DEF T
<1>3. Nat \subseteq T
  BY <1>1, <1>2, SetInduction
<1>4. Len(p) - Len(a) \in Nat /\ Len(a) + (Len(p) - Len(a)) = Len(p)
  BY <1>0
<1>5. says(Len(p))
  BY <1>3, <1>4, <1>0 DEF T
<1> QED BY <1>0, <1>5

\* What is above a path is moved to above where it is moved.
LEMMA MovedUp ==
    ASSUME NEW p \in Path, NEW a \in Path, NEW b \in Path, Below(p, a), NEW n \in Nat,
           Len(a) <= n, n <= Len(p)
    PROVE  /\ Len(b) + (n - Len(a)) \in 0 .. Len(Moved(p, a, b))
           /\ Moved(Up(p, n), a, b) = Up(Moved(p, a, b), Len(b) + (n - Len(a)))
<1>0. Len(p) \in Nat /\ Len(a) \in Nat /\ Len(b) \in Nat /\ Len(a) <= Len(p)
  BY LenProperties DEF Path
<1> DEFINE u == Up(p, n)
           c == Moved(p, a, b)
           q == Moved(u, a, b)
           m == Len(b) + (n - Len(a))
<1>1. u \in Path /\ Len(u) = n /\ Below(u, a) /\ \A k \in 1 .. n : u[k] = p[k]
  BY <1>0, UpTo, BelowUp
<1>2. /\ c \in Path /\ Len(c) = Len(b) + (Len(p) - Len(a))
      /\ \A k \in 1 .. Len(b) : c[k] = b[k]
      /\ \A k \in 1 .. (Len(p) - Len(a)) : c[Len(b) + k] = p[Len(a) + k]
  BY MovedIs, ZenonT(60)
<1> HIDE DEF u, c
<1>3. /\ q \in Path /\ Len(q) = m
      /\ \A k \in 1 .. Len(b) : q[k] = b[k]
      /\ \A k \in 1 .. (n - Len(a)) : q[Len(b) + k] = u[Len(a) + k]
  <2>1. /\ q \in Path /\ Len(q) = Len(b) + (Len(u) - Len(a))
        /\ \A k \in 1 .. Len(b) : q[k] = b[k]
        /\ \A k \in 1 .. (Len(u) - Len(a)) : q[Len(b) + k] = u[Len(a) + k]
    BY <1>1, MovedIs, ZenonT(60)
  <2> QED BY <1>1, <2>1
<1>4. m \in 0 .. Len(c)
  BY <1>0, <1>2
<1> HIDE DEF q
<1>5. Up(c, m) \in Path /\ Len(Up(c, m)) = m /\ \A k \in 1 .. m : Up(c, m)[k] = c[k]
  BY <1>2, <1>4, UpTo
<1>6. ASSUME NEW k \in 1 .. m PROVE q[k] = c[k]
  <2>1. CASE k <= Len(b)
    BY <1>0, <1>2, <1>3, <2>1
  <2>2. CASE k > Len(b)
    <3>1. /\ k - Len(b) \in 1 .. (n - Len(a)) /\ k - Len(b) \in 1 .. (Len(p) - Len(a))
          /\ k = Len(b) + (k - Len(b)) /\ Len(a) + (k - Len(b)) \in 1 .. n
      BY <1>0, <2>2
    <3>2. q[k] = u[Len(a) + (k - Len(b))] /\ c[k] = p[Len(a) + (k - Len(b))]
      BY <1>2, <1>3, <3>1
    <3>3. u[Len(a) + (k - Len(b))] = p[Len(a) + (k - Len(b))]
      BY <1>1, <3>1
    <3> QED BY <3>2, <3>3
  <2> QED BY <1>0, <1>4, <2>1, <2>2
<1>7. q = Up(c, m)
  BY <1>3, <1>5, <1>6, SamePath
<1> QED BY <1>4, <1>7 DEF q, u, c

\* And what is there is led to.
LEMMA LeadsThere ==
    ASSUME NEW d, IsTree(d), NEW a \in Path, NEW b \in Path, NEW p \in PlainPath, Below(p, a),
           IsFolder(d, Canonical(d, a)), Canonical(d, a) = b, p # a,
           Moved(p, a, b) \in DOMAIN d, d[Moved(p, a, b)].kind # "link"
    PROVE  Canonical(d, p) = Moved(p, a, b)
<1>0. /\ p \in Path /\ Len(p) \in Nat /\ Len(a) \in Nat /\ Len(b) \in Nat /\ Len(a) <= Len(p)
      /\ Up(p, Len(a)) = a /\ Up(p, Len(p)) = p
  BY LenProperties, BelowUp, UpTo DEF PlainPath, Path
<1> DEFINE c == Moved(p, a, b)
           says(n) == Canonical(d, Up(p, n)) = Moved(Up(p, n), a, b)
           T == {m \in Nat : Len(a) + m <= Len(p) => says(Len(a) + m)}
<1>a. c \in Path /\ Len(c) = Len(b) + (Len(p) - Len(a))
  BY <1>0, MovedIs, ZenonT(60)
<1>b. ASSUME NEW n \in (Len(a) + 1) .. Len(p)
      PROVE  LET q == Moved(Up(p, n), a, b)
             IN q \in DOMAIN d /\ d[q].kind # "link" /\ (n < Len(p) => d[q].kind = "dir")
  <2> DEFINE m == Len(b) + (n - Len(a))
  <2>1. n \in Nat /\ Len(a) <= n /\ n <= Len(p)
    BY <1>0
  <2>2. Moved(Up(p, n), a, b) = Up(c, m)
    BY <1>0, <2>1, MovedUp
  <2>3. CASE n = Len(p)
    BY <1>0, <2>3
  <2>4. CASE n < Len(p)
    <3>1. m \in 1 .. (Len(c) - 1)
      BY <1>0, <1>a, <2>4
    <3> HIDE DEF m, c
    <3>2. Up(c, m) \in DOMAIN d /\ d[Up(c, m)].kind = "dir"
      BY <3>1, FoldersAbove DEF c
    <3> QED BY <2>2, <3>2
  <2> QED BY <2>1, <2>3, <2>4
<1> HIDE DEF c
<1>1. 0 \in T
  <2>1. Moved(a, a, b) = b
    BY BelowUp, MovedBelow
  <2>2. Len(a) + 0 = Len(a)
    BY <1>0
  <2> QED BY <1>0, <2>1, <2>2
<1>2. ASSUME NEW m \in Nat, m \in T PROVE m + 1 \in T
  <2> SUFFICES ASSUME Len(a) + (m + 1) <= Len(p)
               PROVE  Canonical(d, Up(p, Len(a) + (m + 1))) = Moved(Up(p, Len(a) + (m + 1)), a, b)
    OBVIOUS
  <2> DEFINE k == Len(a) + m
             u == Up(p, k)
             x == p[k + 1]
  <2>1. k \in Nat /\ k < Len(p) /\ k + 1 = Len(a) + (m + 1) /\ k \in Len(a) .. Len(p) /\ k \in 0 .. Len(p)
        /\ k + 1 \in (Len(a) + 1) .. Len(p) /\ k + 1 \in 1 .. Len(p)
    BY <1>0
  <2>2. says(k)
    <3>1. Len(a) + m <= Len(p)
      BY <1>0
    <3> QED BY <1>2, <3>1
  <2>3. IsFolder(d, Moved(u, a, b))
    <3>1. CASE k = Len(a)
      <4>1. Moved(a, a, b) = b
        BY BelowUp, MovedBelow
      <4> QED BY <1>0, <3>1, <4>1
    <3>2. CASE k # Len(a)
      <4>1. k \in (Len(a) + 1) .. Len(p) /\ k < Len(p)
        BY <1>0, <2>1, <3>2
      <4> HIDE DEF k
      <4> QED BY <1>b, <4>1 DEF IsFolder
    <3> QED BY <3>1, <3>2
  <2> HIDE DEF k
  <2>4. Up(p, k + 1) = Append(u, x) /\ x \in Name /\ u \in Path
    BY <1>0, <2>1, UpStep, UpTo
  <2>5. IsPlainName(x)
    BY <2>1 DEF PlainPath
  <2>6. Below(u, a)
    BY <1>0, <2>1, BelowUp
  <2>7. Moved(Up(p, k + 1), a, b) \in DOMAIN d /\ d[Moved(Up(p, k + 1), a, b)].kind # "link"
    BY <1>b, <2>1, Zenon
  <2>8. Canonical(d, u) = Moved(u, a, b)
    BY <2>2
  <2> HIDE DEF u, x
  <2>9. Canonical(d, Append(u, x)) = Enter(d, Canonical(d, u), x)
    BY <2>4, CanonicalStep
  <2>10. Moved(Append(u, x), a, b) = Append(Moved(u, a, b), x)
    BY <2>4, <2>6, MovedOn
  <2>11. Enter(d, Canonical(d, u), x) = Append(Moved(u, a, b), x)
    <3>1. Append(Moved(u, a, b), x) \in DOMAIN d /\ d[Append(Moved(u, a, b), x)].kind # "link"
      BY <2>4, <2>7, <2>10
    <3> QED BY <2>3, <2>5, <2>8, <3>1, EnterIs
  <2> QED BY <2>1, <2>4, <2>9, <2>10, <2>11
<1> HIDE DEF T
<1>3. Nat \subseteq T
  BY <1>1, <1>2, SetInduction
<1>4. Len(p) - Len(a) \in Nat /\ Len(a) + (Len(p) - Len(a)) = Len(p)
  BY <1>0
<1>5. says(Len(p))
  BY <1>3, <1>4, <1>0 DEF T
<1> QED BY <1>0, <1>5

-----------------------------------------------------------------------------
(* Sets as sequences.                                                      *)

LEMMA FiniteImage ==
    ASSUME NEW f, IsFiniteSet(DOMAIN f), NEW R, \A x \in DOMAIN f : f[x] \in R, \A y \in R : \E x \in DOMAIN f : f[x] = y
    PROVE  IsFiniteSet(R)
<1> DEFINE g == [x \in DOMAIN f |-> f[x]]
<1>1. g \in Surjection(DOMAIN f, R)
  BY DEF Surjection
<1> HIDE DEF g
<1> QED BY <1>1, FS_Surjection, Zenon

LEMMA InOrder ==
    ASSUME NEW S, IsFiniteSet(S)
    PROVE  /\ SetToSeq(S) \in Seq(S) /\ Len(SetToSeq(S)) \in Nat
           /\ \A x \in S : \E i \in 1 .. Len(SetToSeq(S)) : SetToSeq(S)[i] = x
           /\ \A i \in 1 .. Len(SetToSeq(S)) : SetToSeq(S)[i] \in S
           /\ \A i, j \in 1 .. Len(SetToSeq(S)) : SetToSeq(S)[i] = SetToSeq(S)[j] => i = j
<1> DEFINE n == Cardinality(S)
           s == SetToSeq(S)
<1>1. n \in Nat /\ ExistsBijection(1 .. n, S)
  BY FS_CardinalityType, Zenon
<1>2. PICK g : g \in Bijection(1 .. n, S)
  BY <1>1 DEF ExistsBijection
<1>3. g \in [1 .. n -> S] /\ IsInjective(g)
  BY <1>2 DEF Bijection, Injection, IsInjective
<1>4. s \in [1 .. n -> S] /\ IsInjective(s)
  BY <1>3, Zenon DEF SetToSeq
<1>5. IsFiniteSet(1 .. n) /\ Cardinality(1 .. n) = n
  BY <1>1, FS_Interval
<1>6. s \in Injection(1 .. n, S)
  BY <1>4 DEF Injection, IsInjective
<1>7. s \in Surjection(1 .. n, S)
  <2> HIDE DEF s
  <2> QED BY <1>5, <1>6, FS_Injection
<1> HIDE DEF s
<1>8. s \in Seq(S) /\ Len(s) = n
  BY <1>1, <1>4
<1>9. \A x \in S : \E i \in 1 .. Len(s) : s[i] = x
  BY <1>7, <1>8 DEF Surjection
<1>10. \A i \in 1 .. Len(s) : s[i] \in S
  BY <1>4, <1>8
<1>11. \A i, j \in 1 .. Len(s) : s[i] = s[j] => i = j
  BY <1>4, <1>8 DEF IsInjective
<1> QED BY <1>1, <1>8, <1>9, <1>10, <1>11 DEF s

-----------------------------------------------------------------------------
(* What there is when something is added or removed.                       *)

LEMMA PlacedIs ==
    ASSUME NEW d, NEW p, NEW e
    PROVE  /\ DOMAIN Placed(d, p, e) = DOMAIN d \union {p}
           /\ Placed(d, p, e)[p] = e
           /\ \A x \in DOMAIN d : x # p => Placed(d, p, e)[x] = d[x]
  BY DEF Placed

LEMMA RemovedIs ==
    ASSUME NEW d, NEW p
    PROVE  /\ DOMAIN Removed(d, p) = DOMAIN d \ {p}
           /\ \A x \in DOMAIN d : x # p => Removed(d, p)[x] = d[x]
  BY DEF Removed

LEMMA StillATree ==
    ASSUME NEW d, IsTree(d)
    PROVE  /\ \A p \in PlainPath \ {<< >>, Nowhere}, e \in Entry :
                 IsFolder(d, Front(p)) /\ (p \in DOMAIN d => d[p].kind # "dir") => IsTree(Placed(d, p, e))
           /\ \A p \in DOMAIN d :
                 d[p].kind # "dir" \/ (\A x \in DOMAIN d : Front(x) # p) => IsTree(Removed(d, p))
<1>0. /\ IsFiniteSet(DOMAIN d)
      /\ \A p \in DOMAIN d:
            /\ p \in Path \ {<< >>, Nowhere} /\ IsFolder(d, Front(p))
            /\ \A n \in 1..Len(p): IsPlainName(p[n])
            /\ d[p] \in Entry
  BY DEF IsTree, Entry, Kinds
<1>1. ASSUME NEW p \in PlainPath \ {<< >>, Nowhere}, NEW e \in Entry, IsFolder(d, Front(p)),
             p \in DOMAIN d => d[p].kind # "dir"
      PROVE  IsTree(Placed(d, p, e))
  <2> DEFINE g == Placed(d, p, e)
  <2>1. /\ DOMAIN g = DOMAIN d \union {p} /\ g[p] = e
        /\ \A x \in DOMAIN d : x # p => g[x] = d[x]
    BY DEF Placed
  <2> HIDE DEF g
  <2>2. IsFiniteSet(DOMAIN g)
    BY <1>0, <2>1, FS_AddElement
  <2>3. \A x : IsFolder(d, x) => IsFolder(g, x)
    BY <1>1, <2>1 DEF IsFolder
  <2>4. \A x \in DOMAIN g : /\ x \in Path \ {<< >>, Nowhere} /\ IsFolder(g, Front(x))
                            /\ \A n \in 1..Len(x): IsPlainName(x[n])
                            /\ g[x] \in Entry
    BY <1>0, <1>1, <2>1, <2>3 DEF PlainPath
  <2> QED BY <2>2, <2>4 DEF IsTree, Entry, Kinds, g
<1>2. ASSUME NEW p \in DOMAIN d, d[p].kind # "dir" \/ (\A x \in DOMAIN d : Front(x) # p)
      PROVE  IsTree(Removed(d, p))
  <2> DEFINE g == Removed(d, p)
  <2>1. /\ DOMAIN g = DOMAIN d \ {p}
        /\ \A x \in DOMAIN d : x # p => g[x] = d[x]
    BY RemovedIs
  <2> HIDE DEF g
  <2>2. IsFiniteSet(DOMAIN g)
    BY <1>0, <2>1, FS_RemoveElement
  <2>3. \A x : IsFolder(d, x) /\ x # p => IsFolder(g, x)
    BY <2>1 DEF IsFolder
  <2>4. \A x \in DOMAIN g : IsFolder(g, Front(x))
    <3> SUFFICES ASSUME NEW x \in DOMAIN g PROVE IsFolder(g, Front(x))
      OBVIOUS
    <3>1. x \in DOMAIN d /\ IsFolder(d, Front(x))
      BY <1>0, <2>1
    <3>2. CASE Front(x) # p
      BY <2>3, <3>1, <3>2
    <3>3. CASE Front(x) = p
      <4>1. d[p].kind # "dir"
        BY <1>2, <3>1, <3>3
      <4>2. p = << >>
        BY <3>1, <3>3, <4>1 DEF IsFolder
      <4> QED BY <1>0, <4>2
    <3> QED BY <3>2, <3>3
  <2>5. \A x \in DOMAIN g : /\ x \in Path \ {<< >>, Nowhere}
                            /\ \A n \in 1..Len(x): IsPlainName(x[n])
                            /\ g[x] \in Entry
    BY <1>0, <2>1
  <2> QED BY <2>2, <2>4, <2>5 DEF IsTree, Entry, Kinds, g
<1> QED BY <1>1, <1>2

-----------------------------------------------------------------------------
(* What is found on the way.                                               *)

\* What a batch has to do is below the directory on screen, by a name that was chosen,
\* and goes to the same place below the directory that is written to.
OnItsWay(q) ==
    /\ q.from \in PlainPath /\ q.to \in PlainPath
    /\ Below(q.from, origin) /\ Len(q.from) > Len(origin)
    /\ q.from[Len(origin) + 1] \in chosen
    /\ q.to = Moved(q.from, origin, into)
Jobs == {q \in [from : Path, to : Path] : OnItsWay(q)}

\* What is fixed for a batch.
BatchFixed ==
    /\ op \in {"upload", "download", "delete"} /\ near \in BOOLEAN
    /\ origin \in PlainPath /\ into \in PlainPath
    /\ start \in Disks /\ IsFolder(start, OnScreen)
    /\ ~near => TwoMachines(start) /\ into = Target
    /\ \A x \in chosen : x \in Name /\ IsPlainName(x) /\ Append(OnScreen, x) \in DOMAIN start

LEMMA PlainOn ==
    ASSUME NEW p \in PlainPath, NEW x \in Name, IsPlainName(x)
    PROVE  Append(p, x) \in PlainPath
<1>0. p \in Path /\ Len(p) \in Nat /\ \A n \in 1 .. Len(p) : IsPlainName(p[n])
  BY LenProperties DEF PlainPath, Path
<1> DEFINE q == Append(p, x)
<1>1. q \in Path /\ Len(q) = Len(p) + 1 /\ q[Len(p) + 1] = x /\ \A n \in 1 .. Len(p) : q[n] = p[n]
  BY <1>0, OneOn
<1> HIDE DEF q
<1>2. \A n \in 1 .. Len(q) : IsPlainName(q[n])
  <2> SUFFICES ASSUME NEW n \in 1 .. Len(q) PROVE IsPlainName(q[n])
    OBVIOUS
  <2>1. n \in 1 .. Len(p) \/ n = Len(p) + 1
    BY <1>0, <1>1
  <2> QED BY <1>0, <1>1, <2>1
<1> QED BY <1>1, <1>2 DEF PlainPath, q

LEMMA InsideIs ==
    ASSUME BatchFixed, NEW x \in Name, IsPlainName(x), NEW q \in [from : PlainPath, to : PlainPath],
           q \in Jobs \/ (q = Item(origin, into) /\ x \in chosen)
    PROVE  /\ Inside(q, x) \in Jobs
           /\ Inside(q, x).from = Append(q.from, x) /\ Inside(q, x).to = Append(q.to, x)
           /\ Len(Inside(q, x).from) = Len(q.from) + 1
<1>0. /\ origin \in PlainPath /\ into \in PlainPath /\ origin \in Path /\ into \in Path
      /\ Len(origin) \in Nat
  BY LenProperties DEF BatchFixed, PlainPath, Path
<1> DEFINE f == q.from
           t == q.to
<1>1. /\ f \in PlainPath /\ t \in PlainPath /\ f \in Path /\ t \in Path /\ Len(f) \in Nat
  BY LenProperties DEF PlainPath, Path
<1>2. Below(f, origin) /\ t = Moved(f, origin, into)
  <2>1. CASE q \in Jobs
    BY <2>1 DEF Jobs, OnItsWay
  <2>2. CASE q = Item(origin, into)
    <3>1. f = origin /\ t = into
      BY <2>2 DEF Item
    <3>2. Below(origin, origin) /\ Moved(origin, origin, into) = into
      BY <1>0, BelowUp, MovedBelow
    <3> QED BY <3>1, <3>2
  <2> QED BY <2>1, <2>2
<1>3. Len(f) >= Len(origin)
  BY <1>2 DEF Below
<1>4. CASE q \in Jobs
  <2>1. Len(f) > Len(origin) /\ f[Len(origin) + 1] \in chosen
    BY <1>4 DEF Jobs, OnItsWay
  <2> HIDE DEF f, t
  <2>2. /\ Append(f, x) \in PlainPath /\ Append(t, x) \in PlainPath
        /\ Append(f, x) \in Path /\ Append(t, x) \in Path /\ Len(Append(f, x)) = Len(f) + 1
        /\ Append(f, x)[Len(origin) + 1] = f[Len(origin) + 1]
    BY <1>0, <1>1, <2>1, PlainOn, OneOn
  <2>3. Below(Append(f, x), origin) /\ Moved(Append(f, x), origin, into) = Append(t, x)
    BY <1>0, <1>1, <1>2, MovedOn
  <2> DEFINE i == Item(Append(f, x), Append(t, x))
  <2>i. i \in [from : Path, to : Path] /\ i.from = Append(f, x) /\ i.to = Append(t, x)
    BY <2>2 DEF Item
  <2> HIDE DEF i
  <2>o. OnItsWay(i)
    BY <1>0, <1>1, <1>3, <2>1, <2>2, <2>3, <2>i DEF OnItsWay
  <2>4. i \in Jobs
    BY <2>i, <2>o DEF Jobs
  <2>5. Inside(q, x) = i
    BY DEF Inside, i, f, t
  <2> QED BY <2>2, <2>4, <2>5, <2>i DEF f, t
<1>5. CASE q = Item(origin, into) /\ x \in chosen
  <2>1. f = origin
    BY <1>5 DEF Item
  <2> HIDE DEF f, t
  <2>2. /\ Append(f, x) \in PlainPath /\ Append(t, x) \in PlainPath
        /\ Append(f, x) \in Path /\ Append(t, x) \in Path /\ Len(Append(f, x)) = Len(f) + 1
        /\ Append(f, x)[Len(origin) + 1] = x
    BY <1>0, <1>1, <2>1, PlainOn, OneOn
  <2>3. Below(Append(f, x), origin) /\ Moved(Append(f, x), origin, into) = Append(t, x)
    BY <1>0, <1>1, <1>2, MovedOn
  <2> DEFINE i == Item(Append(f, x), Append(t, x))
  <2>i. i \in [from : Path, to : Path] /\ i.from = Append(f, x) /\ i.to = Append(t, x)
    BY <2>2 DEF Item
  <2> HIDE DEF i
  <2>o. OnItsWay(i)
    BY <1>0, <1>1, <1>3, <1>5, <2>1, <2>2, <2>3, <2>i DEF OnItsWay
  <2>4. i \in Jobs
    BY <2>i, <2>o DEF Jobs
  <2>5. Inside(q, x) = i
    BY DEF Inside, i, f, t
  <2> QED BY <2>2, <2>4, <2>5, <2>i DEF f, t
<1> QED BY <1>4, <1>5

\* What a directory lists: what is in it, and perhaps the parent.
LEMMA ListedIs ==
    ASSUME NEW d, IsTree(d), NEW path
    PROVE  /\ IsFiniteSet(ReadDir(d, path))
           /\ \A e \in ReadDir(d, path) :
                 e.name = ".." \/ \E p \in DOMAIN d :
                    /\ Front(p) = Canonical(d, path) /\ p = Append(Canonical(d, path), e.name)
                    /\ e.name \in Name /\ IsPlainName(e.name)
                    /\ NeedsWalking(e) <=> d[p].kind = "dir"
           /\ \A p \in DOMAIN d : Front(p) = Canonical(d, path) =>
                 \E e \in ReadDir(d, path) :
                    /\ e.name = Last(p) /\ p = Append(Canonical(d, path), e.name)
                    /\ IsPlainName(e.name) /\ (NeedsWalking(e) <=> d[p].kind = "dir")
<1> DEFINE at == Canonical(d, path)
           EntryOf(p) == [name |-> Last(p), link |-> d[p].kind = "link",
                          dir |-> IsFolder(d, IF d[p].kind = "link" THEN d[p].to ELSE p)]
           In == {p \in DOMAIN d : Front(p) = at}
<1>1. ReadFolder(d, path) = {EntryOf(p) : p \in In}
  BY Zenon DEF ReadFolder
<1>2. IsFiniteSet(In)
  <2>1. IsFiniteSet(DOMAIN d)
    BY DEF IsTree
  <2> QED BY <2>1, FS_Subset
<1>3. IsFiniteSet(ReadFolder(d, path))
  <2> DEFINE f == [p \in In |-> EntryOf(p)]
  <2>1. DOMAIN f = In
    OBVIOUS
  <2>2. \A x \in In : f[x] \in ReadFolder(d, path)
    BY <1>1
  <2>3. \A y \in ReadFolder(d, path) : \E x \in In : f[x] = y
    BY <1>1
  <2> HIDE DEF f, In
  <2> QED BY <1>2, <2>1, <2>2, <2>3, FiniteImage
<1>4. /\ ReadDir(d, path) = ReadFolder(d, path)
         \/ ReadDir(d, path) = ReadFolder(d, path) \union {[name |-> "..", link |-> FALSE, dir |-> TRUE]}
  BY DEF ReadDir
<1>5. IsFiniteSet(ReadDir(d, path))
  BY <1>3, <1>4, FS_AddElement
<1>6. ASSUME NEW p \in In
      PROVE  /\ p = Append(at, Last(p)) /\ Last(p) \in Name /\ IsPlainName(Last(p))
             /\ EntryOf(p).name = Last(p) /\ (NeedsWalking(EntryOf(p)) <=> d[p].kind = "dir")
  <2>1. p \in DOMAIN d /\ Front(p) = at
    OBVIOUS
  <2>2. p \in PlainPath /\ p \in Path /\ p # << >> /\ d[p].kind \in Kinds
    BY <2>1, InTree
  <2>3. p = Append(at, Last(p)) /\ Last(p) \in Name /\ Last(p) = p[Len(p)] /\ Len(p) \in 1 .. Len(p)
    BY <2>1, <2>2, FrontAndLast
  <2>4. IsPlainName(Last(p))
    BY <2>2, <2>3 DEF PlainPath
  <2>5. NeedsWalking(EntryOf(p)) <=> d[p].kind = "dir"
    <3>1. CASE d[p].kind = "link"
      BY <3>1 DEF NeedsWalking
    <3>2. CASE d[p].kind # "link"
      BY <3>2, <2>1, <2>2 DEF NeedsWalking, IsFolder
    <3> QED BY <3>1, <3>2
  <2> QED BY <2>3, <2>4, <2>5
<1> HIDE DEF EntryOf
<1>7. ASSUME NEW e \in ReadDir(d, path), e.name # ".."
      PROVE  \E p \in DOMAIN d :
                    /\ Front(p) = at /\ p = Append(at, e.name)
                    /\ e.name \in Name /\ IsPlainName(e.name)
                    /\ NeedsWalking(e) <=> d[p].kind = "dir"
  <2>1. e \in ReadFolder(d, path)
    BY <1>4, <1>7
  <2>2. PICK p \in In : e = EntryOf(p)
    BY <1>1, <2>1
  <2> QED BY <1>6, <2>2
<1>8. ASSUME NEW p \in DOMAIN d, Front(p) = at
      PROVE  \E e \in ReadDir(d, path) :
                    /\ e.name = Last(p) /\ p = Append(at, e.name)
                    /\ IsPlainName(e.name) /\ (NeedsWalking(e) <=> d[p].kind = "dir")
  <2>1. p \in In
    BY <1>8
  <2>2. EntryOf(p) \in ReadDir(d, path)
    BY <1>1, <1>4, <2>1
  <2> QED BY <1>6, <2>1, <2>2
<1> QED BY <1>5, <1>7, <1>8

-----------------------------------------------------------------------------
(* Two machines.                                                           *)

OnTarget(p) == Head(p) = Head(Target)
NoLinkAcross(d) == \A p \in DOMAIN d : d[p].kind = "link" => (OnTarget(p) <=> OnTarget(d[p].to))

LEMMA HeadIs ==
    /\ \A p \in Path : Head(p) = p[1]
    /\ \A p \in Path, x \in Name : p # << >> => Head(Append(p, x)) = Head(p)
<1>1. \A p \in Path : Head(p) = p[1]
  BY DEF Path
<1>2. ASSUME NEW p \in Path, NEW x \in Name, p # << >> PROVE Head(Append(p, x)) = Head(p)
  <2>1. Append(p, x) \in Path /\ \A n \in 1 .. Len(p) : Append(p, x)[n] = p[n]
    BY OneOn
  <2>2. Len(p) \in Nat /\ Len(p) > 0
    BY <1>2, FrontAndLast
  <2>3. 1 \in 1 .. Len(p)
    BY <2>2
  <2> QED BY <1>1, <2>1, <2>3
<1> QED BY <1>1, <1>2

LEMMA SameSide ==
    ASSUME NEW d, IsTree(d), NoLinkAcross(d), NEW p \in PlainPath, p # << >>, Canonical(d, p) # Nowhere
    PROVE  OnTarget(Canonical(d, p)) <=> OnTarget(p)
<1>0. p \in Path /\ Len(p) \in Nat /\ Len(p) > 0 /\ Up(p, Len(p)) = p
  <2>1. p \in Path
    BY DEF PlainPath
  <2> QED BY <2>1, FrontAndLast, UpTo
<1> DEFINE says(n) == Canonical(d, Up(p, n)) # Nowhere => (OnTarget(Canonical(d, Up(p, n))) <=> OnTarget(p))
           T == {m \in Nat : m + 1 <= Len(p) => says(m + 1)}
<1>1. ASSUME NEW n \in Nat, n < Len(p), n # 0 => says(n) PROVE says(n + 1)
  <2> DEFINE u == Up(p, n)
             x == p[n + 1]
             at == Canonical(d, u)
  <2>1. Up(p, n + 1) = Append(u, x) /\ x \in Name /\ u \in Path /\ Len(u) = n
    <3>1. n \in 0 .. Len(p)
      BY <1>0, <1>1
    <3> QED BY <1>0, <1>1, <3>1, UpStep, UpTo
  <2>2. n + 1 \in 1 .. Len(p)
    BY <1>0, <1>1
  <2>3. IsPlainName(x)
    BY <2>2 DEF PlainPath
  <2>4. Canonical(d, Up(p, n + 1)) = Enter(d, at, x)
    <3> HIDE DEF u, x
    <3> QED BY <2>1, CanonicalStep
  <2> SUFFICES ASSUME Enter(d, at, x) # Nowhere PROVE OnTarget(Enter(d, at, x)) <=> OnTarget(p)
    BY <2>4
  <2>5. IsFolder(d, at) /\ Append(at, x) \in DOMAIN d
        /\ Enter(d, at, x) = IF d[Append(at, x)].kind # "link" THEN Append(at, x) ELSE d[Append(at, x)].to
    <3> HIDE DEF at, x
    <3> QED BY <2>3, EnterIs
  <2>6. OnTarget(Append(at, x)) <=> OnTarget(p)
    <3>1. CASE n = 0
      <4>1. u = << >> /\ x = p[1]
        BY <1>0, <3>1, UpTo
      <4>2. at = << >>
        BY <4>1, CanonicalRoot
      <4>3. << >> \in Path /\ Append(<< >>, x) \in Path /\ Append(<< >>, x)[Len(<< >>) + 1] = x
        <5> HIDE DEF x
        <5> QED BY <2>1, FixedPaths, OneOn
      <4>4. Head(Append(<< >>, x)) = x
        <5> HIDE DEF x
        <5> QED BY <4>3, HeadIs, FixedPaths
      <4>5. Head(p) = p[1]
        BY <1>0, HeadIs
      <4> QED BY <4>1, <4>2, <4>4, <4>5 DEF OnTarget
    <3>2. CASE n # 0
      <4>1. u # << >> /\ u \in PlainPath
        <5>1. \A k \in 1 .. n : u[k] = p[k] /\ k \in 1 .. Len(p)
          <6>1. n \in 0 .. Len(p)
            BY <1>0, <1>1
          <6> QED BY <1>0, <6>1, UpTo
        <5>2. \A k \in 1 .. Len(u) : IsPlainName(u[k])
          BY <2>1, <5>1 DEF PlainPath
        <5> QED BY <2>1, <3>2, <5>2, FixedPaths DEF PlainPath
      <4> HIDE DEF u
      <4>2. at \in DOMAIN d \union {Nowhere}
        BY <4>1, LeadsIntoTree
      <4>3. at # Nowhere
        BY <2>5, InTree
      <4>4. at \in Path /\ at # << >>
        BY <4>2, <4>3, InTree
      <4>5. OnTarget(at) <=> OnTarget(p)
        BY <1>1, <3>2, <4>3 DEF u
      <4> HIDE DEF at, x
      <4>6. Head(Append(at, x)) = Head(at)
        BY <2>1, <4>4, HeadIs
      <4> QED BY <4>5, <4>6 DEF OnTarget
    <3> QED BY <3>1, <3>2
  <2> HIDE DEF at, x, u
  <2> QED BY <2>5, <2>6 DEF NoLinkAcross
<1> HIDE DEF says
<1>2. 0 \in T
  BY <1>0, <1>1
<1>3. ASSUME NEW m \in Nat, m \in T PROVE m + 1 \in T
  <2>1. ASSUME (m + 1) + 1 <= Len(p) PROVE says((m + 1) + 1)
    <3>1. m + 1 <= Len(p) /\ m + 1 \in Nat /\ m + 1 < Len(p)
      BY <1>0, <2>1
    <3>2. says(m + 1)
      BY <1>3, <3>1
    <3> QED BY <1>1, <3>1, <3>2
  <2> QED BY <2>1
<1> HIDE DEF T
<1>4. Nat \subseteq T
  BY <1>2, <1>3, SetInduction
<1>5. Len(p) - 1 \in Nat /\ (Len(p) - 1) + 1 = Len(p)
  BY <1>0
<1>6. says(Len(p))
  BY <1>0, <1>4, <1>5 DEF T
<1> QED BY <1>0, <1>6 DEF says

\* What a path names, and what is written by it.
LEMMA NamedIs ==
    ASSUME NEW d, IsTree(d), NEW q \in PlainPath, q # << >>, Named(d, q) # Nowhere
    PROVE  /\ Named(d, q) \in PlainPath /\ Named(d, q) # << >>
           /\ IsFolder(d, Canonical(d, Front(q))) /\ Named(d, q) = Append(Canonical(d, Front(q)), Last(q))
           /\ Front(Named(d, q)) = Canonical(d, Front(q)) /\ IsFolder(d, Front(Named(d, q)))
           /\ NoLinkAcross(d) => (OnTarget(Named(d, q)) <=> OnTarget(q))
<1> DEFINE up == Canonical(d, Front(q))
           l == Last(q)
<1>1. IsFolder(d, up) /\ Named(d, q) = Append(up, l)
  BY DEF Named
<1>2. /\ q \in Path /\ Front(q) \in Path /\ Len(q) \in Nat /\ Len(q) > 0 /\ l \in Name /\ l = q[Len(q)]
      /\ q = Append(Front(q), l) /\ \A n \in 1 .. (Len(q) - 1) : Front(q)[n] = q[n]
      /\ Len(Front(q)) = Len(q) - 1
  BY FrontAndLast DEF PlainPath
<1>3. IsPlainName(l) /\ Front(q) \in PlainPath
  BY <1>2 DEF PlainPath
<1>4. up \in PlainPath /\ up \in Path
  BY <1>1, InTree
<1> HIDE DEF l
<1>5. ASSUME NoLinkAcross(d) PROVE OnTarget(Append(up, l)) <=> OnTarget(q)
  <2>1. CASE Front(q) = << >>
    BY <1>2, <2>1, CanonicalRoot
  <2>2. CASE Front(q) # << >>
    <3>1. up \in DOMAIN d \union {Nowhere} /\ up # Nowhere
      BY <1>1, <1>3, <2>2, LeadsIntoTree, InTree
    <3>2. OnTarget(up) <=> OnTarget(Front(q))
      BY <1>3, <1>5, <2>2, <3>1, SameSide
    <3>3. up # << >>
      BY <3>1, InTree
    <3> HIDE DEF up
    <3>4. Head(Append(up, l)) = Head(up) /\ Head(Append(Front(q), l)) = Head(Front(q))
      BY <1>2, <1>4, <2>2, <3>3, HeadIs
    <3> QED BY <1>2, <3>2, <3>4 DEF OnTarget
  <2> QED BY <2>1, <2>2
<1> HIDE DEF up
<1>6. /\ Append(up, l) \in PlainPath /\ Append(up, l) # << >>
      /\ Front(Append(up, l)) = up
  BY <1>2, <1>3, <1>4, PlainOn, OneOn
<1> QED BY <1>1, <1>5, <1>6 DEF up, l

WrittenAt(d, q) == IF Named(d, q) \in DOMAIN d THEN Canonical(d, q) ELSE Named(d, q)

LEMMA WrittenIs ==
    ASSUME NEW d, IsTree(d), NEW q \in PlainPath, q # << >>,
           WrittenAt(d, q) # Nowhere, ~IsFolder(d, WrittenAt(d, q))
    PROVE  /\ WrittenAt(d, q) \in PlainPath \ {<< >>, Nowhere}
           /\ IsFolder(d, Front(WrittenAt(d, q)))
           /\ WrittenAt(d, q) \in DOMAIN d => d[WrittenAt(d, q)].kind # "dir"
           /\ NoLinkAcross(d) => (OnTarget(WrittenAt(d, q)) <=> OnTarget(q))
<1>1. CASE Named(d, q) \in DOMAIN d
  <2>1. WrittenAt(d, q) = Canonical(d, q)
    BY <1>1 DEF WrittenAt
  <2>2. Canonical(d, q) \in DOMAIN d
    BY <2>1, LeadsIntoTree
  <2> QED BY <2>1, <2>2, InTree, SameSide DEF IsFolder
<1>2. CASE Named(d, q) \notin DOMAIN d
  <2>1. WrittenAt(d, q) = Named(d, q)
    BY <1>2 DEF WrittenAt
  <2> QED BY <1>2, <2>1, NamedIs
<1> QED BY <1>1, <1>2

-----------------------------------------------------------------------------
(* The inductive invariant of every batch.                                 *)

BatchFlags ==
    /\ stage \in {"plan", "act", "over"}
    /\ stopped \in BOOLEAN /\ failed \in BOOLEAN /\ broken \in BOOLEAN
    /\ failed => stage = "over"
Plans == queue \in Seq(Jobs) /\ folders \in Seq(Jobs) /\ planned \subseteq Jobs

\* The files there are always form a tree, and no link is new.
StaysATree ==
    /\ IsTree(tree)
    /\ \A p \in DOMAIN tree : tree[p].kind = "link" => p \in DOMAIN start /\ tree[p] = start[p]

\* The file under way is there, on the side that is written to.
UnderWay ==
    /\ moving \in [to : Path, data : Path]
    /\ moving # NoFile =>
          /\ op # "delete" /\ moving.to \in DOMAIN tree /\ tree[moving.to].kind = "file"
          /\ ~near => OnTarget(moving.to)
    /\ stage = "over" /\ ~failed => moving = NoFile

\* Until something fails, only that file is in part.
InPartIsUnderWay ==
    ~failed =>
        /\ moving.data # InPart
        /\ \A p \in DOMAIN tree : tree[p].data = InPart => moving # NoFile /\ p = moving.to

\* A copy removes nothing, and between two machines leaves the other one alone.
CopiesKeep ==
    op # "delete" =>
        /\ DOMAIN start \subseteq DOMAIN tree \union theirs
        /\ ~near => \A p \in DOMAIN start \ theirs : ~OnTarget(p) => tree[p] = start[p]

BatchInv == BatchFixed /\ BatchFlags /\ Plans /\ StaysATree /\ UnderWay /\ InPartIsUnderWay /\ CopiesKeep

LEMMA FixedStays ==
    ASSUME BatchFixed, UNCHANGED batch
    PROVE  BatchFixed' /\ Jobs' = Jobs /\ OnScreen' = OnScreen
<1>1. OnScreen' = OnScreen
  BY DEF OnScreen, batch
<1>2. \A q : OnItsWay(q)' <=> OnItsWay(q)
  BY DEF OnItsWay, batch
<1>3. Jobs' = Jobs
  BY <1>2 DEF Jobs
<1>4. BatchFixed'
  BY <1>1 DEF BatchFixed, batch, TwoMachines
<1> QED BY <1>1, <1>3, <1>4

LEMMA StartIs ==
    ASSUME BatchFixed
    PROVE  /\ IsTree(start) /\ \A p \in DOMAIN start : start[p].data # InPart
           /\ OnScreen \in PlainPath /\ OnScreen \in Path
           /\ origin \in Path /\ into \in Path /\ Len(origin) \in Nat /\ Len(into) \in Nat /\ Len(OnScreen) \in Nat
<1>1. IsTree(start) /\ \A p \in DOMAIN start : start[p].data # InPart
  BY TransfersAssumption DEF BatchFixed
<1>2. OnScreen \in PlainPath /\ OnScreen \in Path
  BY <1>1, InTree DEF BatchFixed
<1> QED BY <1>1, <1>2, LenProperties DEF BatchFixed, PlainPath, Path

\* Between two machines no link leads across, then and now.
LEMMA NoneAcross ==
    ASSUME BatchFixed, StaysATree, ~near
    PROVE  NoLinkAcross(tree) /\ NoLinkAcross(start)
<1>1. NoLinkAcross(start)
  BY DEF BatchFixed, TwoMachines, NoLinkAcross, OnTarget
<1>2. NoLinkAcross(tree)
  BY <1>1 DEF StaysATree, NoLinkAcross
<1> QED BY <1>1, <1>2

LEMMA JobIs ==
    ASSUME BatchFixed, NEW q \in Jobs
    PROVE  /\ q \in [from : PlainPath, to : PlainPath]
           /\ q.from # << >> /\ q.to # << >> /\ q.from \in PlainPath /\ q.to \in PlainPath
           /\ q.from \in Path /\ q.to \in Path
           /\ Below(q.from, origin) /\ Len(q.from) > Len(origin) /\ Len(q.from) \in Nat
           /\ q.from[Len(origin) + 1] \in chosen
           /\ q.to = Moved(q.from, origin, into)
           /\ ~near => ~OnTarget(q.from) /\ OnTarget(q.to)
<1>0. Len(origin) \in Nat /\ Len(into) \in Nat /\ origin \in Path /\ into \in Path
  BY StartIs
<1>1. /\ q \in [from : Path, to : Path] /\ q.from \in PlainPath /\ q.to \in PlainPath
      /\ Below(q.from, origin) /\ Len(q.from) > Len(origin)
      /\ q.from[Len(origin) + 1] \in chosen
      /\ q.to = Moved(q.from, origin, into)
  BY DEF Jobs, OnItsWay
<1>2. q \in [from : PlainPath, to : PlainPath] /\ q.from \in Path /\ q.to \in Path
  BY <1>1 DEF PlainPath
<1>3. Len(q.from) \in Nat /\ Len(q.from) > 0 /\ q.from # << >>
  BY <1>0, <1>1, <1>2, LenProperties, FixedPaths DEF Path
<1>4. /\ Len(q.to) = Len(into) + (Len(q.from) - Len(origin))
      /\ \A k \in 1 .. Len(into) : q.to[k] = into[k]
  <2> DEFINE f == q.from
             t == q.to
  <2>1. f \in Path /\ Below(f, origin) /\ t = Moved(f, origin, into) /\ origin \in Path /\ into \in Path
    BY <1>0, <1>1, <1>2
  <2> HIDE DEF f, t
  <2>2. /\ Len(t) = Len(into) + (Len(f) - Len(origin))
        /\ \A k \in 1 .. Len(into) : t[k] = into[k]
    <3>1. /\ Len(Moved(f, origin, into)) = Len(into) + (Len(f) - Len(origin))
          /\ \A k \in 1 .. Len(into) : Moved(f, origin, into)[k] = into[k]
      <4>1. f \in Path /\ Below(f, origin) /\ origin \in Path /\ into \in Path
        BY <2>1
      <4> QED BY <4>1, MovedIs, ZenonT(60)
    <3> QED BY <2>1, <3>1
  <2> QED BY <2>2 DEF f, t
<1>5. q.to # << >>
  BY <1>0, <1>1, <1>3, <1>4, FixedPaths
<1>6. ASSUME ~near PROVE ~OnTarget(q.from) /\ OnTarget(q.to)
  <2>1. /\ into = Target /\ origin # << >> /\ into # << >> /\ Head(origin) # Head(Target)
    BY <1>6 DEF BatchFixed, TwoMachines
  <2>2. Len(origin) > 0 /\ Len(into) > 0
    BY <1>0, <2>1, FrontAndLast
  <2>3. q.from[1] = origin[1]
    <3>1. \A k \in 1 .. Len(origin) : q.from[k] = origin[k]
      BY <1>0, <1>1, <1>2, BelowUp
    <3> QED BY <1>0, <2>2, <3>1
  <2>4. q.to[1] = into[1]
    BY <1>0, <1>4, <2>2
  <2>5. Head(q.from) = q.from[1] /\ Head(origin) = origin[1] /\ Head(q.to) = q.to[1] /\ Head(into) = into[1]
    BY <1>0, <1>2, HeadIs
  <2> QED BY <2>1, <2>3, <2>4, <2>5 DEF OnTarget
<1> QED BY <1>1, <1>2, <1>3, <1>5, <1>6

\* What a directory of the batch holds is to be done by the batch.
LEMMA FoundIs ==
    ASSUME BatchFixed, StaysATree, NEW q \in Jobs, NEW S \in SUBSET ReadDir(tree, q.from),
           \A e \in S : IsPlainName(e.name)
    PROVE  /\ {Inside(q, e.name) : e \in S} \subseteq Jobs
           /\ IsFiniteSet({Inside(q, e.name) : e \in S})
<1>1. IsTree(tree)
  BY DEF StaysATree
<1>2. /\ IsFiniteSet(ReadDir(tree, q.from))
      /\ \A e \in ReadDir(tree, q.from) : e.name = ".." \/ (e.name \in Name /\ IsPlainName(e.name))
  BY <1>1, ListedIs
<1>3. \A e \in S : e.name \in Name /\ IsPlainName(e.name)
  BY <1>2 DEF IsPlainName
<1>4. \A e \in S : Inside(q, e.name) \in Jobs
  BY <1>3, JobIs, InsideIs
<1>5. IsFiniteSet(S)
  BY <1>2, FS_Subset
<1>6. IsFiniteSet({Inside(q, e.name) : e \in S})
  <2> DEFINE f == [e \in S |-> Inside(q, e.name)]
             R == {Inside(q, e.name) : e \in S}
  <2>1. DOMAIN f = S /\ (\A x \in S : f[x] \in R) /\ \A y \in R : \E x \in S : f[x] = y
    OBVIOUS
  <2> HIDE DEF f
  <2>2. IsFiniteSet(R)
    <3> HIDE DEF R
    <3> QED BY <1>5, <2>1, FiniteImage
  <2> QED BY <2>2
<1> QED BY <1>4, <1>6

LEMMA AllToDo ==
    ASSUME NEW S, IsFiniteSet(S), S \subseteq Jobs, NEW q \in Seq(Jobs)
    PROVE  /\ q \o SetToSeq(S) \in Seq(Jobs)
           /\ q # << >> => Tail(q) \in Seq(Jobs) /\ Head(q) \in Jobs /\ Tail(q) \o SetToSeq(S) \in Seq(Jobs)
<1>1. SetToSeq(S) \in Seq(S)
  BY InOrder
<1>2. SetToSeq(S) \in Seq(Jobs)
  BY <1>1
<1>3. q # << >> => Tail(q) \in Seq(Jobs) /\ Head(q) \in Jobs
  OBVIOUS
<1> QED BY <1>2, <1>3, ConcatProperties

-----------------------------------------------------------------------------
(* Every batch begins with it.                                             *)

LEMMA BatchBegins ==
    ASSUME TransferInit
    PROVE  BatchInv
<1>0. /\ op \in {"upload", "download", "delete"} /\ near \in BOOLEAN
      /\ start \in Disks /\ tree = start /\ origin \in Origins /\ IsFolder(start, OnScreen)
      /\ (~near => TwoMachines(start))
      /\ into \in (IF near /\ op # "delete" THEN {origin, Target} ELSE {Target})
      /\ chosen \in SUBSET {Last(p): p \in {p \in DOMAIN start: Front(p) = OnScreen}}
      /\ Began(start, chosen)
      /\ moving = NoFile /\ stage = "plan" /\ theirs = {}
      /\ stopped = FALSE /\ failed = FALSE /\ broken = FALSE
  BY DEF TransferInit
<1>1. IsTree(start) /\ \A p \in DOMAIN start : start[p].data # InPart
  BY <1>0, TransfersAssumption
<1>2. origin \in PlainPath /\ Target \in PlainPath
  BY <1>0, TransfersAssumption DEF PlainPath
<1>3. ASSUME NEW x \in chosen PROVE x \in Name /\ IsPlainName(x) /\ Append(OnScreen, x) \in DOMAIN start
  <2>1. PICK p \in DOMAIN start : Front(p) = OnScreen /\ x = Last(p)
    BY <1>0
  <2>2. p \in PlainPath /\ p \in Path /\ p # << >>
    BY <1>1, InTree
  <2>3. p = Append(OnScreen, x) /\ x \in Name /\ x = p[Len(p)] /\ Len(p) \in 1 .. Len(p)
    BY <2>1, <2>2, FrontAndLast
  <2> QED BY <2>2, <2>3 DEF PlainPath
<1>4. BatchFixed
  BY <1>0, <1>2, <1>3 DEF BatchFixed
<1>5. BatchFlags
  BY <1>0 DEF BatchFlags
<1>6. StaysATree
  BY <1>0, <1>1 DEF StaysATree
<1>7. UnderWay
  BY <1>0, FixedPaths DEF UnderWay, NoFile
<1>8. InPartIsUnderWay
  BY <1>0, <1>1, FixedPaths DEF InPartIsUnderWay, NoFile
<1>9. CopiesKeep
  BY <1>0 DEF CopiesKeep
<1>10. Plans
  <2> DEFINE entries == {e \in ReadDir(start, origin): e.name \in chosen}
             Items(S) == {Inside(Item(origin, into), e.name): e \in S}
             walks == Items({e \in entries: Walked(e)})
  <2>1. /\ queue = SetToSeq(walks)
        /\ folders = (IF op = "upload" THEN << >> ELSE SetToSeq(walks))
        /\ planned = Items({e \in entries: ~Walked(e)})
    BY <1>0, Zenon DEF Began
  <2>2. \A e \in entries : Inside(Item(origin, into), e.name) \in Jobs
    <3> SUFFICES ASSUME NEW e \in entries PROVE Inside(Item(origin, into), e.name) \in Jobs
      OBVIOUS
    <3>1. e.name \in chosen
      OBVIOUS
    <3>2. Item(origin, into) \in [from : PlainPath, to : PlainPath]
      BY <1>4 DEF BatchFixed, Item
    <3> QED BY <1>3, <1>4, <3>1, <3>2, InsideIs
  <2>3. IsFiniteSet({e \in entries: Walked(e)})
    <3>1. IsFiniteSet(ReadDir(start, origin))
      BY <1>1, ListedIs
    <3> QED BY <3>1, FS_Subset
  <2>4. IsFiniteSet(walks) /\ walks \subseteq Jobs
    <3> DEFINE W == {e \in entries: Walked(e)}
               f == [e \in W |-> Inside(Item(origin, into), e.name)]
    <3>1. DOMAIN f = W /\ (\A x \in W : f[x] \in walks) /\ \A y \in walks : \E x \in W : f[x] = y
      OBVIOUS
    <3>2. walks \subseteq Jobs
      BY <2>2
    <3> HIDE DEF f, walks, W
    <3> QED BY <2>3, <3>1, <3>2, FiniteImage DEF W
  <2>5. planned \subseteq Jobs
    BY <2>1, <2>2
  <2> HIDE DEF walks
  <2>6. SetToSeq(walks) \in Seq(walks)
    BY <2>4, InOrder
  <2>7. SetToSeq(walks) \in Seq(Jobs) /\ << >> \in Seq(Jobs)
    BY <2>4, <2>6
  <2> QED BY <2>1, <2>5, <2>7 DEF Plans
<1> QED BY <1>4, <1>5, <1>6, <1>7, <1>8, <1>9, <1>10 DEF BatchInv

-----------------------------------------------------------------------------
(* And every step keeps it.                                                *)

\* What only plans, or stops, leaves the files alone.
LEMMA FilesAlone ==
    ASSUME BatchInv, UNCHANGED <<tree, theirs, moving>>, UNCHANGED batch,
           failed' \in BOOLEAN, failed => failed', stage' = "over" /\ ~failed' => stage = "over" \/ moving = NoFile
    PROVE  StaysATree' /\ UnderWay' /\ InPartIsUnderWay' /\ CopiesKeep'
<1>1. StaysATree'
  BY DEF BatchInv, StaysATree, batch
<1>2. UnderWay'
  BY DEF BatchInv, UnderWay, BatchFlags, batch, OnTarget
<1>3. InPartIsUnderWay'
  BY DEF BatchInv, InPartIsUnderWay, BatchFlags
<1>4. CopiesKeep'
  BY DEF BatchInv, CopiesKeep, batch, OnTarget
<1> QED BY <1>1, <1>2, <1>3, <1>4

LEMMA UploadPlans ==
    ASSUME BatchInv, PlanUpload
    PROVE  BatchInv'
<1> DEFINE q == Head(queue)
           S == ReadDir(tree, q.from)
           R == {Inside(q, e.name) : e \in S}
<1>1. /\ stage = "plan" /\ op = "upload" /\ queue # << >>
      /\ UNCHANGED batch /\ UNCHANGED <<tree, theirs, moving, stage, stopped, failed>>
      /\ broken' \in {broken, TRUE}
      /\ queue' = Tail(queue) \/ queue' = Tail(queue) \o SetToSeq(R)
      /\ folders' = folders \/ folders' = Append(folders, q)
      /\ planned' \in {planned, planned \union {q}}
  BY DEF PlanUpload
<1>2. BatchFixed /\ StaysATree /\ BatchFlags /\ queue \in Seq(Jobs) /\ folders \in Seq(Jobs) /\ planned \subseteq Jobs
  BY DEF BatchInv, Plans
<1>3. q \in Jobs /\ Tail(queue) \in Seq(Jobs)
  BY <1>1, <1>2
<1>4. \A e \in S : IsPlainName(e.name)
  <2>1. IsTree(tree)
    BY <1>2 DEF StaysATree
  <2>2. \A e \in ReadFolder(tree, q.from) : e \in ReadDir(tree, q.from)
    BY DEF ReadDir
  <2>3. S = ReadFolder(tree, q.from)
    BY <1>1 DEF ReadDir
  <2>4. \A e \in S : \E p \in DOMAIN tree : e.name = Last(p)
    BY <2>3 DEF ReadFolder
  <2>5. \A p \in DOMAIN tree : IsPlainName(Last(p))
    <3> SUFFICES ASSUME NEW p \in DOMAIN tree PROVE IsPlainName(Last(p))
      OBVIOUS
    <3>1. p \in PlainPath /\ p \in Path /\ p # << >>
      BY <2>1, InTree
    <3>2. Last(p) = p[Len(p)] /\ Len(p) \in 1 .. Len(p)
      BY <3>1, FrontAndLast
    <3> QED BY <3>1, <3>2 DEF PlainPath
  <2> QED BY <2>4, <2>5
<1> HIDE DEF q
<1>5. R \subseteq Jobs /\ IsFiniteSet(R)
  BY <1>2, <1>3, <1>4, FoundIs
<1> HIDE DEF R, S
<1>6. queue' \in Seq(Jobs)
  BY <1>1, <1>2, <1>3, <1>5, AllToDo
<1>7. folders' \in Seq(Jobs) /\ planned' \subseteq Jobs
  BY <1>1, <1>2, <1>3
<1>8. BatchFixed' /\ Jobs' = Jobs
  BY <1>1, <1>2, FixedStays
<1>9. BatchFlags' /\ Plans'
  BY <1>1, <1>2, <1>6, <1>7, <1>8 DEF BatchFlags, Plans
<1>10. StaysATree' /\ UnderWay' /\ InPartIsUnderWay' /\ CopiesKeep'
  BY <1>1, <1>2, FilesAlone DEF BatchFlags
<1> QED BY <1>8, <1>9, <1>10 DEF BatchInv

LEMMA WalkPlans ==
    ASSUME BatchInv, stage = "plan", queue # << >>, NEW kept \in SUBSET Plain(Head(queue)),
           Walk(Head(queue), kept), UNCHANGED <<batch, tree, theirs, moving, stopped>>
    PROVE  BatchInv'
<1> DEFINE q == Head(queue)
           deep == {e \in Plain(q) : NeedsWalking(e)}
           R == {Inside(q, e.name) : e \in deep}
           K == {Inside(q, e.name) : e \in kept}
<1>1. \/ /\ queue' = Tail(queue) \o SetToSeq(R) /\ folders' = folders \o SetToSeq(R)
         /\ planned' = planned \union K
         /\ UNCHANGED <<stage, failed, broken>>
      \/ /\ failed' = TRUE /\ stage' = "over" /\ broken' \in BOOLEAN
         /\ UNCHANGED <<queue, folders, planned>>
  <2>1. broken \in BOOLEAN
    BY DEF BatchInv, BatchFlags
  <2> QED BY <2>1, Zenon DEF Walk, GiveUp
<1>2. BatchFixed /\ StaysATree /\ BatchFlags /\ queue \in Seq(Jobs) /\ folders \in Seq(Jobs) /\ planned \subseteq Jobs
  BY DEF BatchInv, Plans
<1>3. q \in Jobs
  BY <1>2
<1>4. Plain(q) \subseteq ReadDir(tree, q.from) /\ \A e \in Plain(q) : IsPlainName(e.name)
  BY DEF Plain
<1>5. deep \in SUBSET ReadDir(tree, q.from) /\ \A e \in deep : IsPlainName(e.name)
  BY <1>4
<1>6. kept \in SUBSET ReadDir(tree, q.from) /\ \A e \in kept : IsPlainName(e.name)
  BY <1>4
<1> HIDE DEF q, deep
<1>7. R \subseteq Jobs /\ IsFiniteSet(R)
  BY <1>2, <1>3, <1>5, FoundIs
<1>8. K \subseteq Jobs
  BY <1>2, <1>3, <1>6, FoundIs
<1> HIDE DEF R, K
<1>9. queue' \in Seq(Jobs) /\ folders' \in Seq(Jobs) /\ planned' \subseteq Jobs
  BY <1>1, <1>2, <1>7, <1>8, AllToDo
<1>10. BatchFixed' /\ Jobs' = Jobs
  BY <1>2, FixedStays
<1>11. BatchFlags' /\ Plans'
  <2>1. BatchFlags'
    <3>1. \/ stage' = stage /\ failed' = failed /\ broken' = broken
          \/ failed' = TRUE /\ stage' = "over" /\ broken' \in BOOLEAN
      BY <1>1
    <3>2. stopped' = stopped /\ BatchFlags
      BY <1>1, <1>2
    <3>3. CASE stage' = stage /\ failed' = failed /\ broken' = broken
      BY <3>2, <3>3 DEF BatchFlags
    <3>4. CASE failed' = TRUE /\ stage' = "over" /\ broken' \in BOOLEAN
      BY <3>2, <3>4 DEF BatchFlags
    <3> QED BY <3>1, <3>3, <3>4
  <2>2. Plans'
    BY <1>9, <1>10 DEF Plans
  <2> QED BY <2>1, <2>2
<1>12. StaysATree' /\ UnderWay' /\ InPartIsUnderWay' /\ CopiesKeep'
  BY <1>1, <1>2, FilesAlone DEF BatchFlags
<1> QED BY <1>10, <1>11, <1>12 DEF BatchInv

LEMMA FoldersAreMade ==
    ASSUME BatchInv, MakeFolder
    PROVE  BatchInv'
<1> DEFINE q == Head(folders)
           p == Named(tree, q.to)
           is == IsFolder(tree, Canonical(tree, q.to))
           free == p # Nowhere /\ p \notin DOMAIN tree
<1>1. /\ stage = "act" /\ op # "delete" /\ folders # << >>
      /\ \/ /\ is \/ free
            /\ tree' = (IF is THEN tree ELSE Placed(tree, p, Folder))
            /\ folders' = Tail(folders) /\ UNCHANGED <<stage, failed, broken>>
         \/ /\ failed' = TRUE /\ stage' = "over" /\ broken' = (broken \/ free)
            /\ UNCHANGED <<tree, folders>>
      /\ UNCHANGED <<batch, theirs, queue, planned, moving, stopped>>
  BY Zenon DEF MakeFolder, Copies, GiveUp
<1>2. BatchFixed /\ StaysATree /\ BatchFlags /\ queue \in Seq(Jobs) /\ folders \in Seq(Jobs) /\ planned \subseteq Jobs
  BY DEF BatchInv, Plans
<1>3. q \in Jobs /\ Tail(folders) \in Seq(Jobs)
  BY <1>1, <1>2
<1>4. BatchFixed' /\ Jobs' = Jobs
  BY <1>1, <1>2, FixedStays
<1>5. BatchFlags' /\ Plans'
  <2>1. BatchFlags'
    <3>1. \/ stage' = stage /\ failed' = failed /\ broken' = broken
          \/ failed' = TRUE /\ stage' = "over" /\ broken' \in BOOLEAN
      BY <1>1, <1>2 DEF BatchFlags
    <3>2. stopped' = stopped /\ BatchFlags
      BY <1>1, <1>2
    <3>3. CASE stage' = stage /\ failed' = failed /\ broken' = broken
      BY <3>2, <3>3 DEF BatchFlags
    <3>4. CASE failed' = TRUE /\ stage' = "over" /\ broken' \in BOOLEAN
      BY <3>2, <3>4 DEF BatchFlags
    <3> QED BY <3>1, <3>3, <3>4
  <2>2. Plans'
    BY <1>1, <1>2, <1>3, <1>4 DEF Plans
  <2> QED BY <2>1, <2>2
<1> HIDE DEF q
<1>6. CASE tree' = tree
  <2>1. StaysATree' /\ UnderWay' /\ InPartIsUnderWay' /\ CopiesKeep'
    <3>1. failed' \in BOOLEAN /\ (failed => failed')
      BY <1>1, <1>2 DEF BatchFlags
    <3>2. stage' = "over" /\ ~failed' => stage = "over" \/ moving = NoFile
      BY <1>1
    <3> QED BY <1>1, <1>6, <3>1, <3>2, FilesAlone
  <2> QED BY <1>4, <1>5, <2>1 DEF BatchInv
<1>7. CASE tree' # tree
  <2>1. /\ tree' = Placed(tree, p, Folder) /\ p # Nowhere /\ p \notin DOMAIN tree
        /\ UNCHANGED <<stage, failed>>
    BY <1>1, <1>7
  <2>2. /\ p \in PlainPath /\ p # << >> /\ IsFolder(tree, Front(p)) /\ IsTree(tree)
        /\ ~near => OnTarget(p)
    <3>1. IsTree(tree) /\ (~near => NoLinkAcross(tree))
      BY <1>2, NoneAcross DEF StaysATree
    <3>2. q.to \in PlainPath /\ q.to # << >> /\ (~near => OnTarget(q.to))
      BY <1>2, <1>3, JobIs
    <3> QED BY <2>1, <3>1, <3>2, NamedIs
  <2> HIDE DEF p, is, free
  <2>3. Folder \in Entry /\ Folder.kind = "dir" /\ Folder.data = << >>
    BY FixedPaths DEF Folder, Entry, Kinds
  <2>4. /\ DOMAIN tree' = DOMAIN tree \union {p} /\ tree'[p] = Folder
        /\ \A x \in DOMAIN tree : tree'[x] = tree[x]
    BY <2>1 DEF Placed
  <2>5. StaysATree'
    <3>1. IsTree(tree')
      BY <2>1, <2>2, <2>3, StillATree
    <3> QED BY <1>1, <1>2, <2>3, <2>4, <3>1 DEF StaysATree, batch
  <2>6. UnderWay'
    BY <1>1, <2>1, <2>4 DEF BatchInv, UnderWay, batch, OnTarget
  <2>7. InPartIsUnderWay'
    BY <1>1, <2>1, <2>3, <2>4, FixedPaths DEF BatchInv, InPartIsUnderWay
  <2>8. CopiesKeep'
    BY <1>1, <2>1, <2>2, <2>4 DEF BatchInv, CopiesKeep, batch, OnTarget
  <2> QED BY <1>4, <1>5, <2>5, <2>6, <2>7, <2>8 DEF BatchInv
<1> QED BY <1>6, <1>7

LEMMA FilesAreOpened ==
    ASSUME BatchInv, OpenFile
    PROVE  BatchInv'
<1>1. PICK f \in planned :
          LET from == Canonical(tree, f.from)
              to == WrittenAt(tree, f.to)
              reads == from # Nowhere /\ ~IsFolder(tree, from)
              writes == to # Nowhere /\ ~IsFolder(tree, to)
          IN /\ planned' = planned \ {f}
             /\ \/ /\ reads /\ writes /\ ~IsSameFile(from, to)
                   /\ tree' = Placed(tree, to, File(InPart))
                   /\ moving' = [to |-> to, data |-> IF to = from THEN InPart ELSE tree[from].data]
                   /\ UNCHANGED <<stage, failed, broken>>
                \/ /\ GiveUp /\ broken' = (broken \/ (reads /\ writes /\ ~IsSameFile(from, to)))
                   /\ UNCHANGED <<tree, moving>>
  BY Zenon DEF OpenFile, WrittenAt
<1> DEFINE from == Canonical(tree, f.from)
           to == WrittenAt(tree, f.to)
<1>2. /\ stage = "act" /\ op # "delete" /\ moving = NoFile
      /\ UNCHANGED <<batch, theirs, queue, folders, stopped>>
  BY DEF OpenFile, Copies
<1>3. BatchFixed /\ StaysATree /\ BatchFlags /\ queue \in Seq(Jobs) /\ folders \in Seq(Jobs) /\ planned \subseteq Jobs
  BY DEF BatchInv, Plans
<1>4. BatchFixed' /\ Jobs' = Jobs
  BY <1>2, <1>3, FixedStays
<1>5. planned' \subseteq Jobs /\ f \in Jobs /\ ~failed
  BY <1>1, <1>2, <1>3 DEF BatchFlags
<1>6. CASE failed' = TRUE /\ stage' = "over" /\ UNCHANGED <<tree, moving>> /\ broken' \in BOOLEAN
  <2>1. StaysATree' /\ UnderWay' /\ InPartIsUnderWay' /\ CopiesKeep'
    BY <1>2, <1>6, FilesAlone
  <2>2. BatchFlags' /\ Plans'
    BY <1>2, <1>3, <1>4, <1>5, <1>6 DEF BatchFlags, Plans
  <2> QED BY <1>4, <2>1, <2>2 DEF BatchInv
<1>7. CASE /\ from # Nowhere /\ ~IsFolder(tree, from) /\ to # Nowhere /\ ~IsFolder(tree, to)
           /\ ~IsSameFile(from, to)
           /\ tree' = Placed(tree, to, File(InPart))
           /\ moving' = [to |-> to, data |-> IF to = from THEN InPart ELSE tree[from].data]
           /\ UNCHANGED <<stage, failed, broken>>
  <2>1. IsTree(tree) /\ (~near => NoLinkAcross(tree))
    BY <1>3, NoneAcross DEF StaysATree
  <2>2. /\ f.to \in PlainPath /\ f.to # << >> /\ (~near => OnTarget(f.to))
        /\ f.from \in PlainPath /\ f.from # << >> /\ (~near => ~OnTarget(f.from))
    BY <1>3, <1>5, JobIs
  <2>3. /\ to \in PlainPath \ {<< >>, Nowhere} /\ IsFolder(tree, Front(to))
        /\ to \in DOMAIN tree => tree[to].kind # "dir"
        /\ ~near => OnTarget(to)
    BY <1>7, <2>1, <2>2, WrittenIs
  <2>4. from \in DOMAIN tree /\ (~near => ~OnTarget(from))
    BY <1>7, <2>1, <2>2, LeadsIntoTree, SameSide
  <2>5. to # from
    BY <1>7, <2>3, <2>4 DEF IsSameFile
  <2> HIDE DEF from, to
  <2>6. moving' = [to |-> to, data |-> tree[from].data]
    BY <1>7, <2>5
  <2>7. tree[from].data \in Path /\ tree[from].data # InPart
    <3>1. tree[from].data # InPart
      BY <1>2, <1>5, <2>4 DEF BatchInv, InPartIsUnderWay
    <3> QED BY <2>1, <2>4, <3>1, InTree
  <2>8. File(InPart) \in Entry /\ File(InPart).kind = "file"
    BY FixedPaths DEF File, Entry, Kinds
  <2>9. /\ DOMAIN tree' = DOMAIN tree \union {to} /\ tree'[to] = File(InPart)
        /\ \A x \in DOMAIN tree : x # to => tree'[x] = tree[x]
    BY <1>7 DEF Placed
  <2>10. to \in Path /\ to # Nowhere
    BY <2>3 DEF PlainPath
  <2>11. moving' # NoFile /\ moving'.to = to /\ moving'.data = tree[from].data /\ moving' \in [to : Path, data : Path]
    BY <2>6, <2>7, <2>10 DEF NoFile
  <2>12. StaysATree'
    <3>1. IsTree(tree')
      BY <1>7, <2>1, <2>3, <2>8, StillATree
    <3> QED BY <1>2, <1>3, <2>8, <2>9, <3>1 DEF StaysATree, batch
  <2>13. UnderWay'
    BY <1>2, <1>7, <2>3, <2>8, <2>9, <2>11 DEF UnderWay, batch, OnTarget
  <2>14. InPartIsUnderWay'
    <3>1. \A x \in DOMAIN tree : tree[x].data # InPart
      BY <1>2, <1>5 DEF BatchInv, InPartIsUnderWay
    <3> QED BY <2>7, <2>9, <2>11, <3>1 DEF InPartIsUnderWay
  <2>15. CopiesKeep'
    <3>1. /\ DOMAIN start \subseteq DOMAIN tree \union theirs
          /\ ~near => \A p \in DOMAIN start \ theirs : ~OnTarget(p) => tree[p] = start[p]
      BY <1>2 DEF BatchInv, CopiesKeep
    <3>2. DOMAIN start \subseteq DOMAIN tree' \union theirs
      BY <2>9, <3>1
    <3>3. ASSUME ~near, NEW p \in DOMAIN start \ theirs, ~OnTarget(p) PROVE tree'[p] = start[p]
      BY <2>3, <2>9, <3>1, <3>3
    <3> QED BY <1>2, <3>2, <3>3 DEF CopiesKeep, batch, OnTarget
  <2>16. BatchFlags' /\ Plans'
    BY <1>2, <1>3, <1>4, <1>5, <1>7 DEF BatchFlags, Plans
  <2> QED BY <1>4, <2>12, <2>13, <2>14, <2>15, <2>16 DEF BatchInv
<1>8. broken \in BOOLEAN
  BY <1>3 DEF BatchFlags
<1> QED BY <1>1, <1>6, <1>7, <1>8 DEF GiveUp

LEMMA BytesAreMoved ==
    ASSUME BatchInv, MoveBytes
    PROVE  BatchInv'
<1>1. /\ moving # NoFile /\ moving' = NoFile
      /\ UNCHANGED <<batch, theirs, queue, folders, planned, stopped>>
      /\ \/ /\ tree' = Placed(tree, moving.to, File(moving.data))
            /\ UNCHANGED <<stage, failed, broken>>
         \/ failed' = TRUE /\ stage' = "over" /\ broken' = TRUE /\ UNCHANGED tree
  BY DEF MoveBytes, GiveUp
<1>2. BatchFixed /\ StaysATree /\ BatchFlags /\ Plans /\ UnderWay
  BY DEF BatchInv
<1>3. BatchFixed' /\ Jobs' = Jobs
  BY <1>1, <1>2, FixedStays
<1>4. BatchFlags' /\ Plans'
  <2>1. BatchFlags'
    <3>1. \/ stage' = stage /\ failed' = failed /\ broken' = broken
          \/ failed' = TRUE /\ stage' = "over" /\ broken' \in BOOLEAN
      BY <1>1
    <3>2. stopped' = stopped /\ BatchFlags
      BY <1>1, <1>2
    <3>3. CASE stage' = stage /\ failed' = failed /\ broken' = broken
      BY <3>2, <3>3 DEF BatchFlags
    <3>4. CASE failed' = TRUE /\ stage' = "over" /\ broken' \in BOOLEAN
      BY <3>2, <3>4 DEF BatchFlags
    <3> QED BY <3>1, <3>3, <3>4
  <2>2. Plans'
    BY <1>1, <1>2, <1>3 DEF Plans
  <2> QED BY <2>1, <2>2
<1>5. UnderWay'
  BY <1>1, FixedPaths DEF UnderWay, NoFile
<1>6. /\ moving.to \in DOMAIN tree /\ tree[moving.to].kind = "file" /\ op # "delete"
      /\ moving.data \in Path /\ (~near => OnTarget(moving.to))
  BY <1>1, <1>2 DEF UnderWay
<1>7. CASE tree' = tree /\ failed'
  <2>1. StaysATree' /\ CopiesKeep'
    BY <1>1, <1>7 DEF BatchInv, StaysATree, CopiesKeep, batch, OnTarget
  <2>2. InPartIsUnderWay'
    BY <1>7 DEF InPartIsUnderWay
  <2> QED BY <1>3, <1>4, <1>5, <2>1, <2>2 DEF BatchInv
<1>8. CASE tree' = Placed(tree, moving.to, File(moving.data)) /\ UNCHANGED <<stage, failed, broken>>
  <2> DEFINE to == moving.to
             e == File(moving.data)
  <2>1. e \in Entry /\ e.kind = "file" /\ e.data = moving.data
    BY <1>6, FixedPaths DEF File, Entry, Kinds
  <2> HIDE DEF e
  <2>2. IsTree(tree) /\ to \in PlainPath \ {<< >>, Nowhere} /\ IsFolder(tree, Front(to)) /\ tree[to].kind # "dir"
    <3>1. IsTree(tree)
      BY <1>2 DEF StaysATree
    <3>2. to \in DOMAIN tree /\ tree[to].kind # "dir"
      BY <1>6
    <3> HIDE DEF to
    <3> QED BY <3>1, <3>2, InTree
  <2>3. /\ DOMAIN tree' = DOMAIN tree /\ tree'[to] = e
        /\ \A x \in DOMAIN tree : x # to => tree'[x] = tree[x]
    <3>1. tree' = Placed(tree, to, e) /\ to \in DOMAIN tree
      BY <1>6, <1>8 DEF e
    <3> HIDE DEF to
    <3>2. DOMAIN tree' = DOMAIN tree \union {to} /\ tree'[to] = e
          /\ \A x \in DOMAIN tree : x # to => tree'[x] = tree[x]
      BY <3>1 DEF Placed
    <3> QED BY <3>1, <3>2
  <2>4. StaysATree'
    <3>1. IsTree(tree')
      <4>1. tree' = Placed(tree, to, e)
        BY <1>8 DEF e
      <4> HIDE DEF to
      <4> QED BY <2>1, <2>2, <4>1, StillATree
    <3> QED BY <1>1, <1>2, <2>1, <2>3, <3>1 DEF StaysATree, batch
  <2>5. InPartIsUnderWay'
    <3>1. ASSUME ~failed, NEW x \in DOMAIN tree' PROVE tree'[x].data # InPart
      BY <2>1, <2>3, <3>1 DEF BatchInv, InPartIsUnderWay
    <3>2. NoFile.data # InPart
      BY FixedPaths DEF NoFile
    <3> QED BY <1>1, <1>8, <3>1, <3>2 DEF InPartIsUnderWay
  <2>6. CopiesKeep'
    BY <1>1, <1>6, <2>3 DEF BatchInv, CopiesKeep, batch, OnTarget
  <2> QED BY <1>3, <1>4, <1>5, <2>4, <2>5, <2>6 DEF BatchInv
<1> QED BY <1>1, <1>7, <1>8

LEMMA OneIsTaken ==
    ASSUME NEW S, NEW s \in Seq(S), NEW p, \A i, j \in 1 .. Len(s) : s[i] = s[j] => i = j
    PROVE  /\ ~ (\E i \in 1 .. Len(s) : s[i] = p) => RemoveFirst(s, p) = s
           /\ \A i \in 1 .. Len(s) : s[i] = p =>
                 /\ RemoveFirst(s, p) \in Seq(S) /\ Len(RemoveFirst(s, p)) = Len(s) - 1
                 /\ \A j \in 1 .. (Len(s) - 1) : RemoveFirst(s, p)[j] = IF j < i THEN s[j] ELSE s[j + 1]
<1>1. ~ (\E i \in 1 .. Len(s) : s[i] = p) => RemoveFirst(s, p) = s
  BY DEF RemoveFirst
<1>2. ASSUME NEW i \in 1 .. Len(s), s[i] = p
      PROVE  /\ RemoveFirst(s, p) \in Seq(S) /\ Len(RemoveFirst(s, p)) = Len(s) - 1
             /\ \A j \in 1 .. (Len(s) - 1) : RemoveFirst(s, p)[j] = IF j < i THEN s[j] ELSE s[j + 1]
  <2>1. {k \in 1 .. Len(s) : s[k] = p} = {i}
    BY <1>2
  <2>2. Min({i}) = i
    BY DEF Min
  <2>3. SelectInSeq(s, LAMBDA v : v = p) = i
    BY <2>1, <2>2 DEF SelectInSeq
  <2>4. RemoveFirst(s, p) = RemoveAt(s, i)
    BY <1>2, <2>3 DEF RemoveFirst
  <2> DEFINE a == SubSeq(s, 1, i - 1)
             b == SubSeq(s, i + 1, Len(s))
  <2>5. Len(s) \in Nat /\ \A j \in 1 .. Len(s) : s[j] \in S
    BY LenProperties
  <2>6. a \in Seq(S) /\ Len(a) = i - 1 /\ \A j \in 1 .. (i - 1) : a[j] = s[j]
    <3>1. \A j \in 1 .. (i - 1) : s[j] \in S
      BY <2>5
    <3>2. /\ a \in Seq(S) /\ Len(a) = IF 1 <= i - 1 THEN (i - 1) - 1 + 1 ELSE 0
          /\ \A j \in 1 .. ((i - 1) - 1 + 1) : a[j] = s[1 + j - 1]
      BY <2>5, <3>1, SubSeqProperties
    <3> QED BY <2>5, <3>2
  <2>7. b \in Seq(S) /\ Len(b) = Len(s) - i /\ \A j \in 1 .. (Len(s) - i) : b[j] = s[i + j]
    <3>1. \A j \in (i + 1) .. Len(s) : s[j] \in S
      BY <2>5
    <3>2. /\ b \in Seq(S) /\ Len(b) = IF i + 1 <= Len(s) THEN Len(s) - (i + 1) + 1 ELSE 0
          /\ \A j \in 1 .. (Len(s) - (i + 1) + 1) : b[j] = s[(i + 1) + j - 1]
      BY <2>5, <3>1, SubSeqProperties
    <3> QED BY <2>5, <3>2
  <2> HIDE DEF a, b
  <2>8. /\ a \o b \in Seq(S) /\ Len(a \o b) = Len(a) + Len(b)
        /\ \A j \in 1 .. (Len(a) + Len(b)) : (a \o b)[j] = IF j <= Len(a) THEN a[j] ELSE b[j - Len(a)]
    <3>1. a \in Seq(S) /\ b \in Seq(S)
      BY <2>6, <2>7
    <3> QED BY <3>1, ConcatProperties
  <2>9. RemoveFirst(s, p) = a \o b
    BY <2>4 DEF RemoveAt, a, b
  <2>10. ASSUME NEW j \in 1 .. (Len(s) - 1) PROVE (a \o b)[j] = IF j < i THEN s[j] ELSE s[j + 1]
    <3>1. CASE j < i
      BY <2>5, <2>6, <2>7, <2>8, <3>1
    <3>2. CASE j >= i
      <4>1. j - (i - 1) \in 1 .. (Len(s) - i) /\ i + (j - (i - 1)) = j + 1
        BY <2>5, <3>2
      <4>2. b[j - (i - 1)] = s[j + 1]
        BY <2>7, <4>1
      <4>3. (a \o b)[j] = b[j - (i - 1)]
        BY <2>5, <2>6, <2>7, <2>8, <3>2
      <4> QED BY <3>2, <4>2, <4>3
    <3>3. j \in Nat /\ i \in Nat /\ (j < i \/ j >= i)
      BY <2>5
    <3> QED BY <3>1, <3>2, <3>3
  <2> QED BY <2>5, <2>6, <2>7, <2>8, <2>9, <2>10
<1> QED BY <1>1, <1>2

LEMMA OthersKeepIt ==
    ASSUME BatchInv, OthersChange
    PROVE  BatchInv'
<1>1. UNCHANGED <<batch, queue, folders, planned, moving, stage, stopped, failed, broken>>
  BY DEF OthersChange
<1>2. BatchFixed /\ StaysATree /\ BatchFlags /\ Plans /\ IsTree(tree)
  BY DEF BatchInv, StaysATree
<1>3. BatchFixed' /\ Jobs' = Jobs
  BY <1>1, <1>2, FixedStays
<1>4. BatchFlags' /\ Plans'
  <2>1. BatchFlags'
    BY <1>1, <1>2 DEF BatchFlags
  <2>2. Plans'
    BY <1>1, <1>2, <1>3 DEF Plans
  <2> QED BY <2>1, <2>2
<1>5. CASE \E at \in {p \in DOMAIN tree: tree[p].kind = "dir"}:
             LET p == Append(at, "late")
             IN /\ p \notin DOMAIN tree
                /\ tree' = Placed(tree, p, File(p)) /\ theirs' = theirs \union {p}
  <2>1. PICK at \in DOMAIN tree :
             /\ tree[at].kind = "dir" /\ Append(at, "late") \notin DOMAIN tree
             /\ tree' = Placed(tree, Append(at, "late"), File(Append(at, "late")))
             /\ theirs' = theirs \union {Append(at, "late")}
    BY <1>5
  <2> DEFINE p == Append(at, "late")
             e == File(p)
  <2>2. at \in PlainPath /\ at \in Path /\ at # << >> /\ "late" \in Name /\ IsPlainName("late")
    BY <1>2, InTree, FixedPaths
  <2>3. p \in PlainPath /\ p \in Path /\ p # << >> /\ Front(p) = at /\ Len(p) = Len(at) + 1 /\ Len(at) > 0
        /\ Len(at) \in Nat
    BY <2>2, PlainOn, OneOn, FrontAndLast
  <2> HIDE DEF p
  <2>4. p # Nowhere /\ p # InPart
    <3>1. Len(p) # 1
      BY <2>3
    <3> QED BY <3>1, FixedPaths
  <2>5. e \in Entry /\ e.kind = "file" /\ e.data = p
    BY <2>3, FixedPaths DEF File, Entry, Kinds
  <2> HIDE DEF e
  <2>6. tree' = Placed(tree, p, e) /\ theirs' = theirs \union {p} /\ p \notin DOMAIN tree
    BY <2>1 DEF p, e
  <2>7. /\ DOMAIN tree' = DOMAIN tree \union {p} /\ tree'[p] = e
        /\ \A x \in DOMAIN tree : tree'[x] = tree[x]
    BY <2>6 DEF Placed
  <2>8. StaysATree'
    <3>1. IsFolder(tree, Front(p))
      BY <2>1, <2>3 DEF IsFolder
    <3>2. IsTree(tree')
      BY <1>2, <2>3, <2>4, <2>5, <2>6, <3>1, StillATree
    <3> QED BY <1>1, <1>2, <2>5, <2>7, <3>2 DEF StaysATree, batch
  <2>9. UnderWay'
    BY <1>1, <2>7 DEF BatchInv, UnderWay, batch, OnTarget
  <2>10. InPartIsUnderWay'
    BY <1>1, <2>4, <2>5, <2>7 DEF BatchInv, InPartIsUnderWay
  <2>11. CopiesKeep'
    BY <1>1, <2>6, <2>7 DEF BatchInv, CopiesKeep, batch, OnTarget
  <2> QED BY <1>3, <1>4, <2>8, <2>9, <2>10, <2>11 DEF BatchInv
<1>6. CASE \E p \in DOMAIN tree:
             /\ tree[p].kind # "dir" /\ p # moving.to
             /\ tree' = Removed(tree, p) /\ theirs' = theirs \union {p}
  <2>1. PICK p \in DOMAIN tree :
             /\ tree[p].kind # "dir" /\ p # moving.to
             /\ tree' = Removed(tree, p) /\ theirs' = theirs \union {p}
    BY <1>6
  <2>2. /\ DOMAIN tree' = DOMAIN tree \ {p}
        /\ \A x \in DOMAIN tree : x # p => tree'[x] = tree[x]
    BY <2>1 DEF Removed
  <2>3. StaysATree'
    <3>1. IsTree(tree')
      BY <1>2, <2>1, StillATree
    <3> QED BY <1>1, <1>2, <2>2, <3>1 DEF StaysATree, batch
  <2>4. UnderWay'
    BY <1>1, <2>1, <2>2 DEF BatchInv, UnderWay, batch, OnTarget
  <2>5. InPartIsUnderWay'
    BY <1>1, <2>1, <2>2 DEF BatchInv, InPartIsUnderWay
  <2>6. CopiesKeep'
    BY <1>1, <2>1, <2>2 DEF BatchInv, CopiesKeep, batch, OnTarget
  <2> QED BY <1>3, <1>4, <2>3, <2>4, <2>5, <2>6 DEF BatchInv
<1> QED BY <1>5, <1>6 DEF OthersChange

LEMMA StagesKeepIt ==
    ASSUME BatchInv, PlanDone \/ Finish \/ StopBatch \/ UNCHANGED transferVars
    PROVE  BatchInv'
<1>1. /\ UNCHANGED <<batch, tree, theirs, queue, folders, planned, moving, failed, broken>>
      /\ stage' \in {"plan", "act", "over"} /\ stopped' \in BOOLEAN
      /\ stage' = "over" => stage = "over" \/ moving = NoFile
      /\ failed => stage' = "over"
  BY DEF PlanDone, Finish, StopBatch, transferVars, batch, BatchInv, BatchFlags
<1>2. BatchFixed' /\ Jobs' = Jobs
  BY <1>1, FixedStays DEF BatchInv
<1>3. BatchFlags'
  BY <1>1 DEF BatchInv, BatchFlags
<1>4. Plans'
  BY <1>1, <1>2 DEF BatchInv, Plans
<1>5. StaysATree' /\ UnderWay' /\ InPartIsUnderWay' /\ CopiesKeep'
  BY <1>1, <1>3, FilesAlone DEF BatchInv, BatchFlags
<1> QED BY <1>2, <1>3, <1>4, <1>5 DEF BatchInv

-----------------------------------------------------------------------------
(* The inductive invariant of a deletion.                                  *)

\* Where the entry is that is to be done.
Place(q) == Moved(q.from, origin, OnScreen)

\* Nothing is there but what was, or what others made in its place, and while the
\* batch plans its directories stay.
OldOrTheirs ==
    /\ \A p \in DOMAIN tree : (p \in DOMAIN start /\ tree[p] = start[p]) \/ tree[p].kind = "file"
    /\ theirs = {} => \A p \in DOMAIN tree : p \in DOMAIN start /\ tree[p] = start[p]
    /\ stage = "plan" => \A p \in DOMAIN start : start[p].kind = "dir" => p \in DOMAIN tree /\ tree[p] = start[p]
    /\ stage = "plan" /\ theirs = {} => DOMAIN start \subseteq DOMAIN tree
    /\ \A p \in DOMAIN start \ DOMAIN tree : p \in theirs \/ Asked(p)

\* Directories are planned as such, and all else by its own name.
PlannedAsIs ==
    /\ \A i \in 1 .. Len(folders) :
          Place(folders[i]) \in DOMAIN start /\ start[Place(folders[i])].kind = "dir"
    /\ \A f \in planned :
          /\ IsFolder(start, Front(Place(f)))
          /\ Place(f) \in DOMAIN start => start[Place(f)].kind # "dir"

WalkedSoFar == Len(folders) - Len(queue)

\* The queue is what is left to walk of the directories, each of them once, and a
\* directory comes after the one it is in.
EachOnce ==
    /\ Len(queue) <= Len(folders)
    /\ \A k \in 1 .. Len(queue) : queue[k] = folders[WalkedSoFar + k]
    /\ stage # "plan" /\ ~failed => queue = << >>
    /\ \A i, j \in 1 .. Len(folders) : folders[i].from = folders[j].from => i = j
    /\ \A i \in 1 .. Len(folders) :
          \/ Len(folders[i].from) = Len(origin) + 1
          \/ \E j \in 1 .. (i - 1) : j <= WalkedSoFar /\ folders[j].from = Front(folders[i].from)

\* What is left of what was asked is planned, or in a directory yet to be walked.
Covered ==
    theirs = {} /\ ~failed =>
        \A p \in DOMAIN tree : Asked(p) =>
            \/ \E f \in planned : Place(f) = p
            \/ \E i \in 1 .. Len(folders) : Place(folders[i]) = p
            \/ \E k \in 1 .. Len(queue) : Below(p, Place(queue[k])) /\ p # Place(queue[k])

\* And what is planned is there.
Present ==
    theirs = {} /\ ~failed =>
        /\ \A f \in planned : Place(f) \in DOMAIN tree
        /\ \A i \in 1 .. Len(folders) : Place(folders[i]) \in DOMAIN tree

Ends ==
    /\ failed => broken \/ theirs # {} \/ ~LeadsPast
    /\ stage = "over" /\ ~failed => stopped \/ (planned = {} /\ folders = << >>)

DeletionInv == OldOrTheirs /\ PlannedAsIs /\ EachOnce /\ Covered /\ Present /\ Ends

-----------------------------------------------------------------------------
(* Places.                                                                 *)

LEMMA AskedIs ==
    ASSUME BatchFixed, NEW p \in Path
    PROVE  Asked(p) <=> /\ Len(p) > Len(OnScreen) /\ Below(p, OnScreen) /\ p[Len(OnScreen) + 1] \in chosen
<1>0. /\ OnScreen \in Path /\ Len(OnScreen) \in Nat /\ Len(p) \in Nat
      /\ \A x \in chosen : x \in Name
  BY StartIs, LenProperties DEF BatchFixed, Path
<1>1. ASSUME NEW x \in chosen
      PROVE  Below(p, Append(OnScreen, x)) <=> Len(p) > Len(OnScreen) /\ Below(p, OnScreen) /\ p[Len(OnScreen) + 1] = x
  <2> DEFINE a == Append(OnScreen, x)
  <2>1. /\ a \in Path /\ Len(a) = Len(OnScreen) + 1 /\ a[Len(OnScreen) + 1] = x
        /\ \A n \in 1 .. Len(OnScreen) : a[n] = OnScreen[n] /\ \A k \in 0 .. Len(OnScreen) : Up(a, k) = Up(OnScreen, k)
    BY <1>0, OneOn
  <2> HIDE DEF a
  <2>2. Below(p, a) <=> Len(a) <= Len(p) /\ Up(p, Len(a)) = a
    BY <2>1, BelowUp
  <2>3. Below(p, OnScreen) <=> Len(OnScreen) <= Len(p) /\ Up(p, Len(OnScreen)) = OnScreen
    BY <1>0, BelowUp
  <2>4. ASSUME Below(p, a) PROVE Len(p) > Len(OnScreen) /\ Below(p, OnScreen) /\ p[Len(OnScreen) + 1] = x
    <3>1. Len(p) > Len(OnScreen)
      BY <1>0, <2>1, <2>2, <2>4
    <3>2. \A k \in 1 .. Len(a) : p[k] = a[k]
      BY <2>1, <2>4, BelowUp
    <3>3. p[Len(OnScreen) + 1] = x
      BY <1>0, <2>1, <3>2
    <3>4. Up(p, Len(OnScreen)) = OnScreen
      <4>1. Len(OnScreen) \in 0 .. Len(p)
        BY <1>0, <3>1
      <4>2. Up(p, Len(OnScreen)) \in Path /\ Len(Up(p, Len(OnScreen))) = Len(OnScreen)
            /\ \A k \in 1 .. Len(OnScreen) : Up(p, Len(OnScreen))[k] = p[k]
        BY <4>1, UpTo
      <4>3. \A k \in 1 .. Len(OnScreen) : p[k] = OnScreen[k]
        BY <1>0, <2>1, <3>2
      <4> QED BY <1>0, <4>2, <4>3, SamePath
    <3> QED BY <1>0, <2>3, <3>1, <3>3, <3>4
  <2>5. ASSUME Len(p) > Len(OnScreen), Below(p, OnScreen), p[Len(OnScreen) + 1] = x PROVE Below(p, a)
    <3>1. Up(p, Len(OnScreen) + 1) = Append(Up(p, Len(OnScreen)), p[Len(OnScreen) + 1])
      BY <1>0, <2>5, UpStep
    <3>2. Up(p, Len(a)) = a
      BY <1>0, <2>1, <2>3, <2>5, <3>1 DEF a
    <3> QED BY <1>0, <2>1, <2>2, <2>5, <3>2
  <2> QED BY <2>4, <2>5 DEF a
<1> QED BY <1>1 DEF Asked

LEMMA PlaceIs ==
    ASSUME BatchFixed, NEW q \in Jobs
    PROVE  /\ Place(q) \in Path /\ Below(Place(q), OnScreen) /\ Place(q) # << >>
           /\ Len(Place(q)) = Len(OnScreen) + (Len(q.from) - Len(origin))
           /\ Asked(Place(q))
           /\ Front(q.from) \in PlainPath /\ Front(q.from) \in Path /\ Below(Front(q.from), origin)
           /\ Len(Front(q.from)) = Len(q.from) - 1
           /\ Front(Place(q)) = Moved(Front(q.from), origin, OnScreen)
           /\ Last(Place(q)) = Last(q.from) /\ Place(q) = Append(Front(Place(q)), Last(q.from))
           /\ Moved(Place(q), OnScreen, origin) = q.from
<1> DEFINE f == q.from
           c == Place(q)
<1>0. /\ OnScreen \in Path /\ origin \in Path
      /\ Len(origin) \in Nat /\ Len(OnScreen) \in Nat
  BY StartIs
<1>1. /\ f \in PlainPath /\ f \in Path /\ f # << >> /\ Below(f, origin) /\ Len(f) > Len(origin) /\ Len(f) \in Nat
      /\ f[Len(origin) + 1] \in chosen
  BY JobIs
<1>2. c = Moved(f, origin, OnScreen)
  BY DEF Place
<1> HIDE DEF f, c
<1>3. /\ c \in Path /\ Len(c) = Len(OnScreen) + (Len(f) - Len(origin))
      /\ \A k \in 1 .. (Len(f) - Len(origin)) : c[Len(OnScreen) + k] = f[Len(origin) + k]
  <2>1. /\ Moved(f, origin, OnScreen) \in Path
        /\ Len(Moved(f, origin, OnScreen)) = Len(OnScreen) + (Len(f) - Len(origin))
        /\ \A k \in 1 .. (Len(f) - Len(origin)) : Moved(f, origin, OnScreen)[Len(OnScreen) + k] = f[Len(origin) + k]
    BY <1>0, <1>1, MovedIs, ZenonT(60)
  <2> QED BY <1>2, <2>1
<1>4. Below(c, OnScreen) /\ Moved(c, OnScreen, origin) = f
  BY <1>0, <1>1, <1>2, MovedBelow
<1>5. Len(c) > Len(OnScreen) /\ c # << >>
  BY <1>0, <1>1, <1>3, FixedPaths
<1>6. Asked(c)
  <2>1. c[Len(OnScreen) + 1] = f[Len(origin) + 1]
    <3>1. 1 \in 1 .. (Len(f) - Len(origin))
      BY <1>0, <1>1
    <3> QED BY <1>3, <3>1
  <2> QED BY <1>1, <1>3, <1>4, <1>5, <2>1, AskedIs
<1>7. /\ Front(f) \in Path /\ Len(Front(f)) = Len(f) - 1 /\ Front(f) = Up(f, Len(f) - 1)
      /\ Last(f) \in Name /\ f = Append(Front(f), Last(f))
      /\ \A n \in 1 .. (Len(f) - 1) : Front(f)[n] = f[n]
  BY <1>1, FrontAndLast
<1>8. Front(f) \in PlainPath
  BY <1>1, <1>7 DEF PlainPath
<1>9. Below(Front(f), origin)
  <2>1. Len(f) - 1 \in Len(origin) .. Len(f)
    BY <1>0, <1>1
  <2> QED BY <1>0, <1>1, <1>7, <2>1, BelowUp
<1> DEFINE g == Front(f)
           l == Last(f)
<1> HIDE DEF g, l
<1>10. Moved(Append(g, l), origin, OnScreen) = Append(Moved(g, origin, OnScreen), l) /\ Moved(g, origin, OnScreen) \in Path
  <2>1. g \in Path /\ l \in Name /\ Below(g, origin)
    BY <1>7, <1>9 DEF g, l
  <2> QED BY <1>0, <2>1, MovedOn, MovedIs
<1>11. c = Append(Moved(g, origin, OnScreen), l) /\ l \in Name
  BY <1>2, <1>7, <1>10 DEF g, l
<1>12. Front(c) = Moved(g, origin, OnScreen) /\ Last(c) = l
  BY <1>10, <1>11, OneOn
<1> QED BY <1>1, <1>3, <1>4, <1>5, <1>6, <1>7, <1>8, <1>9, <1>11, <1>12 DEF f, c, g, l

LEMMA SameJob ==
    ASSUME BatchFixed, NEW q \in Jobs, NEW r \in Jobs
    PROVE  /\ Place(q) = Place(r) => q.from = r.from
           /\ q.from = r.from => q = r
<1>1. ASSUME Place(q) = Place(r) PROVE q.from = r.from
  BY <1>1, PlaceIs
<1>2. ASSUME q.from = r.from PROVE q = r
  <2>1. q \in [from : Path, to : Path] /\ r \in [from : Path, to : Path] /\ q.to = r.to
    BY <1>2 DEF Jobs, OnItsWay
  <2> QED BY <1>2, <2>1
<1> QED BY <1>1, <1>2

LEMMA PlaceInside ==
    ASSUME BatchFixed, NEW q \in Jobs, NEW x \in Name, IsPlainName(x)
    PROVE  /\ Inside(q, x) \in Jobs /\ Place(Inside(q, x)) = Append(Place(q), x)
           /\ Inside(q, x).from = Append(q.from, x) /\ Front(Inside(q, x).from) = q.from
           /\ Len(Inside(q, x).from) = Len(q.from) + 1
<1>1. q.from \in Path /\ Below(q.from, origin) /\ origin \in Path /\ OnScreen \in Path
  BY JobIs, StartIs
<1>2. Inside(q, x) \in Jobs /\ Inside(q, x).from = Append(q.from, x) /\ Len(Inside(q, x).from) = Len(q.from) + 1
  BY JobIs, InsideIs
<1> DEFINE f == q.from
<1>3. Front(Append(f, x)) = f /\ Moved(Append(f, x), origin, OnScreen) = Append(Moved(f, origin, OnScreen), x)
  <2>1. f \in Path /\ Below(f, origin)
    BY <1>1
  <2> HIDE DEF f
  <2> QED BY <1>1, <2>1, OneOn, MovedOn
<1> QED BY <1>2, <1>3 DEF Place

-----------------------------------------------------------------------------
(* Where the paths of a deletion lead.                                     *)

\* If a path still leads to a directory, then to the one it led to.
LEMMA WayKept ==
    ASSUME BatchFixed, StaysATree, OldOrTheirs, NEW p \in PlainPath, IsFolder(tree, Canonical(tree, p))
    PROVE  Canonical(tree, p) = Canonical(start, p)
<1>0. /\ p \in Path /\ Len(p) \in Nat /\ Up(p, Len(p)) = p /\ IsTree(tree)
      /\ \A x \in DOMAIN tree : (x \in DOMAIN start /\ tree[x] = start[x]) \/ tree[x].kind = "file"
  <2>1. p \in Path
    BY DEF PlainPath
  <2> QED BY <2>1, LenProperties, UpTo DEF Path, StaysATree, OldOrTheirs
<1> DEFINE T == {n \in Nat : n <= Len(p) => Canonical(tree, Up(p, n)) = Canonical(start, Up(p, n))}
<1>1. 0 \in T
  <2>1. Up(p, 0) = << >>
    BY <1>0, UpTo
  <2> QED BY <2>1, CanonicalRoot
<1>2. ASSUME NEW n \in Nat, n \in T PROVE n + 1 \in T
  <2> SUFFICES ASSUME n + 1 <= Len(p)
               PROVE  Canonical(tree, Up(p, n + 1)) = Canonical(start, Up(p, n + 1))
    OBVIOUS
  <2> DEFINE u == Up(p, n)
             x == p[n + 1]
             at == Canonical(tree, u)
  <2>1. n < Len(p) /\ n \in 0 .. Len(p) /\ n + 1 \in 0 .. Len(p) /\ n + 1 \in 1 .. Len(p)
    BY <1>0
  <2>2. Up(p, n + 1) = Append(u, x) /\ x \in Name /\ u \in Path
    BY <1>0, <2>1, UpStep, UpTo
  <2>3. IsPlainName(x)
    BY <2>1 DEF PlainPath
  <2>4. Canonical(start, u) = at
    BY <1>2, <2>1
  <2>5. IsFolder(tree, at) /\ IsFolder(tree, Canonical(tree, Up(p, n + 1)))
    BY <1>0, <2>1, FoldersOnTheWay
  <2> HIDE DEF u, x
  <2>6. /\ Canonical(tree, Append(u, x)) = Enter(tree, at, x)
        /\ Canonical(start, Append(u, x)) = Enter(start, at, x)
    BY <2>2, <2>4, CanonicalStep
  <2> HIDE DEF at
  <2>7. \A y : IsFolder(tree, y) => IsFolder(start, y)
    BY <1>0 DEF IsFolder
  <2> DEFINE y == Append(at, x)
  <2>8. /\ Enter(tree, at, x) = IF y \notin DOMAIN tree THEN Nowhere
                                ELSE IF tree[y].kind # "link" THEN y
                                ELSE IF tree[y].to \in DOMAIN tree THEN tree[y].to ELSE Nowhere
        /\ Enter(start, at, x) = IF y \notin DOMAIN start THEN Nowhere
                                 ELSE IF start[y].kind # "link" THEN y
                                 ELSE IF start[y].to \in DOMAIN start THEN start[y].to ELSE Nowhere
    BY <2>3, <2>5, <2>7, EnterIs
  <2>9. IsFolder(tree, Enter(tree, at, x)) /\ ~IsFolder(tree, Nowhere)
    BY <1>0, <2>2, <2>5, <2>6, InTree
  <2>10. y # << >>
    <3>1. at \in Path
      BY <1>0, <2>5, InTree
    <3> QED BY <2>2, <3>1, OneOn
  <2> HIDE DEF y
  <2>11. y \in DOMAIN tree /\ y \in DOMAIN start /\ tree[y] = start[y]
    <3>1. y \in DOMAIN tree
      BY <2>8, <2>9
    <3>2. tree[y].kind # "file"
      BY <2>8, <2>9, <2>10, <3>1 DEF IsFolder
    <3> QED BY <1>0, <3>1, <3>2
  <2>12. CASE tree[y].kind # "link"
    BY <2>2, <2>6, <2>8, <2>11, <2>12
  <2>13. CASE tree[y].kind = "link"
    <3>1. tree[y].to \in DOMAIN tree /\ IsFolder(tree, tree[y].to)
      BY <2>8, <2>9, <2>11, <2>13
    <3>2. tree[y].to # << >>
      BY <1>0, <3>1, InTree
    <3>3. tree[y].to \in DOMAIN start
      BY <1>0, <3>1, <3>2 DEF IsFolder
    <3> QED BY <2>2, <2>6, <2>8, <2>11, <2>13, <3>1, <3>3
  <2> QED BY <2>12, <2>13
<1> HIDE DEF T
<1>3. Nat \subseteq T
  BY <1>1, <1>2, SetInduction
<1>4. Canonical(tree, Up(p, Len(p))) = Canonical(start, Up(p, Len(p)))
  BY <1>0, <1>3 DEF T
<1> QED BY <1>0, <1>4

\* And below the directory on screen, where its names say.
LEMMA LedBelow ==
    ASSUME BatchFixed, StaysATree, OldOrTheirs, NEW u \in PlainPath, Below(u, origin),
           IsFolder(start, Moved(u, origin, OnScreen)), IsFolder(tree, Canonical(tree, u))
    PROVE  Canonical(tree, u) = Moved(u, origin, OnScreen)
<1>0. /\ OnScreen \in Path /\ origin \in Path /\ origin \in PlainPath /\ Len(origin) \in Nat /\ Len(OnScreen) \in Nat
      /\ u \in Path /\ Len(u) \in Nat /\ Len(origin) <= Len(u) /\ IsTree(start) /\ IsTree(tree)
      /\ \A x \in DOMAIN tree : (x \in DOMAIN start /\ tree[x] = start[x]) \/ tree[x].kind = "file"
  BY StartIs, LenProperties DEF BatchFixed, PlainPath, Path, Below, StaysATree, OldOrTheirs
<1>1. IsFolder(tree, Canonical(tree, origin)) => Canonical(tree, origin) = OnScreen
  BY <1>0, WayKept DEF OnScreen
<1>2. ASSUME NEW n \in (Len(origin) + 1) .. Len(u), Moved(Up(u, n), origin, OnScreen) \in DOMAIN tree
      PROVE  tree[Moved(Up(u, n), origin, OnScreen)].kind # "link"
  <2> DEFINE c == Moved(u, origin, OnScreen)
             m == Len(OnScreen) + (n - Len(origin))
  <2>1. n \in Nat /\ Len(origin) <= n /\ n <= Len(u)
    BY <1>0
  <2>2. Moved(Up(u, n), origin, OnScreen) = Up(c, m)
    BY <1>0, <2>1, MovedUp
  <2>3. c \in Path /\ Len(c) = Len(OnScreen) + (Len(u) - Len(origin))
    BY <1>0, MovedIs
  <2>4. c # << >> /\ c \in DOMAIN start /\ start[c].kind = "dir"
    <3>1. c # << >>
      BY <1>0, <2>3, FixedPaths
    <3> QED BY <3>1 DEF IsFolder
  <2>5. m \in 1 .. Len(c)
    BY <1>0, <2>3
  <2> HIDE DEF c, m
  <2>6. Up(c, m) \in DOMAIN start /\ start[Up(c, m)].kind = "dir"
    <3>1. CASE m = Len(c)
      <4>1. Up(c, m) = c
        BY <2>3, <3>1, UpTo
      <4> QED BY <2>4, <4>1
    <3>2. CASE m # Len(c)
      <4>1. m \in 1 .. (Len(c) - 1)
        BY <2>5, <3>2
      <4> QED BY <1>0, <2>4, <4>1, FoldersAbove
    <3> QED BY <3>1, <3>2
  <2> QED BY <1>0, <1>2, <2>2, <2>6
<1> QED BY <1>0, <1>1, <1>2, LeadsStraight

\* What a planned entry names, if it is there, is at its place.
LEMMA NamesItsPlace ==
    ASSUME BatchFixed, StaysATree, OldOrTheirs, NEW q \in Jobs, IsFolder(start, Front(Place(q))),
           Named(tree, q.from) \in DOMAIN tree
    PROVE  Named(tree, q.from) = Place(q)
<1>1. IsTree(tree) /\ q.from \in PlainPath /\ q.from # << >>
  BY JobIs DEF StaysATree
<1>2. Named(tree, q.from) # Nowhere
  BY <1>1, InTree
<1>3. /\ IsFolder(tree, Canonical(tree, Front(q.from)))
      /\ Named(tree, q.from) = Append(Canonical(tree, Front(q.from)), Last(q.from))
  BY <1>1, <1>2, NamedIs
<1>4. /\ Front(q.from) \in PlainPath /\ Below(Front(q.from), origin)
      /\ Front(Place(q)) = Moved(Front(q.from), origin, OnScreen)
      /\ Place(q) = Append(Front(Place(q)), Last(q.from))
  BY PlaceIs
<1>5. Canonical(tree, Front(q.from)) = Moved(Front(q.from), origin, OnScreen)
  BY <1>3, <1>4, LedBelow
<1> QED BY <1>3, <1>4, <1>5

\* As long as the way to the directory on screen does not lead through what was asked,
\* it stays; and what is there is reached.
LEMMA WayStays ==
    ASSUME BatchFixed, StaysATree, OldOrTheirs, theirs = {}, LeadsPast
    PROVE  Canonical(tree, origin) = OnScreen /\ IsFolder(tree, OnScreen)
<1>0. /\ origin \in PlainPath /\ origin \in Path /\ Len(origin) \in Nat /\ Up(origin, Len(origin)) = origin
      /\ IsTree(tree) /\ IsTree(start) /\ IsFolder(start, OnScreen)
      /\ \A x \in DOMAIN tree : x \in DOMAIN start /\ tree[x] = start[x]
      /\ \A x \in DOMAIN start : ~Asked(x) => x \in DOMAIN tree
  <2>1. origin \in PlainPath /\ origin \in Path /\ Len(origin) \in Nat /\ IsFolder(start, OnScreen)
    BY StartIs DEF BatchFixed
  <2> QED BY <2>1, StartIs, UpTo DEF StaysATree, OldOrTheirs
<1> DEFINE at(n) == Canonical(start, Up(origin, n))
           T == {n \in Nat : n <= Len(origin) => Canonical(tree, Up(origin, n)) = at(n) /\ IsFolder(tree, at(n))}
<1>1. 0 \in T
  <2>1. Up(origin, 0) = << >>
    BY <1>0, UpTo
  <2> QED BY <2>1, CanonicalRoot DEF IsFolder
<1>2. ASSUME NEW n \in Nat, n \in T PROVE n + 1 \in T
  <2> SUFFICES ASSUME n + 1 <= Len(origin)
               PROVE  Canonical(tree, Up(origin, n + 1)) = at(n + 1) /\ IsFolder(tree, at(n + 1))
    OBVIOUS
  <2> DEFINE u == Up(origin, n)
             v == Up(origin, n + 1)
             x == origin[n + 1]
             c == at(n)
             y == Append(c, x)
  <2>1. n < Len(origin) /\ n \in 0 .. Len(origin) /\ n + 1 \in 0 .. Len(origin) /\ n + 1 \in 1 .. Len(origin)
    BY <1>0
  <2>2. v = Append(u, x) /\ x \in Name /\ u \in Path /\ v \in Path
    BY <1>0, <2>1, UpStep, UpTo
  <2>3. IsPlainName(x)
    BY <1>0, <2>1 DEF PlainPath
  <2>4. Canonical(tree, u) = c /\ IsFolder(tree, c) /\ IsFolder(start, c) /\ IsFolder(start, at(n + 1))
    <3>1. Canonical(tree, u) = c /\ IsFolder(tree, c)
      BY <1>2, <2>1
    <3>2. IsFolder(start, Canonical(start, origin))
      BY <1>0 DEF OnScreen
    <3>3. IsFolder(start, c) /\ IsFolder(start, at(n + 1))
      BY <1>0, <2>1, <3>2, FoldersOnTheWay
    <3> QED BY <3>1, <3>3
  <2>5. ~Asked(Named(start, v)) /\ ~Asked(Canonical(start, v))
    BY <2>1 DEF LeadsPast, Up
  <2>6. Front(v) = u /\ Last(v) = x
    <3> HIDE DEF u, x, v
    <3> QED BY <2>2, OneOn
  <2>7. Named(start, v) = y
    BY <2>4, <2>6 DEF Named
  <2>8. Canonical(tree, v) = Enter(tree, c, x) /\ Canonical(start, v) = Enter(start, c, x)
    <3>1. Canonical(start, u) = c
      OBVIOUS
    <3> HIDE DEF u, x, v, c
    <3> QED BY <2>2, <2>4, <3>1, CanonicalStep
  <2>9. c \in Path /\ y # << >>
    <3>1. c \in Path
      BY <1>0, <2>4, InTree
    <3> HIDE DEF c, x
    <3> QED BY <2>2, <3>1, OneOn
  <2>10. at(n + 1) = Enter(start, c, x)
    BY <2>8
  <2> HIDE DEF u, v, x, c, at
  <2>11. /\ Enter(tree, c, x) = IF y \notin DOMAIN tree THEN Nowhere
                                ELSE IF tree[y].kind # "link" THEN y
                                ELSE IF tree[y].to \in DOMAIN tree THEN tree[y].to ELSE Nowhere
         /\ Enter(start, c, x) = IF y \notin DOMAIN start THEN Nowhere
                                 ELSE IF start[y].kind # "link" THEN y
                                 ELSE IF start[y].to \in DOMAIN start THEN start[y].to ELSE Nowhere
    BY <2>3, <2>4, EnterIs
  <2> HIDE DEF y
  <2>12. IsFolder(start, Enter(start, c, x)) /\ ~IsFolder(start, Nowhere)
    BY <1>0, <2>4, <2>10, InTree
  <2>13. y \in DOMAIN start /\ y \in DOMAIN tree /\ tree[y] = start[y]
    <3>1. y \in DOMAIN start
      BY <2>11, <2>12
    <3>2. ~Asked(y)
      BY <2>5, <2>7
    <3> QED BY <1>0, <3>1, <3>2
  <2>14. ~Asked(Enter(start, c, x))
    BY <2>5, <2>8
  <2>15. Enter(tree, c, x) = Enter(start, c, x)
    <3>1. CASE start[y].kind # "link"
      BY <2>11, <2>13, <3>1
    <3>2. CASE start[y].kind = "link"
      <4>1. start[y].to \in DOMAIN start /\ Enter(start, c, x) = start[y].to
        BY <2>11, <2>12, <2>13, <3>2
      <4>2. start[y].to \in DOMAIN tree
        BY <1>0, <2>14, <4>1
      <4> QED BY <2>11, <2>13, <3>2, <4>1, <4>2
    <3> QED BY <3>1, <3>2
  <2>16. IsFolder(tree, Enter(start, c, x))
    <3>1. CASE Enter(start, c, x) = << >>
      BY <3>1 DEF IsFolder
    <3>2. CASE Enter(start, c, x) # << >>
      <4>1. Enter(start, c, x) \in DOMAIN start /\ start[Enter(start, c, x)].kind = "dir"
        BY <2>12, <3>2 DEF IsFolder
      <4>2. Enter(start, c, x) \in DOMAIN tree
        BY <1>0, <2>14, <4>1
      <4> QED BY <1>0, <4>1, <4>2 DEF IsFolder
    <3> QED BY <3>1, <3>2
  <2> QED BY <2>8, <2>10, <2>15, <2>16 DEF v
<1> HIDE DEF T
<1>3. Nat \subseteq T
  BY <1>1, <1>2, SetInduction
<1>4. Canonical(tree, Up(origin, Len(origin))) = at(Len(origin)) /\ IsFolder(tree, at(Len(origin)))
  BY <1>0, <1>3 DEF T
<1> QED BY <1>0, <1>4 DEF OnScreen

\* What is there is reached by the names it was asked by.
LEMMA Reached ==
    ASSUME BatchFixed, StaysATree, Canonical(tree, origin) = OnScreen, IsFolder(tree, OnScreen),
           NEW u \in PlainPath, Below(u, origin), IsFolder(tree, Moved(u, origin, OnScreen))
    PROVE  Canonical(tree, u) = Moved(u, origin, OnScreen)
<1>0. /\ OnScreen \in Path /\ origin \in Path /\ Len(origin) \in Nat /\ Len(OnScreen) \in Nat /\ IsTree(tree)
      /\ u \in Path /\ Len(u) \in Nat /\ Len(origin) <= Len(u)
  BY StartIs, LenProperties DEF PlainPath, Path, Below, StaysATree
<1>1. CASE u = origin
  <2>1. Moved(origin, origin, OnScreen) = OnScreen
    BY <1>0, BelowUp, MovedBelow
  <2> QED BY <1>1, <2>1
<1>2. CASE u # origin
  <2> DEFINE c == Moved(u, origin, OnScreen)
  <2>1. c \in Path /\ Len(c) = Len(OnScreen) + (Len(u) - Len(origin))
    BY <1>0, MovedIs
  <2>2. Len(u) # Len(origin)
    BY <1>0, <1>2, BelowUp, UpTo
  <2>3. c # << >>
    BY <1>0, <2>1, <2>2, FixedPaths
  <2>4. c \in DOMAIN tree /\ tree[c].kind # "link"
    BY <2>3 DEF IsFolder
  <2> QED BY <1>0, <1>2, <2>4, LeadsThere
<1> QED BY <1>1, <1>2

LEMMA NamedThere ==
    ASSUME BatchFixed, StaysATree, Canonical(tree, origin) = OnScreen, IsFolder(tree, OnScreen),
           NEW q \in Jobs, Place(q) \in DOMAIN tree
    PROVE  Named(tree, q.from) = Place(q)
<1>1. /\ Front(q.from) \in PlainPath /\ Below(Front(q.from), origin)
      /\ Front(Place(q)) = Moved(Front(q.from), origin, OnScreen)
      /\ Place(q) = Append(Front(Place(q)), Last(q.from))
  BY PlaceIs
<1>2. IsFolder(tree, Front(Place(q)))
  BY InTree DEF StaysATree
<1>3. Canonical(tree, Front(q.from)) = Front(Place(q))
  BY <1>1, <1>2, Reached
<1> QED BY <1>1, <1>2, <1>3 DEF Named

-----------------------------------------------------------------------------
(* A deletion begins with its invariant, and planning keeps it.            *)

LEMMA Joined ==
    ASSUME NEW S, NEW s \in Seq(S), NEW t \in Seq(S)
    PROVE  /\ s \o t \in Seq(S) /\ Len(s \o t) = Len(s) + Len(t) /\ Len(s) \in Nat /\ Len(t) \in Nat
           /\ \A i \in 1 .. Len(s) : (s \o t)[i] = s[i]
           /\ \A i \in 1 .. Len(t) : (s \o t)[Len(s) + i] = t[i]
           /\ \A i \in 1 .. (Len(s) + Len(t)) : i \in 1 .. Len(s) \/ \E j \in 1 .. Len(t) : i = Len(s) + j
<1>1. /\ s \o t \in Seq(S) /\ Len(s \o t) = Len(s) + Len(t)
      /\ \A i \in 1 .. (Len(s) + Len(t)) : (s \o t)[i] = IF i <= Len(s) THEN s[i] ELSE t[i - Len(s)]
  BY ConcatProperties
<1>2. Len(s) \in Nat /\ Len(t) \in Nat
  BY LenProperties
<1>3. \A i \in 1 .. Len(s) : (s \o t)[i] = s[i]
  BY <1>1, <1>2
<1>4. \A i \in 1 .. Len(t) : (s \o t)[Len(s) + i] = t[i]
  BY <1>1, <1>2
<1>5. ASSUME NEW i \in 1 .. (Len(s) + Len(t)), i \notin 1 .. Len(s) PROVE \E j \in 1 .. Len(t) : i = Len(s) + j
  <2>1. i - Len(s) \in 1 .. Len(t) /\ i = Len(s) + (i - Len(s))
    BY <1>2, <1>5
  <2> QED BY <2>1
<1> QED BY <1>1, <1>2, <1>3, <1>4, <1>5

LEMMA Rest ==
    ASSUME NEW S, NEW s \in Seq(S), s # << >>
    PROVE  /\ Head(s) \in S /\ Head(s) = s[1] /\ Tail(s) \in Seq(S) /\ Len(Tail(s)) = Len(s) - 1
           /\ Len(s) \in Nat /\ Len(s) > 0
           /\ \A i \in 1 .. (Len(s) - 1) : Tail(s)[i] = s[i + 1]
<1>1. Len(s) \in Nat /\ Len(s) > 0
  BY LenProperties, EmptySeq
<1>2. Head(s) \in S /\ Head(s) = s[1] /\ Tail(s) \in Seq(S)
  OBVIOUS
<1>3. Len(Tail(s)) = Len(s) - 1 /\ \A i \in 1 .. (Len(s) - 1) : Tail(s)[i] = s[i + 1]
  BY <1>1
<1> QED BY <1>1, <1>2, <1>3

\* What is in a directory of a tree is one of its entries or below one of them.
LEMMA OneBelow ==
    ASSUME NEW d, IsTree(d), NEW p \in DOMAIN d, NEW a \in Path, Below(p, a), p # a
    PROVE  /\ a # << >> => a \in DOMAIN d /\ d[a].kind = "dir"
           /\ \E c \in DOMAIN d : /\ Front(c) = a /\ Below(p, c) /\ c \in Path
                                  /\ p # c => d[c].kind = "dir"
<1>0. p \in Path /\ Len(p) \in Nat /\ Len(a) \in Nat /\ Len(a) <= Len(p) /\ Up(p, Len(a)) = a /\ Up(p, Len(p)) = p
  BY InTree, LenProperties, BelowUp, UpTo DEF Path
<1>1. Len(a) < Len(p)
  BY <1>0
<1>2. ASSUME a # << >> PROVE a \in DOMAIN d /\ d[a].kind = "dir"
  <2>1. Len(a) \in 1 .. (Len(p) - 1)
    BY <1>0, <1>1, <1>2, FrontAndLast
  <2> QED BY <1>0, <2>1, FoldersAbove
<1> DEFINE n == Len(a) + 1
           c == Up(p, n)
<1>3. n \in 1 .. Len(p) /\ n \in 0 .. Len(p) /\ Len(a) \in 0 .. n
  BY <1>0, <1>1
<1>4. c \in Path /\ Len(c) = n /\ Up(c, Len(a)) = a
  BY <1>0, <1>3, UpTo
<1>5. Below(p, c)
  <2>1. Len(c) <= Len(p) /\ Up(p, Len(c)) = c
    BY <1>0, <1>3, <1>4
  <2> HIDE DEF c, n
  <2> QED BY <1>0, <1>4, <2>1, BelowUp
<1>6. c \in DOMAIN d /\ (p # c => d[c].kind = "dir")
  <2>1. CASE n = Len(p)
    BY <1>0, <2>1
  <2>2. CASE n # Len(p)
    <3>1. n \in 1 .. (Len(p) - 1)
      BY <1>0, <1>3, <2>2
    <3> QED BY <3>1, FoldersAbove
  <2> QED BY <2>1, <2>2
<1> HIDE DEF c
<1>7. Front(c) = a
  <2>1. c # << >>
    BY <1>6, InTree
  <2> HIDE DEF n
  <2>2. Front(c) = Up(c, Len(c) - 1)
    BY <1>4, <2>1, FrontAndLast
  <2> QED BY <1>0, <1>4, <2>2 DEF n
<1> QED BY <1>2, <1>4, <1>5, <1>6, <1>7

LEMMA DeletionBegins ==
    ASSUME TransferInit, op = "delete"
    PROVE  DeletionInv
<1>0. /\ tree = start /\ Began(start, chosen) /\ stage = "plan" /\ theirs = {} /\ failed = FALSE
  BY DEF TransferInit
<1>a. BatchInv
  BY BatchBegins
<1>b. /\ BatchFixed /\ IsTree(start) /\ OnScreen \in Path /\ origin \in Path /\ Len(origin) \in Nat
      /\ \A x \in chosen : x \in Name /\ IsPlainName(x) /\ Append(OnScreen, x) \in DOMAIN start
      /\ queue \in Seq(Jobs) /\ folders \in Seq(Jobs) /\ planned \subseteq Jobs
  BY <1>a, StartIs DEF BatchInv, BatchFixed, Plans
<1> DEFINE entries == {e \in ReadDir(start, origin): e.name \in chosen}
           q0 == Item(origin, into)
           Items(S) == {Inside(q0, e.name): e \in S}
           walks == Items({e \in entries: NeedsWalking(e)})
<1>1. queue = SetToSeq(walks) /\ folders = SetToSeq(walks) /\ planned = Items({e \in entries: ~NeedsWalking(e)})
  <2>1. \A e : Walked(e) <=> NeedsWalking(e)
    BY DEF Walked
  <2> QED BY <1>0, <2>1, Zenon DEF Began
<1>2. ASSUME NEW x \in chosen
      PROVE  /\ Inside(q0, x) \in Jobs /\ Inside(q0, x).from = Append(origin, x)
             /\ Len(Inside(q0, x).from) = Len(origin) + 1
             /\ Place(Inside(q0, x)) = Append(OnScreen, x) /\ Front(Append(OnScreen, x)) = OnScreen /\ Last(Append(OnScreen, x)) = x
  <2>1. q0 \in [from : PlainPath, to : PlainPath] /\ q0.from = origin
    BY <1>b DEF BatchFixed, Item
  <2>2. Inside(q0, x) \in Jobs /\ Inside(q0, x).from = Append(origin, x) /\ Len(Inside(q0, x).from) = Len(origin) + 1
    <3> HIDE DEF q0
    <3>1. Inside(q0, x) \in Jobs /\ Inside(q0, x).from = Append(q0.from, x) /\ Len(Inside(q0, x).from) = Len(q0.from) + 1
      BY <1>b, <2>1, InsideIs DEF q0
    <3> QED BY <2>1, <3>1
  <2>3. Moved(Append(origin, x), origin, OnScreen) = Append(Moved(origin, origin, OnScreen), x)
    BY <1>b, BelowUp, MovedOn
  <2>4. Moved(origin, origin, OnScreen) = OnScreen
    BY <1>b, BelowUp, MovedBelow
  <2> QED BY <1>b, <2>2, <2>3, <2>4, OneOn DEF Place
<1>3. ASSUME NEW e \in entries
      PROVE  /\ e.name \in chosen /\ Append(OnScreen, e.name) \in DOMAIN start
             /\ NeedsWalking(e) <=> start[Append(OnScreen, e.name)].kind = "dir"
  <2>1. e.name \in chosen /\ e \in ReadDir(start, origin) /\ e.name # ".."
    BY <1>b DEF IsPlainName
  <2>2. PICK p \in DOMAIN start : p = Append(OnScreen, e.name) /\ (NeedsWalking(e) <=> start[p].kind = "dir")
    BY <1>b, <2>1, ListedIs DEF OnScreen
  <2> QED BY <2>1, <2>2
<1>4. ASSUME NEW x \in chosen PROVE \E e \in entries : e.name = x
  <2>1. Append(OnScreen, x) \in DOMAIN start /\ Front(Append(OnScreen, x)) = OnScreen /\ Last(Append(OnScreen, x)) = x
    BY <1>b, <1>2
  <2>2. \E e \in ReadDir(start, origin) : e.name = x
    BY <1>b, <2>1, ListedIs DEF OnScreen
  <2> QED BY <2>2
<1>5. IsFiniteSet(walks)
  <2> DEFINE W == {e \in entries: NeedsWalking(e)}
             f == [e \in W |-> Inside(q0, e.name)]
  <2>1. IsFiniteSet(W)
    <3>1. IsFiniteSet(ReadDir(start, origin))
      BY <1>b, ListedIs
    <3> QED BY <3>1, FS_Subset
  <2>2. DOMAIN f = W /\ (\A x \in W : f[x] \in walks) /\ \A y \in walks : \E x \in W : f[x] = y
    OBVIOUS
  <2> HIDE DEF f, walks, W
  <2> QED BY <2>1, <2>2, FiniteImage
<1> HIDE DEF q0, entries
<1>6. /\ \A q \in walks : \E e \in entries : NeedsWalking(e) /\ q = Inside(q0, e.name)
      /\ \A e \in entries : NeedsWalking(e) => Inside(q0, e.name) \in walks
      /\ \A q \in planned : \E e \in entries : ~NeedsWalking(e) /\ q = Inside(q0, e.name)
      /\ \A e \in entries : ~NeedsWalking(e) => Inside(q0, e.name) \in planned
  BY <1>1
<1> HIDE DEF walks
<1>7. /\ Len(folders) \in Nat
      /\ \A x \in walks : \E i \in 1 .. Len(folders) : folders[i] = x
      /\ \A i \in 1 .. Len(folders) : folders[i] \in walks
      /\ \A i, j \in 1 .. Len(folders) : folders[i] = folders[j] => i = j
  BY <1>1, <1>5, InOrder
<1>8. OldOrTheirs
  BY <1>0 DEF OldOrTheirs
<1>9. PlannedAsIs
  <2>1. ASSUME NEW i \in 1 .. Len(folders)
        PROVE  Place(folders[i]) \in DOMAIN start /\ start[Place(folders[i])].kind = "dir"
    <3>1. PICK e \in entries : NeedsWalking(e) /\ folders[i] = Inside(q0, e.name)
      BY <1>6, <1>7
    <3> QED BY <1>2, <1>3, <3>1
  <2>2. ASSUME NEW f \in planned
        PROVE  IsFolder(start, Front(Place(f))) /\ (Place(f) \in DOMAIN start => start[Place(f)].kind # "dir")
    <3>1. PICK e \in entries : ~NeedsWalking(e) /\ f = Inside(q0, e.name)
      BY <1>6
    <3>2. Front(Place(f)) = OnScreen /\ start[Place(f)].kind # "dir"
      BY <1>2, <1>3, <3>1
    <3> QED BY <1>b, <3>2 DEF BatchFixed
  <2> QED BY <2>1, <2>2 DEF PlannedAsIs
<1>10. EachOnce
  <2>1. WalkedSoFar = 0 /\ queue = folders
    BY <1>1, <1>7 DEF WalkedSoFar
  <2>2. ASSUME NEW i \in 1 .. Len(folders) PROVE Len(folders[i].from) = Len(origin) + 1
    <3>1. PICK e \in entries : folders[i] = Inside(q0, e.name)
      BY <1>6, <1>7
    <3> QED BY <1>2, <1>3, <3>1
  <2>3. \A i, j \in 1 .. Len(folders) : folders[i].from = folders[j].from => i = j
    <3>1. \A i \in 1 .. Len(folders) : folders[i] \in Jobs
      BY <1>b
    <3> QED BY <1>b, <1>7, <3>1, SameJob
  <2> QED BY <1>0, <1>7, <2>1, <2>2, <2>3 DEF EachOnce
<1>11. Covered
  <2> SUFFICES ASSUME NEW p \in DOMAIN start, Asked(p)
               PROVE  \/ \E f \in planned : Place(f) = p
                      \/ \E i \in 1 .. Len(folders) : Place(folders[i]) = p
                      \/ \E k \in 1 .. Len(queue) : Below(p, Place(queue[k])) /\ p # Place(queue[k])
    BY <1>0 DEF Covered
  <2>1. PICK x \in chosen : Below(p, Append(OnScreen, x))
    BY DEF Asked
  <2>2. PICK e \in entries : e.name = x
    BY <1>4
  <2> DEFINE q == Inside(q0, x)
             a == Append(OnScreen, x)
  <2>3. q \in Jobs /\ Place(q) = a /\ a \in DOMAIN start /\ (NeedsWalking(e) <=> start[a].kind = "dir")
    BY <1>2, <1>3, <2>2
  <2>4. CASE NeedsWalking(e)
    <3>1. PICK i \in 1 .. Len(folders) : folders[i] = q
      BY <1>6, <1>7, <2>2, <2>4
    <3>2. queue = folders
      BY <1>1
    <3> QED BY <2>1, <2>3, <3>1, <3>2
  <2>5. CASE ~NeedsWalking(e)
    <3>1. q \in planned
      BY <1>6, <2>2, <2>5
    <3>2. p = a
      <4>1. a \in Path /\ a # << >>
        BY <1>b, <2>3, InTree
      <4> QED BY <1>b, <2>1, <2>3, <2>5, <4>1, OneBelow
    <3> QED BY <2>3, <3>1, <3>2
  <2> QED BY <2>4, <2>5
<1>12. Present
  <2>1. \A f \in planned : Place(f) \in DOMAIN start
    <3> SUFFICES ASSUME NEW f \in planned PROVE Place(f) \in DOMAIN start
      OBVIOUS
    <3>1. PICK e \in entries : f = Inside(q0, e.name)
      BY <1>6
    <3> QED BY <1>2, <1>3, <3>1
  <2> QED BY <1>0, <1>9, <2>1 DEF Present, PlannedAsIs
<1>13. Ends
  BY <1>0 DEF Ends
<1> QED BY <1>8, <1>9, <1>10, <1>11, <1>12, <1>13 DEF DeletionInv

\* The way does not change during a batch.
LEMMA WayIsFixed ==
    ASSUME BatchFixed, UNCHANGED batch
    PROVE  /\ LeadsPast' <=> LeadsPast
           /\ origin' = origin /\ start' = start /\ chosen' = chosen /\ op' = op /\ OnScreen' = OnScreen
<1>1. origin' = origin /\ start' = start /\ chosen' = chosen /\ op' = op /\ OnScreen' = OnScreen
  BY FixedStays DEF batch
<1>2. LeadsPast' <=> LeadsPast
  BY <1>1 DEF LeadsPast, Asked
<1> QED BY <1>1, <1>2

\* A directory that is there was there, and while a batch plans, the other way round.
LEMMA DirsAre ==
    ASSUME OldOrTheirs
    PROVE  /\ \A p \in DOMAIN tree : tree[p].kind = "dir" => p \in DOMAIN start /\ start[p].kind = "dir"
           /\ stage = "plan" => \A p \in DOMAIN tree : p \in DOMAIN start /\ start[p].kind = "dir" => tree[p].kind = "dir"
  BY DEF OldOrTheirs

\* What a walk finds in the directory it has come to.
LEMMA DeletionFinds ==
    ASSUME BatchInv, DeletionInv, stage = "plan", op = "delete", queue # << >>,
           IsFolder(tree, Canonical(tree, Head(queue).from)),
           NEW e \in Plain(Head(queue))
    PROVE  LET q == Head(queue)
               i == Inside(q, e.name)
           IN /\ i \in Jobs /\ i.from = Append(q.from, e.name) /\ Front(i.from) = q.from
              /\ Len(i.from) = Len(q.from) + 1
              /\ Place(i) \in DOMAIN tree /\ Front(Place(i)) = Place(q) /\ IsFolder(start, Front(Place(i)))
              /\ NeedsWalking(e) <=> tree[Place(i)].kind = "dir"
              /\ NeedsWalking(e) <=> Place(i) \in DOMAIN start /\ start[Place(i)].kind = "dir"
<1> DEFINE q == Head(queue)
           i == Inside(q, e.name)
<1>1. BatchFixed /\ StaysATree /\ OldOrTheirs /\ IsTree(tree) /\ queue \in Seq(Jobs) /\ folders \in Seq(Jobs)
  BY DEF BatchInv, DeletionInv, Plans, StaysATree
<1>2. q \in Jobs /\ q = queue[1] /\ Len(queue) \in Nat /\ Len(queue) > 0
  BY <1>1, Rest
<1>3. Place(q) \in DOMAIN start /\ start[Place(q)].kind = "dir"
  <2>1. Len(folders) \in Nat
    BY <1>1, LenProperties
  <2>2. WalkedSoFar + 1 \in 1 .. Len(folders) /\ q = folders[WalkedSoFar + 1]
    BY <1>2, <2>1 DEF DeletionInv, EachOnce, WalkedSoFar
  <2> QED BY <2>2 DEF DeletionInv, PlannedAsIs
<1> HIDE DEF q
<1>4. q.from \in PlainPath /\ q.from \in Path /\ Below(q.from, origin) /\ Place(q) \in Path
  BY <1>1, <1>2, JobIs, PlaceIs
<1>5. Canonical(tree, q.from) = Place(q)
  <2>1. IsFolder(start, Moved(q.from, origin, OnScreen))
    BY <1>3 DEF Place, IsFolder
  <2>2. IsFolder(tree, Canonical(tree, q.from))
    BY DEF q
  <2> QED BY <1>1, <1>4, <2>1, <2>2, LedBelow DEF Place
<1>6. e \in ReadDir(tree, q.from) /\ e.name # ".."
  BY DEF Plain, IsPlainName, q
<1>7. PICK p \in DOMAIN tree : /\ Front(p) = Place(q) /\ p = Append(Place(q), e.name)
                               /\ e.name \in Name /\ IsPlainName(e.name)
                               /\ NeedsWalking(e) <=> tree[p].kind = "dir"
  BY <1>1, <1>5, <1>6, ListedIs
<1>8. /\ i \in Jobs /\ Place(i) = Append(Place(q), e.name)
      /\ i.from = Append(q.from, e.name) /\ Front(i.from) = q.from
      /\ Len(i.from) = Len(q.from) + 1
  BY <1>1, <1>2, <1>7, PlaceInside
<1> HIDE DEF i
<1>9. /\ tree[p].kind = "dir" => p \in DOMAIN start /\ start[p].kind = "dir"
      /\ p \in DOMAIN start /\ start[p].kind = "dir" => tree[p].kind = "dir"
  BY <1>1, DirsAre
<1>10. IsFolder(start, Place(q))
  BY <1>3 DEF IsFolder
<1> QED BY <1>7, <1>8, <1>9, <1>10 DEF q, i

LEMMA DeletionWalks ==
    ASSUME BatchInv, DeletionInv, stage = "plan", op = "delete", queue # << >>,
           IsFolder(tree, Canonical(tree, Head(queue).from)),
           LET q == Head(queue)
               deeper == SetToSeq({Inside(q, e.name): e \in {e \in Plain(q): NeedsWalking(e)}})
           IN /\ queue' = Tail(queue) \o deeper /\ folders' = folders \o deeper
              /\ planned' = planned \union {Inside(q, e.name): e \in {e \in Plain(q): ~NeedsWalking(e)}}
              /\ UNCHANGED <<stage, failed, broken>>,
           UNCHANGED <<batch, tree, theirs, moving, stopped>>
    PROVE  DeletionInv'
<1> DEFINE q == Head(queue)
           R == {Inside(q, e.name): e \in {e \in Plain(q): NeedsWalking(e)}}
           K == {Inside(q, e.name): e \in {e \in Plain(q): ~NeedsWalking(e)}}
           s == SetToSeq(R)
           L == Len(folders)
           w == WalkedSoFar
<1>1. /\ queue' = Tail(queue) \o s /\ folders' = folders \o s /\ planned' = planned \union K
      /\ UNCHANGED <<batch, tree, theirs, stage, failed, broken, stopped>>
  BY Zenon
<1>2. /\ BatchFixed /\ StaysATree /\ IsTree(tree) /\ ~failed
      /\ queue \in Seq(Jobs) /\ folders \in Seq(Jobs) /\ planned \subseteq Jobs
      /\ OldOrTheirs /\ PlannedAsIs /\ EachOnce /\ Covered /\ Present /\ Ends
  BY DEF BatchInv, DeletionInv, Plans, StaysATree, BatchFlags
<1>3. /\ origin' = origin /\ start' = start /\ chosen' = chosen /\ OnScreen' = OnScreen
      /\ LeadsPast' <=> LeadsPast
  BY <1>1, <1>2, WayIsFixed
<1>4. /\ q \in Jobs /\ q = queue[1] /\ Len(queue) \in Nat /\ Len(queue) > 0
      /\ Tail(queue) \in Seq(Jobs) /\ Len(Tail(queue)) = Len(queue) - 1
      /\ \A i \in 1 .. (Len(queue) - 1) : Tail(queue)[i] = queue[i + 1]
  BY <1>2, Rest
<1>5. /\ L \in Nat /\ w \in Nat /\ w + Len(queue) = L /\ w + 1 \in 1 .. L /\ q = folders[w + 1]
      /\ \A i \in 1 .. L : folders[i] \in Jobs
      /\ \A k \in 1 .. Len(queue) : queue[k] = folders[w + k]
  <2>1. L \in Nat /\ \A i \in 1 .. L : folders[i] \in Jobs
    BY <1>2, LenProperties
  <2> QED BY <1>2, <1>4, <2>1 DEF EachOnce, WalkedSoFar
<1>6. ASSUME NEW e \in Plain(q)
      PROVE  LET i == Inside(q, e.name)
             IN /\ i \in Jobs /\ Front(i.from) = q.from /\ Len(i.from) = Len(q.from) + 1
                /\ Place(i) \in DOMAIN tree /\ Front(Place(i)) = Place(q) /\ IsFolder(start, Front(Place(i)))
                /\ NeedsWalking(e) <=> tree[Place(i)].kind = "dir"
                /\ NeedsWalking(e) <=> Place(i) \in DOMAIN start /\ start[Place(i)].kind = "dir"
  BY DeletionFinds
<1>7. IsFiniteSet(R) /\ R \subseteq Jobs
  <2> DEFINE W == {e \in Plain(q): NeedsWalking(e)}
  <2>1. W \in SUBSET ReadDir(tree, q.from) /\ \A e \in W : IsPlainName(e.name)
    BY DEF Plain
  <2> HIDE DEF q, W
  <2>2. {Inside(q, e.name) : e \in W} \subseteq Jobs /\ IsFiniteSet({Inside(q, e.name) : e \in W})
    BY <1>2, <1>4, <2>1, FoundIs
  <2> QED BY <2>2 DEF W
<1>8. /\ \A r \in R : /\ r \in Jobs /\ Front(r.from) = q.from /\ Len(r.from) = Len(q.from) + 1
                      /\ Place(r) \in DOMAIN tree /\ Place(r) \in DOMAIN start /\ start[Place(r)].kind = "dir"
      /\ \A r \in K : /\ r \in Jobs /\ Place(r) \in DOMAIN tree /\ IsFolder(start, Front(Place(r)))
                      /\ Place(r) \in DOMAIN start => start[Place(r)].kind # "dir"
      /\ \A e \in Plain(q) : IF NeedsWalking(e) THEN Inside(q, e.name) \in R ELSE Inside(q, e.name) \in K
  BY <1>6
<1> HIDE DEF R, K
<1>9. /\ s \in Seq(R) /\ Len(s) \in Nat
      /\ \A x \in R : \E i \in 1 .. Len(s) : s[i] = x
      /\ \A i \in 1 .. Len(s) : s[i] \in R
      /\ \A i, j \in 1 .. Len(s) : s[i] = s[j] => i = j
  BY <1>7, InOrder
<1>10. s \in Seq(Jobs)
  BY <1>7, <1>9
<1> HIDE DEF s
<1>11. /\ Len(folders') = L + Len(s)
       /\ \A i \in 1 .. L : folders'[i] = folders[i]
       /\ \A i \in 1 .. Len(s) : folders'[L + i] = s[i]
       /\ \A i \in 1 .. (L + Len(s)) : i \in 1 .. L \/ \E j \in 1 .. Len(s) : i = L + j
  <2>1. /\ Len(folders \o s) = Len(folders) + Len(s)
        /\ \A i \in 1 .. Len(folders) : (folders \o s)[i] = folders[i]
        /\ \A i \in 1 .. Len(s) : (folders \o s)[Len(folders) + i] = s[i]
        /\ \A i \in 1 .. (Len(folders) + Len(s)) :
              i \in 1 .. Len(folders) \/ \E j \in 1 .. Len(s) : i = Len(folders) + j
    BY <1>2, <1>10, Joined
  <2> QED BY <1>1, <2>1
<1>12. /\ Len(queue') = (Len(queue) - 1) + Len(s)
       /\ \A i \in 1 .. (Len(queue) - 1) : queue'[i] = queue[i + 1]
       /\ \A i \in 1 .. Len(s) : queue'[(Len(queue) - 1) + i] = s[i]
       /\ \A i \in 1 .. ((Len(queue) - 1) + Len(s)) :
             i \in 1 .. (Len(queue) - 1) \/ \E j \in 1 .. Len(s) : i = (Len(queue) - 1) + j
  <2>1. /\ Len(Tail(queue) \o s) = Len(Tail(queue)) + Len(s)
        /\ \A i \in 1 .. Len(Tail(queue)) : (Tail(queue) \o s)[i] = Tail(queue)[i]
        /\ \A i \in 1 .. Len(s) : (Tail(queue) \o s)[Len(Tail(queue)) + i] = s[i]
        /\ \A i \in 1 .. (Len(Tail(queue)) + Len(s)) :
              i \in 1 .. Len(Tail(queue)) \/ \E j \in 1 .. Len(s) : i = Len(Tail(queue)) + j
    BY <1>4, <1>10, Joined
  <2> QED BY <1>1, <1>4, <2>1
<1>13. WalkedSoFar' = w + 1
  BY <1>4, <1>5, <1>9, <1>11, <1>12 DEF WalkedSoFar
<1> HIDE DEF w, L
<1>a. /\ L \in Nat /\ Len(s) \in Nat /\ w \in Nat /\ Len(folders') = L + Len(s) /\ L = w + Len(queue)
      /\ Len(queue) \in Nat /\ Len(queue) > 0 /\ Len(queue') = (Len(queue) - 1) + Len(s)
  BY <1>4, <1>5, <1>9, <1>11, <1>12
<1>b. ASSUME NEW i \in 1 .. Len(folders')
      PROVE  \/ i \in 1 .. L /\ folders'[i] = folders[i]
             \/ \E j \in 1 .. Len(s) : i = L + j /\ folders'[i] = s[j] /\ s[j] \in R
  <2>1. i \in 1 .. L \/ \E j \in 1 .. Len(s) : i = L + j
    BY <1>11
  <2>2. ASSUME NEW j \in 1 .. Len(s), i = L + j PROVE folders'[i] = s[j] /\ s[j] \in R
    BY <1>9, <1>11, <2>2
  <2> QED BY <1>11, <2>1, <2>2
<1>c. /\ \A i \in 1 .. L : i \in 1 .. Len(folders')
      /\ \A j \in 1 .. Len(s) : L + j \in 1 .. Len(folders') /\ L + j > L /\ (Len(queue) - 1) + j \in 1 .. Len(queue')
      /\ w + 1 \in 1 .. L /\ folders[w + 1] = q /\ folders'[w + 1] = q
  <2>1. \A i \in 1 .. L : i \in 1 .. Len(folders')
    BY <1>a
  <2>2. \A j \in 1 .. Len(s) : L + j \in 1 .. Len(folders') /\ L + j > L /\ (Len(queue) - 1) + j \in 1 .. Len(queue')
    BY <1>a
  <2>3. w + 1 \in 1 .. L /\ folders[w + 1] = q
    BY <1>5
  <2> QED BY <1>11, <2>1, <2>2, <2>3
<1>14. OldOrTheirs'
  BY <1>1, <1>2, <1>3 DEF OldOrTheirs, Asked
<1>15. PlannedAsIs'
  <2>1. ASSUME NEW i \in 1 .. Len(folders')
        PROVE  Place(folders'[i]) \in DOMAIN start /\ start[Place(folders'[i])].kind = "dir"
    <3>1. CASE i \in 1 .. L
      BY <1>2, <1>11, <3>1 DEF PlannedAsIs, L
    <3>2. CASE \E j \in 1 .. Len(s) : i = L + j /\ folders'[i] = s[j] /\ s[j] \in R
      BY <1>8, <3>2
    <3> QED BY <1>b, <3>1, <3>2
  <2>2. ASSUME NEW f \in planned'
        PROVE  IsFolder(start, Front(Place(f))) /\ (Place(f) \in DOMAIN start => start[Place(f)].kind # "dir")
    BY <1>1, <1>2, <1>8 DEF PlannedAsIs
  <2> QED BY <1>3, <2>1, <2>2 DEF PlannedAsIs, Place
<1>16. EachOnce'
  <2>1. Len(queue') <= Len(folders')
    BY <1>4, <1>5, <1>9, <1>11, <1>12
  <2>2. ASSUME NEW k \in 1 .. Len(queue') PROVE queue'[k] = folders'[(w + 1) + k]
    <3>1. CASE k \in 1 .. (Len(queue) - 1)
      <4>1. queue'[k] = queue[k + 1] /\ k + 1 \in 1 .. Len(queue) /\ w + (k + 1) \in 1 .. L /\ w + (k + 1) = (w + 1) + k
        BY <1>4, <1>5, <1>12, <3>1
      <4> QED BY <1>5, <1>11, <4>1
    <3>2. CASE \E j \in 1 .. Len(s) : k = (Len(queue) - 1) + j
      <4>1. PICK j \in 1 .. Len(s) : k = (Len(queue) - 1) + j
        BY <3>2
      <4>2. (w + 1) + k = L + j
        <5>1. Len(queue) \in Nat /\ j \in Nat /\ k = (Len(queue) - 1) + j
          BY <1>a, <4>1
        <5> QED BY <1>a, <5>1
      <4> QED BY <1>11, <1>12, <4>1, <4>2
    <3> QED BY <1>12, <2>2, <3>1, <3>2
  <2>3. ASSUME NEW i \in 1 .. L, NEW j \in 1 .. Len(s) PROVE folders[i].from # s[j].from
    <3> SUFFICES ASSUME folders[i].from = s[j].from PROVE FALSE
      OBVIOUS
    <3>1. Front(s[j].from) = q.from /\ Len(s[j].from) = Len(q.from) + 1
      BY <1>8, <1>9
    <3>2. Len(q.from) > Len(origin) /\ Len(q.from) \in Nat /\ Len(origin) \in Nat
      BY <1>2, <1>4, JobIs, StartIs
    <3>3. PICK k \in 1 .. (i - 1) : k <= w /\ folders[k].from = q.from
      <4>1. \/ Len(folders[i].from) = Len(origin) + 1
            \/ \E m \in 1 .. (i - 1) : m <= w /\ folders[m].from = Front(folders[i].from)
        BY <1>2 DEF EachOnce, L, w
      <4> QED BY <3>1, <3>2, <4>1
    <3>4. k \in 1 .. L /\ k # w + 1 /\ w + 1 \in 1 .. L /\ folders[w + 1].from = q.from
      BY <1>a, <1>c, <3>3
    <3>5. \A x, y \in 1 .. L : folders[x].from = folders[y].from => x = y
      BY <1>2 DEF EachOnce, L
    <3> QED BY <3>3, <3>4, <3>5
  <2>4. ASSUME NEW i \in 1 .. Len(folders'), NEW j \in 1 .. Len(folders'), folders'[i].from = folders'[j].from
        PROVE  i = j
    <3> DEFINE new(x) == \E k \in 1 .. Len(s) : x = L + k /\ folders'[x] = s[k] /\ s[k] \in R
               old(x) == x \in 1 .. L /\ folders'[x] = folders[x]
    <3>1. (old(i) \/ new(i)) /\ (old(j) \/ new(j))
      BY <1>b
    <3>2. CASE old(i) /\ old(j)
      BY <1>2, <2>4, <3>2 DEF EachOnce, L
    <3>3. CASE old(i) /\ new(j)
      BY <2>3, <2>4, <3>3
    <3>4. CASE old(j) /\ new(i)
      BY <2>3, <2>4, <3>4
    <3>5. CASE new(i) /\ new(j)
      <4>1. PICK k \in 1 .. Len(s) : i = L + k /\ folders'[i] = s[k] /\ s[k] \in R
        BY <3>5
      <4>a. PICK m \in 1 .. Len(s) : j = L + m /\ folders'[j] = s[m] /\ s[m] \in R
        BY <3>5
      <4>2. s[k].from = s[m].from /\ s[k] \in Jobs /\ s[m] \in Jobs
        BY <1>8, <2>4, <4>1, <4>a
      <4>3. s[k] = s[m]
        BY <1>2, <4>2, SameJob
      <4> QED BY <1>9, <4>1, <4>a, <4>3
    <3> QED BY <3>1, <3>2, <3>3, <3>4, <3>5
  <2>5. ASSUME NEW i \in 1 .. Len(folders')
        PROVE  \/ Len(folders'[i].from) = Len(origin) + 1
               \/ \E j \in 1 .. (i - 1) : j <= w + 1 /\ folders'[j].from = Front(folders'[i].from)
    <3>1. CASE i \in 1 .. L
      <4>1. \/ Len(folders[i].from) = Len(origin) + 1
            \/ \E j \in 1 .. (i - 1) : j <= w /\ folders[j].from = Front(folders[i].from)
        BY <1>2, <3>1 DEF EachOnce, L, w
      <4>2. folders'[i] = folders[i] /\ \A j \in 1 .. (i - 1) : j \in 1 .. L /\ (j <= w => j <= w + 1)
        BY <1>a, <1>11, <3>1
      <4>3. \A j \in 1 .. (i - 1) : folders'[j] = folders[j]
        BY <1>11, <4>2
      <4> QED BY <4>1, <4>2, <4>3
    <3>2. CASE \E j \in 1 .. Len(s) : i = L + j /\ folders'[i] = s[j] /\ s[j] \in R
      <4>1. PICK j \in 1 .. Len(s) : i = L + j /\ folders'[i] = s[j] /\ s[j] \in R
        BY <3>2
      <4>2. Front(folders'[i].from) = q.from
        BY <1>8, <4>1
      <4>3. w + 1 \in 1 .. (i - 1) /\ folders'[w + 1] = q
        <5>1. i = L + j /\ j \in Nat /\ j > 0 /\ L \in Nat /\ w \in Nat
          BY <1>a, <4>1
        <5>2. w + 1 <= L
          BY <1>c, <5>1
        <5>3. w + 1 \in 1 .. (i - 1)
          BY <5>1, <5>2
        <5> QED BY <1>c, <5>3
      <4>4. w + 1 <= w + 1
        BY <1>a
      <4> HIDE DEF q
      <4>5. folders'[w + 1].from = Front(folders'[i].from)
        BY <4>2, <4>3
      <4> QED BY <4>3, <4>4, <4>5
    <3> QED BY <1>b, <3>1, <3>2
  <2> QED BY <1>1, <1>3, <1>13, <2>1, <2>2, <2>4, <2>5 DEF EachOnce
<1>17. Covered'
  <2> SUFFICES ASSUME theirs = {}, NEW p \in DOMAIN tree, Asked(p)
               PROVE  \/ \E f \in planned' : Place(f) = p
                      \/ \E i \in 1 .. Len(folders') : Place(folders'[i]) = p
                      \/ \E k \in 1 .. Len(queue') : Below(p, Place(queue'[k])) /\ p # Place(queue'[k])
    BY <1>1, <1>3 DEF Covered, Place, Asked
  <2>1. \/ \E f \in planned : Place(f) = p
        \/ \E i \in 1 .. L : Place(folders[i]) = p
        \/ \E k \in 1 .. Len(queue) : Below(p, Place(queue[k])) /\ p # Place(queue[k])
    BY <1>2 DEF Covered, L
  <2>2. CASE \E f \in planned : Place(f) = p
    BY <1>1, <2>2
  <2>3. CASE \E i \in 1 .. L : Place(folders[i]) = p
    <3>1. PICK i \in 1 .. L : Place(folders[i]) = p
      BY <2>3
    <3>2. i \in 1 .. Len(folders') /\ folders'[i] = folders[i]
      BY <1>c, <1>11
    <3> QED BY <3>1, <3>2
  <2>4. ASSUME NEW k \in 1 .. Len(queue), Below(p, Place(queue[k])), p # Place(queue[k]), k # 1
        PROVE  \E m \in 1 .. Len(queue') : Below(p, Place(queue'[m])) /\ p # Place(queue'[m])
    <3>1. k - 1 \in 1 .. (Len(queue) - 1) /\ k - 1 \in 1 .. Len(queue') /\ (k - 1) + 1 = k
      BY <1>4, <1>9, <1>12, <2>4
    <3>2. queue'[k - 1] = queue[k]
      BY <1>12, <3>1
    <3> QED BY <2>4, <3>1, <3>2
  <2>5. CASE Below(p, Place(q)) /\ p # Place(q)
    <3>1. Place(q) \in Path /\ Place(q) # << >>
      BY <1>2, <1>4, PlaceIs
    <3>2. PICK c \in DOMAIN tree : /\ Front(c) = Place(q) /\ Below(p, c) /\ c \in Path
                                   /\ p # c => tree[c].kind = "dir"
      BY <1>2, <2>5, <3>1, OneBelow
    <3>3. PICK e \in Plain(q) : Place(Inside(q, e.name)) = c
      <4>1. Canonical(tree, q.from) = Place(q)
        <5>1. q.from \in PlainPath /\ Below(q.from, origin)
          BY <1>2, <1>4, JobIs
        <5>2. IsFolder(start, Moved(q.from, origin, OnScreen))
          BY <1>2, <1>5 DEF PlannedAsIs, Place, IsFolder, L
        <5>3. IsFolder(tree, Canonical(tree, q.from))
          OBVIOUS
        <5> QED BY <1>2, <5>1, <5>2, <5>3, LedBelow DEF Place
      <4>2. PICK e \in ReadDir(tree, q.from) : e.name = Last(c) /\ c = Append(Place(q), e.name) /\ IsPlainName(e.name)
        <5>1. \A x \in DOMAIN tree : Front(x) = Canonical(tree, q.from) =>
                 \E e \in ReadDir(tree, q.from) :
                    e.name = Last(x) /\ x = Append(Canonical(tree, q.from), e.name) /\ IsPlainName(e.name)
          BY <1>2, ListedIs, SMTT(30)
        <5> QED BY <3>2, <4>1, <5>1, Zenon
      <4>3. e.name \in Name
        BY <3>2, <4>2, FrontAndLast, InTree, <1>2
      <4>4. e \in Plain(q)
        BY <4>2 DEF Plain
      <4>5. Place(Inside(q, e.name)) = c
        BY <1>2, <1>4, <4>2, <4>3, PlaceInside
      <4> QED BY <4>4, <4>5
    <3> DEFINE r == Inside(q, e.name)
    <3>4. CASE NeedsWalking(e)
      <4>1. r \in R
        BY <1>8, <3>4
      <4>2. PICK j \in 1 .. Len(s) : s[j] = r
        BY <1>9, <4>1
      <4>3. /\ L + j \in 1 .. Len(folders') /\ folders'[L + j] = r
            /\ (Len(queue) - 1) + j \in 1 .. Len(queue') /\ queue'[(Len(queue) - 1) + j] = r
        BY <1>c, <1>11, <1>12, <4>2
      <4> QED BY <3>2, <3>3, <4>3
    <3>5. CASE ~NeedsWalking(e)
      <4>1. r \in planned'
        BY <1>1, <1>8, <3>5
      <4>2. p = c
        BY <1>6, <3>2, <3>3, <3>5
      <4> QED BY <3>3, <4>1, <4>2
    <3> QED BY <3>4, <3>5
  <2> QED BY <1>4, <2>1, <2>2, <2>3, <2>4, <2>5
<1>18. Present'
  <2> SUFFICES ASSUME theirs = {}
               PROVE  /\ \A f \in planned' : Place(f) \in DOMAIN tree
                      /\ \A i \in 1 .. Len(folders') : Place(folders'[i]) \in DOMAIN tree
    BY <1>1, <1>3 DEF Present, Place
  <2>1. \A f \in planned' : Place(f) \in DOMAIN tree
    BY <1>1, <1>2, <1>8 DEF Present
  <2>2. ASSUME NEW i \in 1 .. Len(folders') PROVE Place(folders'[i]) \in DOMAIN tree
    <3>1. CASE i \in 1 .. L
      BY <1>2, <1>11, <3>1 DEF Present, L
    <3>2. CASE \E j \in 1 .. Len(s) : i = L + j /\ folders'[i] = s[j] /\ s[j] \in R
      BY <1>8, <3>2
    <3> QED BY <1>b, <3>1, <3>2
  <2> QED BY <2>1, <2>2
<1>19. Ends'
  BY <1>1, <1>2 DEF Ends
<1> QED BY <1>14, <1>15, <1>16, <1>17, <1>18, <1>19 DEF DeletionInv

-----------------------------------------------------------------------------
(* A deletion that fails, ends, or is disturbed.                           *)

\* A directory of the plan is reached while nobody has disturbed the batch.
LEMMA WalkReaches ==
    ASSUME BatchInv, DeletionInv, stage = "plan", queue # << >>, theirs = {}, LeadsPast
    PROVE  IsFolder(tree, Canonical(tree, Head(queue).from))
<1> DEFINE q == Head(queue)
<1>1. /\ BatchFixed /\ StaysATree /\ OldOrTheirs /\ PlannedAsIs /\ EachOnce
      /\ queue \in Seq(Jobs) /\ folders \in Seq(Jobs)
  BY DEF BatchInv, DeletionInv, Plans
<1>2. q \in Jobs /\ q = queue[1] /\ Len(queue) \in Nat /\ Len(queue) > 0 /\ Len(folders) \in Nat
  BY <1>1, Rest, LenProperties
<1>3. WalkedSoFar + 1 \in 1 .. Len(folders) /\ q = folders[WalkedSoFar + 1]
  BY <1>1, <1>2 DEF EachOnce, WalkedSoFar
<1>4. Place(q) \in DOMAIN start /\ start[Place(q)].kind = "dir"
  BY <1>1, <1>3 DEF PlannedAsIs
<1> HIDE DEF q
<1>5. IsFolder(tree, Place(q))
  BY <1>1, <1>4 DEF OldOrTheirs, IsFolder
<1>6. Canonical(tree, origin) = OnScreen /\ IsFolder(tree, OnScreen)
  BY <1>1, WayStays
<1>7. q.from \in PlainPath /\ Below(q.from, origin)
  BY <1>1, <1>2, JobIs
<1>8. Canonical(tree, q.from) = Place(q)
  BY <1>1, <1>5, <1>6, <1>7, Reached DEF Place
<1> QED BY <1>5, <1>8 DEF q

LEMMA DeletionPlans ==
    ASSUME BatchInv, DeletionInv, PlanDelete
    PROVE  DeletionInv'
<1> DEFINE q == Head(queue)
           there == IsFolder(tree, Canonical(tree, q.from))
<1>1. /\ stage = "plan" /\ op = "delete" /\ queue # << >>
      /\ Walk(q, {e \in Plain(q): ~NeedsWalking(e)})
      /\ UNCHANGED <<batch, tree, theirs, moving, stopped>>
  BY Zenon DEF PlanDelete
<1>2. CASE GiveUp /\ broken' = (broken \/ there) /\ UNCHANGED <<queue, folders, planned>>
  <2>1. /\ BatchFixed /\ OldOrTheirs /\ PlannedAsIs /\ EachOnce /\ ~failed /\ failed' = TRUE /\ stage' = "over"
    BY <1>1, <1>2 DEF BatchInv, DeletionInv, BatchFlags, GiveUp
  <2>2. /\ LeadsPast' <=> LeadsPast
        /\ origin' = origin /\ start' = start /\ chosen' = chosen /\ OnScreen' = OnScreen
    BY <1>1, <2>1, WayIsFixed
  <2>3. broken' \/ theirs # {} \/ ~LeadsPast
    BY <1>1, <1>2, WalkReaches
  <2>4. OldOrTheirs'
    BY <1>1, <2>1, <2>2 DEF OldOrTheirs, Asked
  <2>5. PlannedAsIs'
    BY <1>2, <2>1, <2>2 DEF PlannedAsIs, Place
  <2>6. EachOnce'
    BY <1>2, <2>1, <2>2 DEF EachOnce, WalkedSoFar
  <2>7. Covered' /\ Present'
    BY <2>1 DEF Covered, Present
  <2>8. Ends'
    BY <1>1, <2>1, <2>2, <2>3 DEF Ends
  <2> QED BY <2>4, <2>5, <2>6, <2>7, <2>8 DEF DeletionInv
<1>3. CASE ~ (GiveUp /\ broken' = (broken \/ there) /\ UNCHANGED <<queue, folders, planned>>)
  <2> DEFINE deeper == SetToSeq({Inside(q, e.name): e \in {e \in Plain(q): NeedsWalking(e)}})
  <2>1. /\ there
        /\ queue' = Tail(queue) \o deeper /\ folders' = folders \o deeper
        /\ planned' = planned \union {Inside(q, e.name): e \in {e \in Plain(q): ~NeedsWalking(e)}}
        /\ UNCHANGED <<stage, failed, broken>>
    BY <1>1, <1>3, Zenon DEF Walk
  <2> QED BY <1>1, <2>1, DeletionWalks, Zenon
<1> QED BY <1>2, <1>3

LEMMA DeletionStages ==
    ASSUME BatchInv, DeletionInv, op = "delete", PlanDone \/ Finish \/ StopBatch \/ UNCHANGED transferVars
    PROVE  DeletionInv'
<1>1. UNCHANGED batch /\ UNCHANGED <<tree, theirs, queue, folders, planned, failed, broken>>
  BY DEF PlanDone, Finish, StopBatch, transferVars, batch
<1>2. /\ BatchFixed /\ OldOrTheirs /\ PlannedAsIs /\ EachOnce /\ Covered /\ Present /\ Ends
      /\ failed => stage = "over"
  BY DEF BatchInv, DeletionInv, BatchFlags
<1>3. /\ LeadsPast' <=> LeadsPast
      /\ origin' = origin /\ start' = start /\ chosen' = chosen /\ OnScreen' = OnScreen
  BY <1>1, <1>2, WayIsFixed
<1>4. /\ stage' = "plan" => stage = "plan"
      /\ stage' # "plan" => stage # "plan" \/ queue = << >>
      /\ stage' = "over" => stage = "over" \/ stopped' \/ (planned = {} /\ folders = << >>)
      /\ stopped => stopped'
  BY DEF PlanDone, Finish, StopBatch, transferVars
<1>5. OldOrTheirs'
  BY <1>1, <1>2, <1>3, <1>4 DEF OldOrTheirs, Asked
<1>6. PlannedAsIs'
  BY <1>1, <1>2, <1>3 DEF PlannedAsIs, Place
<1>7. EachOnce'
  BY <1>1, <1>2, <1>3, <1>4 DEF EachOnce, WalkedSoFar
<1>8. Covered' /\ Present'
  BY <1>1, <1>2, <1>3 DEF Covered, Present, Place, Asked
<1>9. Ends'
  BY <1>1, <1>2, <1>3, <1>4 DEF Ends
<1> QED BY <1>5, <1>6, <1>7, <1>8, <1>9 DEF DeletionInv

LEMMA DeletionIsDisturbed ==
    ASSUME BatchInv, DeletionInv, op = "delete", OthersChange
    PROVE  DeletionInv'
<1>1. UNCHANGED batch /\ UNCHANGED <<queue, folders, planned, stage, stopped, failed, broken>> /\ stage # "over"
  BY DEF OthersChange
<1>2. /\ BatchFixed /\ OldOrTheirs /\ PlannedAsIs /\ EachOnce /\ Ends /\ ~failed
  BY <1>1 DEF BatchInv, DeletionInv, BatchFlags
<1>3. origin' = origin /\ start' = start /\ chosen' = chosen /\ OnScreen' = OnScreen
  BY <1>1, <1>2, WayIsFixed
<1>4. theirs' # {} /\ theirs \subseteq theirs'
  BY DEF OthersChange
<1>5. OldOrTheirs'
  <2>1. CASE \E at \in {p \in DOMAIN tree: tree[p].kind = "dir"}:
                LET p == Append(at, "late")
                IN p \notin DOMAIN tree /\ tree' = Placed(tree, p, File(p))
    <3>1. PICK p : p \notin DOMAIN tree /\ tree' = Placed(tree, p, File(p))
      BY <2>1
    <3>2. /\ DOMAIN tree' = DOMAIN tree \union {p} /\ tree'[p].kind = "file"
          /\ \A x \in DOMAIN tree : tree'[x] = tree[x]
      BY <3>1 DEF Placed, File
    <3> QED BY <1>1, <1>2, <1>3, <1>4, <3>1, <3>2 DEF OldOrTheirs, Asked
  <2>2. CASE \E p \in DOMAIN tree:
                tree[p].kind # "dir" /\ tree' = Removed(tree, p) /\ theirs' = theirs \union {p}
    <3>1. PICK p \in DOMAIN tree : tree[p].kind # "dir" /\ tree' = Removed(tree, p) /\ theirs' = theirs \union {p}
      BY <2>2
    <3>2. /\ DOMAIN tree' = DOMAIN tree \ {p} /\ p \in theirs'
          /\ \A x \in DOMAIN tree' : tree'[x] = tree[x]
      BY <3>1 DEF Removed
    <3> QED BY <1>1, <1>2, <1>3, <1>4, <3>1, <3>2 DEF OldOrTheirs, Asked
  <2> QED BY <2>1, <2>2 DEF OthersChange
<1>6. PlannedAsIs'
  BY <1>1, <1>2, <1>3 DEF PlannedAsIs, Place
<1>7. EachOnce'
  BY <1>1, <1>2, <1>3 DEF EachOnce, WalkedSoFar
<1>8. Covered' /\ Present'
  BY <1>4 DEF Covered, Present
<1>9. Ends'
  BY <1>1, <1>2, <1>4 DEF Ends
<1> QED BY <1>5, <1>6, <1>7, <1>8, <1>9 DEF DeletionInv

-----------------------------------------------------------------------------
(* What a deletion removes.                                                *)

\* What is in a directory that was asked for was asked for as well.
LEMMA AskedInside ==
    ASSUME BatchFixed, NEW x \in Path, NEW p \in Path, x # << >>, Front(x) = p, Asked(p)
    PROVE  Asked(x)
<1>1. /\ OnScreen \in Path /\ Len(OnScreen) \in Nat /\ Len(p) \in Nat /\ Len(x) \in Nat
      /\ Len(x) = Len(p) + 1 /\ p = Up(x, Len(x) - 1) /\ \A n \in 1 .. (Len(x) - 1) : p[n] = x[n]
  BY StartIs, FrontAndLast, LenProperties DEF Path
<1>2. Len(p) > Len(OnScreen) /\ Below(p, OnScreen) /\ p[Len(OnScreen) + 1] \in chosen
  BY AskedIs
<1>3. Below(x, OnScreen)
  <2>1. Len(OnScreen) <= Len(p) /\ Up(p, Len(OnScreen)) = OnScreen
    BY <1>1, <1>2, BelowUp
  <2>2. Up(Up(x, Len(x) - 1), Len(OnScreen)) = Up(x, Len(OnScreen))
    <3>1. Len(x) - 1 \in 0 .. Len(x) /\ Len(OnScreen) \in 0 .. (Len(x) - 1)
      BY <1>1, <1>2
    <3> QED BY <3>1, UpTo
  <2> QED BY <1>1, <2>1, <2>2, BelowUp
<1>4. x[Len(OnScreen) + 1] = p[Len(OnScreen) + 1]
  BY <1>1, <1>2
<1> QED BY <1>1, <1>2, <1>3, <1>4, AskedIs

\* Files and directories of a plan are told apart, and each is there once.
LEMMA PlanIsDistinct ==
    ASSUME BatchInv, DeletionInv
    PROVE  /\ Len(folders) \in Nat /\ \A i \in 1 .. Len(folders) : folders[i] \in Jobs /\ folders[i] \notin planned
           /\ \A i, j \in 1 .. Len(folders) : folders[i] = folders[j] => i = j
           /\ \A i, j \in 1 .. Len(folders) : Place(folders[i]) = Place(folders[j]) => i = j
           /\ \A f \in planned : \A i \in 1 .. Len(folders) : Place(f) # Place(folders[i])
           /\ \A f, g \in planned : Place(f) = Place(g) => f = g
<1>1. /\ BatchFixed /\ PlannedAsIs /\ EachOnce
      /\ folders \in Seq(Jobs) /\ planned \subseteq Jobs
  BY DEF BatchInv, DeletionInv, Plans
<1>2. Len(folders) \in Nat /\ \A i \in 1 .. Len(folders) : folders[i] \in Jobs
  BY <1>1, LenProperties
<1>3. \A i, j \in 1 .. Len(folders) : folders[i].from = folders[j].from => i = j
  BY <1>1 DEF EachOnce
<1>4. \A i, j \in 1 .. Len(folders) : Place(folders[i]) = Place(folders[j]) => i = j
  BY <1>1, <1>2, <1>3, SameJob
<1>5. \A f \in planned : \A i \in 1 .. Len(folders) : Place(f) # Place(folders[i])
  BY <1>1 DEF PlannedAsIs
<1>6. \A f, g \in planned : Place(f) = Place(g) => f = g
  BY <1>1, SameJob
<1> QED BY <1>2, <1>3, <1>4, <1>5, <1>6

\* What is removed next: a file, or, when there is none left, the last directory.
LEMMA NextIs ==
    ASSUME BatchInv, DeletionInv, stage = "act", op = "delete", planned # {} \/ folders # << >>,
           NEW f \in IF planned # {} THEN planned ELSE {LeavesFirst(folders)}
    PROVE  /\ f \in Jobs /\ IsFolder(start, Front(Place(f))) /\ queue = << >> /\ ~failed
           /\ RemoveFirst(folders, f) \in Seq(Jobs) /\ planned \ {f} \subseteq planned
           /\ Len(RemoveFirst(folders, f)) \in Nat /\ Len(RemoveFirst(folders, f)) <= Len(folders)
           /\ \A j \in 1 .. Len(RemoveFirst(folders, f)) : RemoveFirst(folders, f)[j] = folders[j]
           /\ \/ f \in planned /\ RemoveFirst(folders, f) = folders
              \/ /\ f \notin planned /\ planned = {} /\ Len(folders) > 0 /\ f = folders[Len(folders)]
                 /\ Len(RemoveFirst(folders, f)) = Len(folders) - 1
<1>1. /\ BatchFixed /\ PlannedAsIs /\ EachOnce /\ ~failed
      /\ folders \in Seq(Jobs) /\ planned \subseteq Jobs
  BY DEF BatchInv, DeletionInv, Plans, BatchFlags
<1>2. queue = << >>
  BY <1>1 DEF EachOnce
<1>3. /\ Len(folders) \in Nat /\ \A i \in 1 .. Len(folders) : folders[i] \in Jobs /\ folders[i] \notin planned
      /\ \A i, j \in 1 .. Len(folders) : folders[i] = folders[j] => i = j
  BY PlanIsDistinct
<1>4. CASE planned # {}
  <2>1. f \in planned /\ ~ (\E i \in 1 .. Len(folders) : folders[i] = f)
    BY <1>3, <1>4
  <2>2. RemoveFirst(folders, f) = folders
    BY <1>1, <1>3, <2>1, OneIsTaken
  <2>3. f \in Jobs /\ IsFolder(start, Front(Place(f)))
    BY <1>1, <2>1 DEF PlannedAsIs
  <2> QED BY <1>1, <1>2, <1>3, <2>1, <2>2, <2>3
<1>5. CASE planned = {}
  <2>1. Len(folders) > 0 /\ f = folders[Len(folders)]
    <3>1. folders # << >> /\ f = Last(folders)
      BY <1>5 DEF LeavesFirst
    <3> QED BY <1>1, <1>3, <3>1, EmptySeq DEF Last
  <2>2. Len(folders) \in 1 .. Len(folders)
    BY <1>3, <2>1
  <2>3. /\ RemoveFirst(folders, f) \in Seq(Jobs) /\ Len(RemoveFirst(folders, f)) = Len(folders) - 1
        /\ \A j \in 1 .. (Len(folders) - 1) :
              RemoveFirst(folders, f)[j] = IF j < Len(folders) THEN folders[j] ELSE folders[j + 1]
    BY <1>1, <1>3, <2>1, <2>2, OneIsTaken
  <2>4. \A j \in 1 .. (Len(folders) - 1) : RemoveFirst(folders, f)[j] = folders[j]
    BY <1>3, <2>3
  <2>5. f \in Jobs /\ IsFolder(start, Front(Place(f)))
    <3>1. f \in Jobs /\ Place(f) \in DOMAIN start
      BY <1>1, <1>3, <2>1, <2>2 DEF PlannedAsIs
    <3>2. IsTree(start)
      BY <1>1, StartIs
    <3> QED BY <3>1, <3>2, InTree
  <2>6. Len(folders) - 1 \in Nat /\ Len(folders) - 1 <= Len(folders)
    BY <1>3, <2>1
  <2> QED BY <1>1, <1>2, <1>5, <2>1, <2>3, <2>4, <2>5, <2>6
<1> QED BY <1>4, <1>5

\* While nobody has disturbed the batch, it can be.
LEMMA CanBeRemoved ==
    ASSUME BatchInv, DeletionInv, stage = "act", op = "delete", planned # {} \/ folders # << >>,
           NEW f \in IF planned # {} THEN planned ELSE {LeavesFirst(folders)}, theirs = {}, LeadsPast
    PROVE  LET p == Named(tree, f.from)
           IN p \in DOMAIN tree /\ (IF f \in planned THEN tree[p].kind # "dir"
                                    ELSE tree[p].kind = "dir" /\ {x \in DOMAIN tree: Front(x) = p} = {})
<1>1. /\ BatchFixed /\ StaysATree /\ IsTree(tree) /\ OldOrTheirs /\ PlannedAsIs /\ EachOnce /\ Covered /\ Present
      /\ folders \in Seq(Jobs) /\ planned \subseteq Jobs
  BY DEF BatchInv, DeletionInv, Plans, StaysATree
<1>2. /\ f \in Jobs /\ queue = << >> /\ ~failed
      /\ \/ f \in planned
         \/ f \notin planned /\ planned = {} /\ Len(folders) > 0 /\ f = folders[Len(folders)]
  BY NextIs, Zenon
<1>3. /\ Len(folders) \in Nat /\ \A i \in 1 .. Len(folders) : folders[i] \in Jobs
  BY <1>1, LenProperties
<1>4. f \notin planned => Len(folders) \in 1 .. Len(folders) /\ planned = {} /\ f = folders[Len(folders)]
  BY <1>2, <1>3
<1>5. Place(f) \in DOMAIN tree /\ Place(f) \in DOMAIN start /\ tree[Place(f)] = start[Place(f)]
  <2>1. Place(f) \in DOMAIN tree
    BY <1>1, <1>2, <1>4 DEF Present
  <2> QED BY <1>1, <2>1 DEF OldOrTheirs
<1>6. Named(tree, f.from) = Place(f)
  <2>1. Canonical(tree, origin) = OnScreen /\ IsFolder(tree, OnScreen)
    BY <1>1, WayStays
  <2> QED BY <1>1, <1>2, <1>5, <2>1, NamedThere
<1>7. CASE f \in planned
  BY <1>1, <1>5, <1>6, <1>7 DEF PlannedAsIs
<1>8. CASE f \notin planned
  <2>1. tree[Place(f)].kind = "dir"
    BY <1>1, <1>4, <1>5, <1>8 DEF PlannedAsIs
  <2>2. ASSUME NEW x \in DOMAIN tree, Front(x) = Place(f) PROVE FALSE
    <3>1. Place(f) \in Path /\ Asked(Place(f)) /\ Len(Place(f)) = Len(OnScreen) + (Len(f.from) - Len(origin))
          /\ Moved(Place(f), OnScreen, origin) = f.from
      BY <1>1, <1>2, PlaceIs
    <3>2. x \in Path /\ x # << >> /\ Asked(x)
      <4>1. x \in Path /\ x # << >>
        BY <1>1, InTree
      <4> QED BY <1>1, <2>2, <3>1, <4>1, AskedInside
    <3>3. PICK i \in 1 .. Len(folders) : Place(folders[i]) = x
      <4>1. ~ \E k \in 1 .. Len(queue) : TRUE
        BY <1>2
      <4> QED BY <1>1, <1>2, <1>4, <1>8, <3>2, <4>1 DEF Covered
    <3> DEFINE r == folders[i]
    <3>4. /\ r \in Jobs /\ Front(r.from) \in Path /\ Below(Front(r.from), origin)
          /\ Len(Front(r.from)) = Len(r.from) - 1 /\ Front(Place(r)) = Moved(Front(r.from), origin, OnScreen)
      BY <1>1, <1>3, PlaceIs
    <3> HIDE DEF r
    <3>5. /\ OnScreen \in Path /\ origin \in Path /\ Len(origin) \in Nat /\ Len(OnScreen) \in Nat
          /\ Len(r.from) \in Nat /\ Len(f.from) \in Nat /\ Len(f.from) > Len(origin)
      BY <1>1, <1>2, <3>4, JobIs, StartIs
    <3>6. Front(r.from) = f.from
      <4>1. Moved(Front(r.from), origin, OnScreen) = Place(f)
        BY <2>2, <3>3, <3>4 DEF r
      <4>2. Moved(Moved(Front(r.from), origin, OnScreen), OnScreen, origin) = Front(r.from)
        BY <3>4, <3>5, MovedBelow
      <4> QED BY <3>1, <4>1, <4>2
    <3>7. Len(r.from) # Len(origin) + 1
      BY <3>4, <3>5, <3>6
    <3>8. PICK j \in 1 .. (i - 1) : folders[j].from = Front(r.from)
      BY <1>1, <3>7 DEF EachOnce, r
    <3>9. j \in 1 .. Len(folders) /\ j # Len(folders)
      BY <1>3, <3>3
    <3>10. folders[j].from = folders[Len(folders)].from
      BY <1>4, <1>8, <3>6, <3>8
    <3> QED BY <1>1, <1>4, <1>8, <3>9, <3>10 DEF EachOnce
  <2> QED BY <1>5, <1>6, <1>8, <2>1, <2>2
<1> QED BY <1>7, <1>8

\* One step of the loop: what is removed is what was planned, at its place.
LEMMA RemovalIs ==
    ASSUME BatchInv, DeletionInv, RemoveNext
    PROVE  /\ stage = "act" /\ op = "delete" /\ UNCHANGED batch
           /\ UNCHANGED <<theirs, queue, moving, stopped>>
           /\ \E f \in Jobs :
                 /\ IsFolder(start, Front(Place(f))) /\ queue = << >> /\ ~failed
                 /\ folders' \in Seq(Jobs) /\ Len(folders') \in Nat /\ Len(folders') <= Len(folders)
                 /\ \A j \in 1 .. Len(folders') : folders'[j] = folders[j]
                 /\ planned' = planned \ {f}
                 /\ \/ f \in planned /\ folders' = folders
                    \/ /\ f \notin planned /\ planned = {} /\ Len(folders) > 0 /\ f = folders[Len(folders)]
                       /\ Len(folders') = Len(folders) - 1
                 /\ \/ /\ Place(f) \in DOMAIN tree /\ tree' = Removed(tree, Place(f))
                       /\ tree[Place(f)].kind # "dir" \/ \A x \in DOMAIN tree : Front(x) # Place(f)
                       /\ UNCHANGED <<stage, failed, broken>>
                    \/ /\ GiveUp /\ UNCHANGED tree
                       /\ broken' \/ theirs # {} \/ ~LeadsPast
                       /\ broken' \in BOOLEAN
<1>1. /\ stage = "act" /\ op = "delete" /\ UNCHANGED batch /\ UNCHANGED <<theirs, queue, moving, stopped>>
      /\ planned # {} \/ folders # << >>
  BY Zenon DEF RemoveNext
<1> DEFINE can(f) == LET p == Named(tree, f.from)
                     IN p \in DOMAIN tree /\ (IF f \in planned THEN tree[p].kind # "dir"
                                              ELSE tree[p].kind = "dir" /\ {x \in DOMAIN tree: Front(x) = p} = {})
<1>2. PICK f \in IF planned # {} THEN planned ELSE {LeavesFirst(folders)} :
              /\ planned' = planned \ {f} /\ folders' = RemoveFirst(folders, f)
              /\ \/ can(f) /\ tree' = Removed(tree, Named(tree, f.from)) /\ UNCHANGED <<stage, failed, broken>>
                 \/ GiveUp /\ broken' = (broken \/ can(f)) /\ UNCHANGED tree
  BY Zenon DEF RemoveNext
<1>3. /\ f \in Jobs /\ IsFolder(start, Front(Place(f))) /\ queue = << >> /\ ~failed
      /\ RemoveFirst(folders, f) \in Seq(Jobs) /\ planned \ {f} \subseteq planned
      /\ Len(RemoveFirst(folders, f)) \in Nat /\ Len(RemoveFirst(folders, f)) <= Len(folders)
      /\ \A j \in 1 .. Len(RemoveFirst(folders, f)) : RemoveFirst(folders, f)[j] = folders[j]
      /\ \/ f \in planned /\ RemoveFirst(folders, f) = folders
         \/ /\ f \notin planned /\ planned = {} /\ Len(folders) > 0 /\ f = folders[Len(folders)]
            /\ Len(RemoveFirst(folders, f)) = Len(folders) - 1
  BY <1>1, NextIs, Zenon
<1>4. theirs = {} /\ LeadsPast => can(f)
  BY <1>1, CanBeRemoved, Zenon
<1>5. /\ folders' \in Seq(Jobs) /\ Len(folders') \in Nat /\ Len(folders') <= Len(folders)
      /\ \A j \in 1 .. Len(folders') : folders'[j] = folders[j]
      /\ \/ f \in planned /\ folders' = folders
         \/ /\ f \notin planned /\ planned = {} /\ Len(folders) > 0 /\ f = folders[Len(folders)]
            /\ Len(folders') = Len(folders) - 1
  BY <1>2, <1>3, Zenon
<1>6. ASSUME can(f), tree' = Removed(tree, Named(tree, f.from))
      PROVE  /\ Place(f) \in DOMAIN tree /\ tree' = Removed(tree, Place(f))
             /\ tree[Place(f)].kind # "dir" \/ \A x \in DOMAIN tree : Front(x) # Place(f)
  <2>1. Named(tree, f.from) \in DOMAIN tree
    BY <1>6
  <2>2. BatchFixed /\ StaysATree /\ OldOrTheirs
    BY DEF BatchInv, DeletionInv
  <2>3. Named(tree, f.from) = Place(f)
    BY <1>3, <2>1, <2>2, NamesItsPlace
  <2> QED BY <1>6, <2>1, <2>3
<1>7. ASSUME GiveUp, broken' = (broken \/ can(f))
      PROVE  (broken' \/ theirs # {} \/ ~LeadsPast) /\ broken' \in BOOLEAN
  BY <1>4, <1>7
<1> HIDE DEF can
<1>8. \/ /\ Place(f) \in DOMAIN tree /\ tree' = Removed(tree, Place(f))
         /\ tree[Place(f)].kind # "dir" \/ \A x \in DOMAIN tree : Front(x) # Place(f)
         /\ UNCHANGED <<stage, failed, broken>>
      \/ /\ GiveUp /\ UNCHANGED tree
         /\ broken' \/ theirs # {} \/ ~LeadsPast
         /\ broken' \in BOOLEAN
  BY <1>2, <1>6, <1>7
<1> QED BY <1>1, <1>2, <1>3, <1>5, <1>8, Zenon

LEMMA RemovalKeepsTheBatch ==
    ASSUME BatchInv, DeletionInv, RemoveNext
    PROVE  BatchInv'
<1>1. /\ stage = "act" /\ op = "delete" /\ UNCHANGED batch /\ UNCHANGED <<theirs, queue, moving, stopped>>
  BY RemovalIs, Zenon
<1>2. PICK f \in Jobs :
           /\ folders' \in Seq(Jobs) /\ planned' = planned \ {f}
           /\ \/ /\ Place(f) \in DOMAIN tree /\ tree' = Removed(tree, Place(f))
                 /\ tree[Place(f)].kind # "dir" \/ \A x \in DOMAIN tree : Front(x) # Place(f)
                 /\ UNCHANGED <<stage, failed, broken>>
              \/ GiveUp /\ UNCHANGED tree /\ broken' \in BOOLEAN
  BY RemovalIs, Zenon
<1>3. BatchFixed /\ BatchFlags /\ Plans /\ StaysATree /\ UnderWay /\ InPartIsUnderWay /\ CopiesKeep
  BY DEF BatchInv
<1>4. BatchFixed' /\ Jobs' = Jobs /\ op' = op
  BY <1>1, <1>3, FixedStays DEF batch
<1>5. start' = start
  BY <1>1 DEF batch
<1>6. Plans'
  BY <1>1, <1>2, <1>3, <1>4 DEF Plans
<1>7. BatchFlags'
  <2>1. CASE UNCHANGED <<stage, failed, broken>>
    BY <1>1, <1>3, <2>1 DEF BatchFlags
  <2>2. CASE GiveUp /\ broken' \in BOOLEAN
    BY <1>1, <1>3, <2>2 DEF BatchFlags, GiveUp
  <2> QED BY <1>2, <2>1, <2>2
<1>8. CopiesKeep'
  BY <1>1, <1>4 DEF CopiesKeep
<1>9. CASE Place(f) \in DOMAIN tree /\ tree' = Removed(tree, Place(f)) /\ UNCHANGED <<stage, failed, broken>>
           /\ (tree[Place(f)].kind # "dir" \/ \A x \in DOMAIN tree : Front(x) # Place(f))
  <2>1. DOMAIN tree' = DOMAIN tree \ {Place(f)} /\ \A x \in DOMAIN tree' : tree'[x] = tree[x]
    BY <1>9 DEF Removed
  <2>2. IsTree(tree')
    <3>1. IsTree(Removed(tree, Place(f)))
      BY <1>3, <1>9, StillATree DEF StaysATree
    <3> QED BY <1>9, <3>1
  <2>3. StaysATree'
    BY <1>3, <1>5, <2>1, <2>2 DEF StaysATree
  <2>4. UnderWay'
    BY <1>1, <1>3, <1>4, <1>9 DEF UnderWay
  <2>5. InPartIsUnderWay'
    BY <1>1, <1>3, <1>9, <2>1 DEF InPartIsUnderWay
  <2> QED BY <1>4, <1>6, <1>7, <1>8, <2>3, <2>4, <2>5 DEF BatchInv
<1>10. CASE GiveUp /\ UNCHANGED tree
  <2>1. StaysATree'
    BY <1>3, <1>5, <1>10 DEF StaysATree
  <2>2. UnderWay'
    BY <1>1, <1>3, <1>4, <1>10 DEF UnderWay, GiveUp
  <2>3. InPartIsUnderWay'
    BY <1>10 DEF InPartIsUnderWay, GiveUp
  <2> QED BY <1>4, <1>6, <1>7, <1>8, <2>1, <2>2, <2>3 DEF BatchInv
<1> QED BY <1>2, <1>9, <1>10

LEMMA DeletionRemoves ==
    ASSUME BatchInv, DeletionInv, RemoveNext
    PROVE  DeletionInv'
<1>1. /\ stage = "act" /\ op = "delete" /\ UNCHANGED batch /\ UNCHANGED <<theirs, queue, moving, stopped>>
  BY RemovalIs, Zenon
<1>2. PICK f \in Jobs :
           /\ IsFolder(start, Front(Place(f))) /\ queue = << >> /\ ~failed
           /\ folders' \in Seq(Jobs) /\ Len(folders') \in Nat /\ Len(folders') <= Len(folders)
           /\ \A j \in 1 .. Len(folders') : folders'[j] = folders[j]
           /\ planned' = planned \ {f}
           /\ \/ f \in planned /\ folders' = folders
              \/ /\ f \notin planned /\ planned = {} /\ Len(folders) > 0 /\ f = folders[Len(folders)]
                 /\ Len(folders') = Len(folders) - 1
           /\ \/ /\ Place(f) \in DOMAIN tree /\ tree' = Removed(tree, Place(f))
                 /\ tree[Place(f)].kind # "dir" \/ \A x \in DOMAIN tree : Front(x) # Place(f)
                 /\ UNCHANGED <<stage, failed, broken>>
              \/ /\ GiveUp /\ UNCHANGED tree
                 /\ broken' \/ theirs # {} \/ ~LeadsPast
  BY RemovalIs, Zenon
<1>3. /\ BatchFixed /\ OldOrTheirs /\ PlannedAsIs /\ EachOnce /\ Covered /\ Present /\ Ends
      /\ planned \subseteq Jobs
  BY DEF BatchInv, DeletionInv, Plans
<1>4. /\ LeadsPast' <=> LeadsPast
      /\ origin' = origin /\ start' = start /\ chosen' = chosen /\ OnScreen' = OnScreen
  BY <1>1, <1>3, WayIsFixed
<1>5. /\ Len(folders) \in Nat
      /\ \A i \in 1 .. Len(folders) : folders[i] \in Jobs /\ folders[i] \notin planned
      /\ \A i, j \in 1 .. Len(folders) : Place(folders[i]) = Place(folders[j]) => i = j
      /\ \A g \in planned : \A i \in 1 .. Len(folders) : Place(g) # Place(folders[i])
      /\ \A g, h \in planned : Place(g) = Place(h) => g = h
  BY PlanIsDistinct
<1>6. \A j \in 1 .. Len(folders') : j \in 1 .. Len(folders)
  BY <1>2, <1>5
<1>7. /\ \A j \in 1 .. Len(folders') : Place(folders[j]) # Place(f)
      /\ \A g \in planned' : g \in planned /\ Place(g) # Place(f)
  <2>1. CASE f \in planned
    BY <1>2, <1>5, <1>6, <2>1
  <2>2. CASE f \notin planned
    <3>1. /\ planned = {} /\ Len(folders) \in 1 .. Len(folders) /\ f = folders[Len(folders)]
          /\ Len(folders') = Len(folders) - 1
      BY <1>2, <1>5, <2>2
    <3>2. \A j \in 1 .. Len(folders') : j # Len(folders)
      BY <1>5, <3>1
    <3> QED BY <1>2, <1>5, <1>6, <3>1, <3>2
  <2> QED BY <2>1, <2>2
<1>8. \A i \in 1 .. Len(folders) : i \in 1 .. Len(folders') \/ folders[i] = f
  <2>1. CASE folders' = folders
    BY <2>1
  <2>2. CASE f = folders[Len(folders)] /\ Len(folders') = Len(folders) - 1
    BY <1>5, <2>2
  <2> QED BY <1>2, <2>1, <2>2
<1>9. PlannedAsIs'
  <2>1. \A j \in 1 .. Len(folders') : Place(folders'[j]) \in DOMAIN start /\ start[Place(folders'[j])].kind = "dir"
    BY <1>2, <1>3, <1>6 DEF PlannedAsIs
  <2>2. \A g \in planned' : /\ IsFolder(start, Front(Place(g)))
                            /\ Place(g) \in DOMAIN start => start[Place(g)].kind # "dir"
    BY <1>2, <1>3 DEF PlannedAsIs
  <2> QED BY <1>4, <2>1, <2>2 DEF PlannedAsIs, Place
<1>10. EachOnce'
  <2>1. Len(queue') = 0 /\ queue' = << >> /\ Len(queue) = 0
    BY <1>1, <1>2
  <2>2. \A i, j \in 1 .. Len(folders') : folders'[i].from = folders'[j].from => i = j
    BY <1>2, <1>3, <1>6 DEF EachOnce
  <2>3. ASSUME NEW i \in 1 .. Len(folders')
        PROVE  \/ Len(folders'[i].from) = Len(origin) + 1
               \/ \E j \in 1 .. (i - 1) : j <= WalkedSoFar' /\ folders'[j].from = Front(folders'[i].from)
    <3>1. \/ Len(folders[i].from) = Len(origin) + 1
          \/ \E j \in 1 .. (i - 1) : folders[j].from = Front(folders[i].from)
      BY <1>3, <1>6 DEF EachOnce
    <3>2. \A j \in 1 .. (i - 1) : j \in 1 .. Len(folders') /\ j <= Len(folders')
      BY <1>2
    <3>3. WalkedSoFar' = Len(folders')
      BY <1>2, <2>1 DEF WalkedSoFar
    <3> QED BY <1>2, <3>1, <3>2, <3>3
  <2>4. Len(queue') <= Len(folders') /\ \A k \in 1 .. Len(queue') : FALSE
    BY <1>2, <2>1
  <2> QED BY <1>4, <2>1, <2>2, <2>3, <2>4 DEF EachOnce
<1>11. CASE /\ Place(f) \in DOMAIN tree /\ tree' = Removed(tree, Place(f))
            /\ UNCHANGED <<stage, failed, broken>>
  <2>1. DOMAIN tree' = DOMAIN tree \ {Place(f)} /\ \A x \in DOMAIN tree' : tree'[x] = tree[x]
    BY <1>11 DEF Removed
  <2>2. OldOrTheirs'
    <3>1. Asked(Place(f))
      BY <1>3, PlaceIs
    <3> QED BY <1>1, <1>3, <1>4, <1>11, <2>1, <3>1 DEF OldOrTheirs, Asked
  <2>3. Covered'
    <3> SUFFICES ASSUME theirs = {}, NEW p \in DOMAIN tree', Asked(p)
                 PROVE  \/ \E g \in planned' : Place(g) = p
                        \/ \E i \in 1 .. Len(folders') : Place(folders'[i]) = p
      BY <1>1, <1>4 DEF Covered, Place, Asked
    <3>1. p \in DOMAIN tree /\ p # Place(f)
      BY <2>1
    <3>2. (\E g \in planned : Place(g) = p) \/ \E i \in 1 .. Len(folders) : Place(folders[i]) = p
      <4>1. ~ \E k \in 1 .. Len(queue) : TRUE
        BY <1>2
      <4> QED BY <1>2, <1>3, <3>1, <4>1 DEF Covered
    <3>3. CASE \E g \in planned : Place(g) = p
      BY <1>2, <3>1, <3>3
    <3>4. CASE \E i \in 1 .. Len(folders) : Place(folders[i]) = p
      BY <1>2, <1>8, <3>1, <3>4
    <3> QED BY <3>2, <3>3, <3>4
  <2>4. Present'
    <3> SUFFICES ASSUME theirs = {}
                 PROVE  /\ \A g \in planned' : Place(g) \in DOMAIN tree'
                        /\ \A i \in 1 .. Len(folders') : Place(folders'[i]) \in DOMAIN tree'
      BY <1>1, <1>4 DEF Present, Place
    <3> QED BY <1>2, <1>3, <1>6, <1>7, <2>1 DEF Present
  <2>5. Ends'
    BY <1>1, <1>2, <1>11 DEF Ends
  <2> QED BY <1>9, <1>10, <2>2, <2>3, <2>4, <2>5 DEF DeletionInv
<1>12. CASE GiveUp /\ UNCHANGED tree /\ (broken' \/ theirs # {} \/ ~LeadsPast)
  <2>1. failed' = TRUE /\ stage' = "over"
    BY <1>12 DEF GiveUp
  <2>2. OldOrTheirs'
    BY <1>1, <1>3, <1>4, <1>12, <2>1 DEF OldOrTheirs, Asked
  <2>3. Covered' /\ Present'
    BY <2>1 DEF Covered, Present
  <2>4. Ends'
    BY <1>1, <1>4, <1>12, <2>1 DEF Ends
  <2> QED BY <1>9, <1>10, <2>2, <2>3, <2>4 DEF DeletionInv
<1> QED BY <1>2, <1>11, <1>12

-----------------------------------------------------------------------------
(* The invariant of a batch, and what it promises.                         *)

TransferInv == BatchInv /\ (op = "delete" => DeletionInv)

LEMMA TransferStep ==
    ASSUME TransferInv, [TransferNext]_transferVars
    PROVE  TransferInv'
<1>1. BatchInv /\ (op = "delete" => DeletionInv) /\ BatchFixed
  BY DEF TransferInv, BatchInv
<1>2. CASE PlanUpload
  <2>1. op = "upload" /\ op' = op
    BY <1>2 DEF PlanUpload, batch
  <2> QED BY <1>1, <1>2, <2>1, UploadPlans DEF TransferInv
<1>3. CASE PlanDownload
  <2>1. /\ op = "download" /\ stage = "plan" /\ queue # << >>
        /\ Walk(Head(queue), {e \in Plain(Head(queue)): ~e.dir})
        /\ UNCHANGED <<batch, tree, theirs, moving, stopped>>
    BY <1>3, Zenon DEF PlanDownload
  <2>2. BatchInv'
    <3>1. {e \in Plain(Head(queue)): ~e.dir} \in SUBSET Plain(Head(queue))
      OBVIOUS
    <3> QED BY <1>1, <2>1, <3>1, WalkPlans, Zenon
  <2>3. op' = op
    BY <2>1 DEF batch
  <2> QED BY <2>1, <2>2, <2>3 DEF TransferInv
<1>4. CASE PlanDelete
  <2>1. /\ op = "delete" /\ stage = "plan" /\ queue # << >>
        /\ Walk(Head(queue), {e \in Plain(Head(queue)): ~NeedsWalking(e)})
        /\ UNCHANGED <<batch, tree, theirs, moving, stopped>>
    BY <1>4, Zenon DEF PlanDelete
  <2>2. BatchInv'
    <3>1. {e \in Plain(Head(queue)): ~NeedsWalking(e)} \in SUBSET Plain(Head(queue))
      OBVIOUS
    <3> QED BY <1>1, <2>1, <3>1, WalkPlans, Zenon
  <2>3. DeletionInv'
    BY <1>1, <1>4, <2>1, DeletionPlans
  <2> QED BY <2>2, <2>3 DEF TransferInv
<1>5. CASE PlanDone \/ Finish \/ StopBatch \/ UNCHANGED transferVars
  <2>1. op' = op
    BY <1>5 DEF PlanDone, Finish, StopBatch, transferVars, batch
  <2> QED BY <1>1, <1>5, <2>1, StagesKeepIt, DeletionStages DEF TransferInv
<1>6. CASE MakeFolder
  <2>1. op # "delete" /\ op' = op
    BY <1>6 DEF MakeFolder, Copies, batch
  <2> QED BY <1>1, <1>6, <2>1, FoldersAreMade DEF TransferInv
<1>7. CASE OpenFile
  <2>1. op # "delete" /\ op' = op
    BY <1>7, Zenon DEF OpenFile, Copies, batch
  <2> QED BY <1>1, <1>7, <2>1, FilesAreOpened DEF TransferInv
<1>8. CASE MoveBytes
  <2>1. op # "delete" /\ op' = op
    BY <1>1, <1>8 DEF MoveBytes, BatchInv, UnderWay, batch
  <2> QED BY <1>1, <1>8, <2>1, BytesAreMoved DEF TransferInv
<1>9. CASE RemoveNext
  <2>1. op = "delete"
    BY <1>9, Zenon DEF RemoveNext
  <2> QED BY <1>1, <1>9, <2>1, RemovalKeepsTheBatch, DeletionRemoves DEF TransferInv
<1>10. CASE OthersChange
  <2>1. op' = op
    BY <1>10 DEF OthersChange, batch
  <2> QED BY <1>1, <1>10, <2>1, OthersKeepIt, DeletionIsDisturbed DEF TransferInv
<1> QED BY <1>2, <1>3, <1>4, <1>5, <1>6, <1>7, <1>8, <1>9, <1>10 DEF TransferNext

\* What a batch has planned is what was chosen, and what a deletion has planned, walked and
\* yet to walk is all there is of it, whatever the tree, its links and the changes of others.
THEOREM TransferInvariant == TransferSpec => []TransferInv
<1>1. TransferInit => TransferInv
  BY BatchBegins, DeletionBegins DEF TransferInv
<1>2. TransferInv /\ [TransferNext]_transferVars => TransferInv'
  BY TransferStep
<1> QED BY <1>1, <1>2, PTL DEF TransferSpec

\* What was asked is on the machine of the directory on screen.
LEMMA AskedIsHere ==
    ASSUME BatchFixed, ~near, NEW p \in DOMAIN start, Asked(p)
    PROVE  ~OnTarget(p)
<1>1. /\ origin \in PlainPath /\ TwoMachines(start) /\ IsTree(start) /\ OnScreen \in Path /\ IsFolder(start, OnScreen)
      /\ Target \in Path
  BY StartIs, TransfersAssumption DEF BatchFixed
<1>2. NoLinkAcross(start) /\ origin # << >> /\ ~OnTarget(origin)
  BY <1>1 DEF TwoMachines, NoLinkAcross, OnTarget
<1>3. OnScreen # Nowhere
  BY <1>1, InTree
<1>4. ~OnTarget(OnScreen)
  BY <1>1, <1>2, <1>3, SameSide DEF OnScreen
<1>5. OnScreen # << >>
  <2>1. OnScreen \in DOMAIN start \union {Nowhere}
    BY <1>1, <1>2, LeadsIntoTree DEF OnScreen
  <2> QED BY <1>1, <1>3, <2>1, InTree
<1>6. p \in Path /\ Below(p, OnScreen) /\ Len(OnScreen) \in Nat /\ Len(OnScreen) > 0
  <2>1. p \in Path
    BY <1>1, InTree
  <2> QED BY <1>1, <1>5, <2>1, AskedIs, FrontAndLast
<1>7. p[1] = OnScreen[1]
  <2>1. 1 \in 1 .. Len(OnScreen)
    BY <1>6
  <2> QED BY <1>1, <1>6, <2>1, BelowUp
<1> QED BY <1>1, <1>4, <1>6, <1>7, HeadIs DEF OnTarget

\* The walk of a deletion comes to its end.
LEMMA DeletionEnds ==
    ASSUME BatchInv, DeletionInv
    PROVE  WalkEnds
<1>1. /\ BatchFixed /\ EachOnce /\ PlannedAsIs /\ IsTree(tree) /\ queue \in Seq(Jobs)
  BY DEF BatchInv, DeletionInv, Plans, StaysATree
<1>2. /\ Len(folders) \in Nat
      /\ \A i, j \in 1 .. Len(folders) : Place(folders[i]) = Place(folders[j]) => i = j
  BY PlanIsDistinct
<1>3. Len(queue) \in Nat /\ Len(queue) <= Len(folders)
  BY <1>1, LenProperties DEF EachOnce
<1> DEFINE N == 1 .. Len(folders)
           D == DOMAIN start
           f == [i \in N |-> Place(folders[i])]
<1>4. IsFiniteSet(D) /\ IsFiniteSet(DOMAIN tree)
  BY <1>1, StartIs DEF IsTree
<1>5. f \in Injection(N, D)
  BY <1>1, <1>2 DEF PlannedAsIs, Injection, IsInjective
<1>6. Cardinality(N) = Len(folders)
  <2>1. 1 \in Int /\ Len(folders) \in Int
    BY <1>2
  <2>2. Cardinality(1 .. Len(folders)) = IF 1 > Len(folders) THEN 0 ELSE Len(folders) - 1 + 1
    BY <2>1, FS_Interval
  <2> QED BY <1>2, <2>2
<1> HIDE DEF f, N
<1>7. Len(folders) <= Cardinality(D)
  BY <1>4, <1>5, <1>6, FS_Injection
<1> DEFINE A == DOMAIN start \union DOMAIN tree
<1>8. Cardinality(D) \in Nat /\ Cardinality(A) \in Nat /\ Cardinality(D) <= Cardinality(A)
  <2>1. IsFiniteSet(A)
    BY <1>4, FS_Union
  <2>2. D \in SUBSET A
    OBVIOUS
  <2> HIDE DEF A, D
  <2> QED BY <1>4, <2>1, <2>2, FS_Subset, FS_CardinalityType
<1> HIDE DEF D
<1>9. Len(folders) + Len(queue) <= 2 * Cardinality(A)
  <2> HIDE DEF A
  <2> QED BY <1>2, <1>3, <1>7, <1>8
<1> QED BY <1>9 DEF WalkEnds

LEMMA BatchPromises ==
    ASSUME BatchInv, op = "delete" => DeletionInv
    PROVE  TransferTypes /\ OnlyAskedIsGone /\ NoPartLeft /\ (~near => SourceKept)
<1>1. BatchFixed /\ BatchFlags /\ StaysATree /\ UnderWay /\ InPartIsUnderWay /\ CopiesKeep /\ IsTree(tree)
  BY DEF BatchInv, StaysATree
<1>2. TransferTypes
  <2>1. \A p \in DOMAIN tree : p # << >> /\ IsFolder(tree, Front(p))
    BY <1>1, InTree
  <2>2. {near, stopped, failed, broken} \subseteq BOOLEAN
    BY <1>1 DEF BatchFixed, BatchFlags
  <2> QED BY <1>1, <2>1, <2>2 DEF TransferTypes, BatchFixed, BatchFlags
<1>3. OnlyAskedIsGone
  <2>1. CASE op = "delete"
    BY <2>1 DEF DeletionInv, OldOrTheirs, OnlyAskedIsGone
  <2>2. CASE op # "delete"
    BY <1>1, <2>2 DEF CopiesKeep, OnlyAskedIsGone
  <2> QED BY <2>1, <2>2
<1>4. NoPartLeft
  BY <1>1 DEF NoPartLeft, UnderWay, InPartIsUnderWay
<1>5. ASSUME ~near PROVE SourceKept
  BY <1>1, <1>5, AskedIsHere DEF SourceKept, CopiesKeep
<1> QED BY <1>2, <1>3, <1>4, <1>5

LEMMA DeletionPromises ==
    ASSUME BatchInv, DeletionInv, op = "delete"
    PROVE  TransferSound
<1>1. TransferTypes /\ OnlyAskedIsGone /\ NoPartLeft
  BY BatchPromises
<1>2. SourceKept
  BY DEF SourceKept
<1>3. WalkEnds
  BY DeletionEnds
<1>4. DoneIsWhole
  <2> SUFFICES ASSUME stage = "over", ~failed, ~stopped, theirs = {}, NEW p \in DOMAIN tree, Asked(p) PROVE FALSE
    BY DEF DoneIsWhole
  <2>1. planned = {} /\ folders = << >>
    BY DEF DeletionInv, Ends
  <2>2. queue = << >>
    BY DEF DeletionInv, EachOnce
  <2>3. (\A i \in 1 .. Len(folders) : FALSE) /\ (\A i \in 1 .. Len(queue) : FALSE)
    BY <2>1, <2>2
  <2> QED BY <2>1, <2>3 DEF DeletionInv, Covered
<1>5. DeletesInOrder
  BY DEF DeletionInv, Ends, DeletesInOrder
<1> QED BY <1>1, <1>2, <1>3, <1>4, <1>5 DEF TransferSound

\* Whatever a batch does, and whatever others do meanwhile: what is there is a tree; nothing
\* goes but what was asked to be deleted; nothing stays half moved without a failure; and
\* a copy to another machine leaves what it copies as it was.
THEOREM BatchIsSound ==
    TransferSpec => [](TransferTypes /\ OnlyAskedIsGone /\ NoPartLeft /\ (~near => SourceKept))
<1>1. TransferInv => TransferTypes /\ OnlyAskedIsGone /\ NoPartLeft /\ (~near => SourceKept)
  BY BatchPromises DEF TransferInv
<1> QED BY <1>1, TransferInvariant, PTL

\* A deletion has all of it.
THEOREM DeletionIsSound == TransferSpec => [](op = "delete" => TransferSound)
<1>1. TransferInv => (op = "delete" => TransferSound)
  BY DeletionPromises DEF TransferInv
<1> QED BY <1>1, TransferInvariant, PTL
=============================================================================
