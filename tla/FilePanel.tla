----------------------------- MODULE FilePanel -----------------------------
(***************************************************************************)
(* The file panel of one session (crates/rulogman-app/src/file_panel.rs,   *)
(* file_panel/operations.rs and navigation.rs): what it lists, what it     *)
(* asks, and the batches that wait for its one progress slot.              *)
(*                                                                         *)
(* Every request to the file source is a round trip that may fail, and the *)
(* UI goes on meanwhile: the user moves to another directory or tab, asks, *)
(* cancels, or closes the session's pane.  A directory is a set of names;  *)
(* which of them a folder holds is left to the plans of a batch.           *)
(***************************************************************************)
EXTENDS Naturals, FiniteSets, Sequences

CONSTANTS
    Dirs, Names,
    Files,       \* the names there are at first
    NoDir,        \* no directory: a model value
    MaxListings, \* bound: the generation up to which the user navigates and renames
    MaxBatches,  \* bound: transfers and deletes asked for
    MaxRequests  \* bound: the two together, as the user goes on asking

ASSUME FilePanelAssumption ==
    /\ NoDir \notin Dirs /\ Files \subseteq Names
    /\ MaxListings \in Nat \ {0} /\ {MaxBatches, MaxRequests} \subseteq Nat

VARIABLES
    server,   \* what each directory holds
    view,     \* the panel with the session is "shown", "unseen", or its pane "closed"
    known,    \* states has an entry for the session
    state,    \* that entry
    listings, \* listings under way, with what the server answered
    batches,  \* every batch asked for
    renames   \* renames and new folders under way

panelVars == <<server, view, known, state, listings, batches, renames>>
remote == <<server, renames>>

\* A question under the list; asked is the directory it was asked in.
Question == [kind: {"delete", "name", "upload", "download"},
             names: SUBSET Names, asked: Dirs \union {NoDir}]
NoQuestion == [kind |-> "none", names |-> {}, asked |-> NoDir]

\* SessionState::new; failed is history, whether the last listing did.
NewState ==
    [path |-> NoDir, entries |-> {}, prompt |-> NoQuestion, generation |-> 0,
     busy |-> FALSE, failed |-> FALSE, notice |-> "none", keep |-> FALSE,
     unseen |-> FALSE, transfer |-> 0, canceled |-> FALSE, queue |-> << >>]

PanelInit ==
    /\ server = [d \in Dirs |-> Files]
    /\ view = "shown" /\ known = FALSE /\ state = NewState
    /\ listings = {} /\ batches = << >> /\ renames = {}

Batches == 1..Len(batches)

\* A batch that ended.
Over == [kind |-> "none", dir |-> NoDir, left |-> {}, moved |-> FALSE, stage |-> "done"]
At(stage) == {b \in Batches: batches[b].stage = stage}

MayAsk == state.generation + Len(batches) < MaxRequests

ActingEarly == view = "shown" /\ known \* mutant: before the first listing landed
\* acting_on: the panel shows the session, and its first listing has landed.
Acting == view = "shown" /\ known /\ state.path # NoDir
-----------------------------------------------------------------------------
(* The status line.                                                        *)

\* SessionState::say
Say(s, notice) == [s EXCEPT !.notice = notice]

\* show_notice, mark_seen and expire_notice: what succeeded, and was seen, is taken
\* down by a timer that knows which message it is for.
NoticeExpires ==
    /\ known /\ state.notice = "info" /\ ~state.unseen
    /\ state' = Say(state, "none")
    /\ UNCHANGED <<remote, view, known, listings, batches>>
-----------------------------------------------------------------------------
(* Listing.                                                                *)

\* go, for a state that may be gone by now.
Go(s, dir) ==
    LET at == (IF known THEN s ELSE NewState)
    IN /\ known' = TRUE
       /\ state' = [at EXCEPT !.generation = @ + 1, !.busy = TRUE]
       /\ listings' = listings \union
             {[generation |-> at.generation + 1, dir |-> dir, answer |-> "none",
               got |-> {}]}

\* sync: the first listing, and the shell's directory when it has moved; open_path,
\* open_parent, activate and refresh once there is a listing.
Navigate ==
    /\ view # "closed" /\ state.generation < MaxListings /\ MayAsk
    /\ state.generation > 0 => state.path # NoDir
    /\ \E dir \in Dirs: Go(state, dir)
    /\ UNCHANGED <<remote, view, batches>>

\* The source reads the directory, or fails to.
Listed ==
    /\ \E l \in listings:
          /\ l.answer = "none"
          /\ \/ listings' = (listings \ {l}) \union
                   {[l EXCEPT !.answer = "read", !.got = server[l.dir]]}
             \/ listings' = (listings \ {l}) \union {[l EXCEPT !.answer = "failed"]}
    /\ UNCHANGED <<remote, view, known, state, batches>>

AnyReply(l) == known \* mutant: no stale-reply guard
Expected(l) == known /\ state.generation = l.generation

KeepQuestion(s) == s \* mutant: the question stands in the new directory
ResetSelection(s) == [s EXCEPT !.prompt = NoQuestion]

\* listing_arrived
ListingArrives ==
    /\ \E l \in listings:
          /\ l.answer # "none"
          /\ listings' = listings \ {l}
          /\ LET quiet == [state EXCEPT !.busy = FALSE]
                 moved == state.path # l.dir
                 there == [(IF moved THEN ResetSelection(quiet) ELSE quiet)
                              EXCEPT !.path = l.dir, !.entries = l.got, !.keep = FALSE,
                                     !.failed = FALSE]
             IN state' = CASE ~Expected(l) -> state
                           [] Expected(l) /\ l.answer = "failed" ->
                                 Say([quiet EXCEPT !.keep = FALSE, !.failed = TRUE], "error")
                           [] OTHER -> IF state.keep /\ ~moved THEN there
                                       ELSE [there EXCEPT !.notice = "none"]
    /\ UNCHANGED <<remote, view, known, batches>>
-----------------------------------------------------------------------------
(* Switching.                                                              *)

\* mark_seen: an outcome kept for a panel nobody watched has its timer now.
MarkSeen(s) == [s EXCEPT !.unseen = FALSE]

\* set_session, which drops the question, and set_visible, which does not.
Hide ==
    /\ view = "shown" /\ view' = "unseen"
    /\ state' \in {state, [state EXCEPT !.prompt = NoQuestion]}
    /\ UNCHANGED <<remote, known, listings, batches>>

Show ==
    /\ view = "unseen" /\ view' = "shown"
    /\ state' = MarkSeen(state)
    /\ UNCHANGED <<remote, known, listings, batches>>

\* forget_session: the requests that wait for the slot are dropped with the state.
Forget ==
    /\ view # "closed" /\ view' = "closed"
    /\ known' = FALSE /\ state' = NewState
    /\ batches' = [b \in Batches |-> IF batches[b].stage = "waiting" THEN Over ELSE batches[b]]
    /\ UNCHANGED <<remote, listings>>
-----------------------------------------------------------------------------
(* The slot.                                                               *)

\* queue_transfer: a new batch takes the slot, or waits its turn.
Queue(s, kind, dir, left) ==
    LET b == Len(batches) + 1
        free == known /\ s.transfer = 0
    IN /\ b <= MaxBatches /\ MayAsk
       /\ batches' = Append(batches,
             IF ~known THEN Over
             ELSE [kind |-> kind, dir |-> dir, left |-> left, moved |-> FALSE,
                   stage |-> IF free THEN "moving" ELSE "waiting"])
       /\ state' = CASE ~known -> s
                     [] free -> [Say(s, "none") EXCEPT !.transfer = b, !.canceled = FALSE,
                                                       !.unseen = FALSE]
                     [] OTHER -> [s EXCEPT !.queue = Append(@, b)]

\* grant_next_transfer
GrantNext(s) ==
    IF s.queue = << >> THEN s
    ELSE [s EXCEPT !.transfer = Head(s.queue), !.queue = Tail(s.queue)]

NeverGranted(s, notice) == \* mutant: the slot is freed for whoever asks next
    [Say(s, notice) EXCEPT !.transfer = 0, !.canceled = FALSE, !.keep = TRUE]

\* finish_transfer
FinishTransfer(s, notice) ==
    LET freed == [s EXCEPT !.transfer = 0, !.canceled = FALSE, !.keep = TRUE]
        told == IF view = "shown" THEN Say(freed, notice)
                ELSE [Say(freed, notice) EXCEPT !.unseen = TRUE]
    IN GrantNext(told)

\* cancel_transfer
Cancel ==
    /\ view = "shown" /\ known /\ state.transfer # 0 /\ ~state.canceled
    /\ state' = [state EXCEPT !.canceled = TRUE]
    /\ UNCHANGED <<remote, view, known, listings, batches>>

\* A batch ends: it frees the slot, says how it went, and lists its directory
\* again when it changed it.
End(b, notice, moved) ==
    LET said == IF state.canceled THEN "info" ELSE notice
        \* A batch whose state is gone has nobody to report to.
        s == IF known THEN FinishTransfer(state, said) ELSE state
        after == IF batches[b].kind = "delete" THEN ResetSelection(s) ELSE s
        next == IF s.transfer = 0 THEN batches
                ELSE [batches EXCEPT ![s.transfer].stage = "moving"]
    IN /\ batches' = [next EXCEPT ![b] = Over]
       /\ IF batches[b].kind = "delete" \/ (batches[b].kind = "upload" /\ moved)
          THEN Go(after, batches[b].dir)
          ELSE state' = s /\ UNCHANGED <<known, listings>>

\* transfer_file: a canceled batch, or one whose state is gone, stops here.
Stopped == ~known \/ state.canceled

\* upload_now, and the loop of delete, on one name of a directory.
Uploaded(dir, n) == [server EXCEPT ![dir] = @ \union {n}]
Deleted(dir, n) == [server EXCEPT ![dir] = @ \ {n}]
\* run_download and download_into
Downloaded(dir, n) == server

\* One file or entry after the other.  A file that fails on the way up may be there
\* in part.
BatchStep(b) ==
    /\ batches[b].stage = "moving"
    /\ LET left == batches[b].left
           into == batches[b].dir
           kind == batches[b].kind
       IN \/ /\ left = {} \/ Stopped
             /\ End(b, IF kind = "upload" /\ ~batches[b].moved THEN "error" ELSE "info",
                    batches[b].moved)
             /\ UNCHANGED server
          \/ /\ left # {} /\ ~Stopped
             /\ \E n \in left:
                   /\ batches' = [batches EXCEPT ![b].left = left \ {n}, ![b].moved = TRUE]
                   /\ server' = CASE kind = "upload" -> Uploaded(into, n)
                                  [] kind = "delete" -> Deleted(into, n)
                                  [] OTHER -> Downloaded(into, n)
             /\ UNCHANGED <<known, state, listings>>
          \/ /\ left # {} /\ ~Stopped
             /\ End(b, "error", batches[b].moved)
             /\ \/ UNCHANGED server
                \/ /\ kind = "upload"
                   /\ \E n \in left: server' = Uploaded(into, n)
    /\ UNCHANGED <<view, renames>>
-----------------------------------------------------------------------------
(* Asking.                                                                 *)

Few == {{n}: n \in Files} \* bound: what is transferred
\* bound: a question is asked while its answer is within the other bounds
Ask(kind, names) ==
    /\ MayAsk
    /\ IF kind = "name" THEN state.generation < MaxListings
       ELSE Len(batches) < MaxBatches
    /\ state' = [state EXCEPT !.prompt = [kind |-> kind, names |-> names, asked |-> IF kind = "download" THEN NoDir ELSE state.path]]

\* offer_upload: a drop always asks, a picked file only when its name is taken.
OfferUpload ==
    /\ Acting
    /\ \E names \in Few:
          \/ Ask("upload", names) /\ UNCHANGED batches
          \/ names \intersect state.entries = {} /\ Queue(state, "upload", state.path, names)
    /\ UNCHANGED <<remote, view, known, listings>>

\* confirm_delete, begin_rename and begin_new_folder
AskDelete == \E names \in SUBSET state.entries \ {{}}: Ask("delete", names)
AskRename == \E n \in state.entries: Ask("name", {n})
AskFolder == Ask("name", {})

AskAbout ==
    /\ Acting
    /\ AskDelete \/ AskRename \/ AskFolder
    /\ UNCHANGED <<remote, view, known, listings, batches>>

\* cancel_prompt
CancelPrompt ==
    /\ view = "shown" /\ state.prompt # NoQuestion
    /\ state' = [state EXCEPT !.prompt = NoQuestion]
    /\ UNCHANGED <<remote, view, known, listings, batches>>

\* delete: the names of the question that are still listed.
Delete ==
    /\ Acting /\ state.prompt.kind = "delete"
    /\ LET s == [state EXCEPT !.prompt = NoQuestion]
           targets == state.prompt.names \intersect state.entries
       IN IF targets = {} THEN state' = s /\ UNCHANGED batches
          ELSE Queue(s, "delete", state.path, targets)
    /\ UNCHANGED <<remote, view, known, listings>>

\* answer_transfer: with or without what is already there.  An upload goes where
\* the panel is, a download where it was asked for.
AnswerTransfer ==
    /\ view = "shown" /\ known /\ state.prompt.kind \in {"upload", "download"}
    /\ LET s == [state EXCEPT !.prompt = NoQuestion]
           q == state.prompt
       IN \E left \in {q.names, q.names \ state.entries}:
             IF left = {} THEN state' = s /\ UNCHANGED batches
             ELSE Queue(s, q.kind, IF q.kind = "upload" THEN state.path ELSE NoDir, left)
    /\ UNCHANGED <<remote, view, known, listings>>

\* commit_rename and commit_new_folder: refused while a batch runs.
CommitName ==
    /\ Acting /\ state.generation < MaxListings /\ MayAsk
    /\ renames = {} \* bound: one at a time
    /\ state.prompt.kind = "name"
    /\ IF state.transfer # 0 THEN state' = Say(state, "error") /\ UNCHANGED renames
       ELSE /\ state' = [state EXCEPT !.prompt = NoQuestion]
            /\ \E to \in Names \ state.prompt.names:
                  renames' = renames \union
                     {[dir |-> state.path, from |-> state.prompt.names, to |-> to,
                       done |-> FALSE]}
    /\ UNCHANGED <<server, view, known, listings, batches>>

\* The server renames the entry or makes the folder.
Renamed ==
    /\ \E r \in renames:
          /\ ~r.done /\ r.from \subseteq server[r.dir]
          /\ renames' = (renames \ {r}) \union {[r EXCEPT !.done = TRUE]}
          /\ server' = [server EXCEPT ![r.dir] = (@ \ r.from) \union {r.to}]
    /\ UNCHANGED <<view, known, state, listings, batches>>

\* Its answer: the directory is listed again, or the failure is said.
RenameAnswered ==
    /\ \E r \in renames:
          /\ renames' = renames \ {r}
          /\ \/ r.done /\ Go(Say([state EXCEPT !.keep = TRUE], "info"), r.dir)
             \/ /\ ~r.done /\ UNCHANGED <<known, listings>>
                /\ state' = (IF known THEN Say(state, "error") ELSE state)
    /\ UNCHANGED <<server, view, batches>>

\* The answer to the save dialog of the platform, which stood open while the panel
\* moved on, about what was selected then.  Where it is read from tells nothing here,
\* a download changes no directory.
DownloadOne == \E names \in Few: Queue(state, "download", NoDir, names)
\* download_many asks first when entries would replace local ones.
DownloadMany ==
    \E names \in Few: known /\ Ask("download", names) /\ UNCHANGED batches

SaveAnswered ==
    /\ state.path # NoDir \/ view = "closed"
    /\ DownloadOne \/ DownloadMany
    /\ UNCHANGED <<remote, view, known, listings>>

PanelNext ==
    \/ NoticeExpires \/ Navigate \/ Listed \/ ListingArrives \/ Hide \/ Show
    \/ Forget \/ Cancel \/ OfferUpload \/ AskAbout \/ CancelPrompt \/ Delete
    \/ AnswerTransfer \/ CommitName \/ Renamed \/ RenameAnswered \/ SaveAnswered
    \/ \E b \in Batches: BatchStep(b)

PanelSpec == PanelInit /\ [][PanelNext]_panelVars
-----------------------------------------------------------------------------
(* Properties.                                                             *)

\* The values the variables of the panel range over; before the first listing there
\* is nothing to ask about.
PanelTypeOK ==
    /\ server \in [Dirs -> SUBSET Names]
    /\ view \in {"shown", "unseen", "closed"} /\ known \in BOOLEAN
    /\ state.path \in Dirs \union {NoDir} /\ state.entries \subseteq Names
    /\ state.prompt \in Question \union {NoQuestion}
    /\ state.path = NoDir => state.entries = {} /\ state.prompt.kind \in {"none", "download"}
    /\ state.notice \in {"none", "info", "error"}
    /\ state.transfer \in 0..Len(batches)
    /\ \A b \in Batches: batches[b].left \subseteq Names /\ batches[b].dir \in Dirs \union {NoDir}

\* The slot is one batch's from the grant to its end, and the batches that wait
\* are the queue: none is forgotten, none runs twice, and nobody waits for a free
\* slot (queue_transfer, finish_transfer, grant_next_transfer).
SlotIsHeld ==
    known /\ view # "closed" =>
        /\ At("moving") = {state.transfer} \ {0}
        /\ At("waiting") = {state.queue[i]: i \in 1..Len(state.queue)}
        /\ Cardinality(At("waiting")) = Len(state.queue)
        /\ state.queue # << >> => state.transfer # 0

\* The panel's state is well formed and its slot is held for cause.
PanelSound == PanelTypeOK /\ SlotIsHeld

\* A question that acts on the listed directory was asked there: however listings,
\* tabs and batches moved since, what is confirmed is what the user was looking at
\* (listing_arrived, set_session).
QuestionsMatchListing ==
    state.prompt.kind \in {"delete", "name", "upload"} =>
        state.prompt.asked = state.path

\* Nothing is under way.
Settled ==
    /\ view # "closed" /\ known /\ ~state.busy /\ listings = {} /\ renames = {}
    /\ At("moving") = {} /\ At("waiting") = {}

\* When all is quiet the list names nothing that this session deleted or renamed
\* away, unless the last listing failed: an answer read before the
\* change never covers one read after it (the generation of go).
NothingGoneIsShown ==
    Settled /\ ~state.failed /\ state.path # NoDir =>
        state.entries \subseteq server[state.path]

\* "Such a line does not expire until the panel is shown for this session":
\* an outcome nobody has looked at is still there.
UnseenOutcomeStays == known /\ state.unseen => state.notice # "none"
=============================================================================
