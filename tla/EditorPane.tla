----------------------------- MODULE EditorPane -----------------------------
(***************************************************************************)
(* An open file: the pane of crates/rulogman-app/src/editor_pane.rs, and   *)
(* the questions the workspace asks for it (workspace/editors.rs and       *)
(* workspace/dialogs.rs), over the saves of SafeSave.                      *)
(*                                                                         *)
(* Everything runs on the UI thread; reads, saves and unlocks are tasks    *)
(* that land later.  A question is modal: while one stands the pane hears  *)
(* nothing from the user.                                                  *)
(***************************************************************************)
EXTENDS SafeSave

CONSTANT
    Panes \* the sources, their RootAccess and the bound of each pane that is tried

ASSUME EditorPaneAssumption ==
    Panes \subseteq [source: Sources, access: {"None", "NeedsPassword", "Granted"},
                     limit: 1..MaxContents]

VARIABLES
    open,       \* how the pane stands: "open", or what closed it
    text,       \* the buffer
    dirty,      \* EditorView.is_dirty
    original,   \* original_bytes
    moved,      \* the buffer changed since the save in flight took its bytes
    readOnly,   \* EditorView.is_read_only
    access, rootMode,
    closeAfter, \* close_after_save
    reload,     \* reloading, and the bytes once they were read
    discarding,
    message,    \* "in_place", "conflict" when it has those buttons, or None
    conflict,   \* ConflictStep: None, "offered" or "confirm"
    clipboard,  \* the buffer Reopen put there, while it is read
    question,   \* close_confirm is this pane
    prompt,     \* SudoPrompt: purpose, remember and busy, or NoPrompt
    unlocks,    \* unlock_root calls in flight; cancelled ones too
    lost        \* a reload replaced unsaved text that is nowhere else

held == <<original, moved, closeAfter, reload, discarding, message, conflict,
          clipboard>>
pane == <<open, text, dirty, held, readOnly, rootMode, lost>>
dialogs == <<question, prompt, unlocks>>
vars == <<saveVars, access, pane, dialogs>>

Nothing == MaxContents + 3 \* no bytes yet
NoReload == [on |-> FALSE, bytes |-> Nothing]
NoPrompt == [purpose |-> None, remember |-> FALSE, busy |-> FALSE]
Elevated == rootMode # "No"
saving == job # Idle

\* The pane is removed, with what it held.
Drop(how) ==
    /\ open' = how /\ question' = FALSE
    /\ original' = 0 /\ moved' = FALSE /\ closeAfter' = FALSE
    /\ reload' = NoReload /\ discarding' = FALSE
    /\ message' = None /\ conflict' = None /\ clipboard' = Nothing

\* A message under the editor shows the buttons of a conflict with it.
Explain(c) == message' = IF c = None THEN None ELSE "conflict"

\* The user reaches the pane.
AtPane == open = "open" /\ ~question /\ prompt = NoPrompt

Init ==
    /\ SaveInit
    /\ \E p \in Panes: source = p.source /\ limit = p.limit /\ access = p.access
    /\ open = "open" /\ text = 0 /\ dirty = FALSE /\ original = 0 /\ moved = FALSE
    /\ readOnly = (access # "None") /\ rootMode = "No"
    /\ closeAfter = FALSE /\ reload = NoReload /\ discarding = FALSE
    /\ message = None /\ conflict = None /\ clipboard = Nothing
    /\ question = FALSE /\ prompt = NoPrompt /\ unlocks = {}
    /\ lost = FALSE
-----------------------------------------------------------------------------
(* The buffer.                                                             *)

\* on_changed
Type ==
    /\ AtPane /\ ~readOnly
    /\ fresh < limit
    /\ fresh' = fresh + 1 /\ text' = fresh' /\ dirty' = TRUE
    /\ moved' = saving /\ message' = None
    /\ UNCHANGED <<source, disk, job, late, access, open, original, readOnly,
                   rootMode, closeAfter, reload, discarding, conflict, clipboard,
                   lost, dialogs>>

\* set_charset: a clean buffer is read again.
SetCharset ==
    /\ AtPane /\ ~reload.on
    /\ IF dirty \/ saving
       THEN Explain(conflict) /\ UNCHANGED reload
       ELSE message' = None /\ reload' = [on |-> TRUE, bytes |-> Nothing]
    /\ UNCHANGED <<saveVars, access, open, text, dirty, original, moved, readOnly,
                   rootMode, closeAfter, discarding, conflict, clipboard, lost, dialogs>>

\* reopen_from_disk: the buffer goes to the clipboard.
ReopenFromDisk ==
    /\ AtPane /\ message = "conflict" /\ conflict = "offered"
    /\ ~reload.on /\ ~saving
    /\ clipboard' = text
    /\ conflict' = None /\ message' = None /\ discarding' = TRUE
    /\ reload' = [on |-> TRUE, bytes |-> Nothing]
    /\ UNCHANGED <<saveVars, access, open, text, dirty, original, moved, readOnly,
                   rootMode, closeAfter, lost, dialogs>>

\* read_file
ReadFile ==
    /\ reload.on /\ reload.bytes = Nothing
    /\ reload' = [reload EXCEPT !.bytes = file]
    /\ UNCHANGED <<saveVars, access, open, text, dirty, original, moved, readOnly,
                   rootMode, closeAfter, discarding, message, conflict, clipboard,
                   lost, dialogs>>

FailedToo(b) == TRUE \* mutant: a read that failed is shown as a file
Readable(b) == b # Missing

MayReplace == discarding \/ ~(dirty \/ saving)

\* finish_reload: what was read, or the reason there is nothing.
FinishReload ==
    /\ open = "open" /\ reload.bytes # Nothing
    /\ reload' = NoReload /\ discarding' = FALSE /\ clipboard' = Nothing
    /\ \/ /\ Readable(reload.bytes) /\ MayReplace
          /\ text' = reload.bytes /\ original' = reload.bytes
          /\ dirty' = FALSE /\ moved' = saving /\ message' = None
          /\ noted' = noted \union {reload.bytes}
          /\ lost' = (lost \/ (dirty /\ text # clipboard))
       \/ /\ ~Readable(reload.bytes) \/ ~MayReplace
          /\ Explain(conflict)
          /\ UNCHANGED <<text, original, dirty, moved, noted, lost>>
       \/ /\ Explain(conflict) \* the read failed
          /\ UNCHANGED <<text, original, dirty, moved, noted, lost>>
    /\ UNCHANGED <<source, limit, file, backup, blind, stored, fresh, job, late,
                   access, open, readOnly, rootMode, closeAfter, conflict,
                   dialogs>>
-----------------------------------------------------------------------------
(* Saving.                                                                 *)

\* start_write and overwrite_disk from the point nothing is refused.
StartWrite(step) ==
    /\ job' = Save(step, original, text)
    /\ moved' = FALSE /\ message' = None /\ conflict' = None

\* start_save: as the account or as root, along the same steps.
StartSave == StartWrite("compare")

Unsaved == UNCHANGED <<source, disk, fresh, late, access, text, dirty,
                       original, readOnly, rootMode, discarding, clipboard, lost>>

AskPassword(purpose) ==
    /\ \E r \in BOOLEAN: prompt' = [purpose |-> purpose, remember |-> r, busy |-> FALSE]
    /\ question' = FALSE

\* save: EveryTime asks for the password first.
SavePressed ==
    IF saving \/ readOnly THEN UNCHANGED <<job, moved, message, conflict, prompt>>
    ELSE IF rootMode = "EveryTime"
    THEN AskPassword("Save") /\ UNCHANGED <<job, moved, message, conflict>>
    ELSE StartSave /\ UNCHANGED prompt

SaveKey ==
    /\ AtPane
    /\ SavePressed
    /\ question' = FALSE
    /\ Unsaved /\ UNCHANGED <<open, closeAfter, reload, unlocks>>

\* save_and_close_editor: the question is answered with Save.
SaveAndClose ==
    /\ open = "open" /\ question
    /\ question' = FALSE
    /\ closeAfter' = TRUE
    /\ SavePressed
    /\ Unsaved /\ UNCHANGED <<open, reload, unlocks>>

\* The buttons of the strip.
SaveInPlace ==
    /\ AtPane /\ message = "in_place" /\ ~saving /\ ~readOnly
    /\ StartWrite("in_place")
    /\ Unsaved /\ UNCHANGED <<open, closeAfter, reload, dialogs>>

OverwriteDisk ==
    /\ AtPane /\ message = "conflict" /\ conflict = "confirm" /\ ~saving /\ ~readOnly
    /\ StartWrite("read")
    /\ Unsaved /\ UNCHANGED <<open, closeAfter, reload, dialogs>>

\* offer_overwrite and back_to_conflict
TurnConflict ==
    /\ AtPane /\ message = "conflict"
    /\ conflict' = IF conflict = "offered" THEN "confirm" ELSE "offered"
    /\ Explain(conflict')
    /\ Unsaved /\ UNCHANGED <<job, moved, open, closeAfter, reload, dialogs>>

WhateverWasTyped == TRUE \* mutant: the revision is not looked at
Covers == ~moved

KeepArmed == closeAfter \* mutant: a save that failed leaves the pane armed
Disarmed == FALSE

\* finish_save of a write that worked: saved, and closed if that was asked for.
Succeed ==
    /\ dirty' = (dirty /\ ~Covers)
    /\ IF closeAfter /\ Covers
       THEN Drop("saved")
       ELSE /\ original' = job.bytes /\ moved' = FALSE /\ closeAfter' = Disarmed
            /\ UNCHANGED <<open, reload, discarding, conflict, message, clipboard, question>>

\* finish_save of one that did not.
Fail ==
    /\ conflict' = IF job.result = "conflict" THEN "offered" ELSE conflict
    /\ IF job.result = "unpreservable" /\ source # "script" /\ ~Elevated
       THEN message' = "in_place" ELSE Explain(conflict')
    /\ moved' = FALSE /\ closeAfter' = Disarmed
    /\ UNCHANGED <<original, dirty, open, reload, discarding, clipboard, question>>

OnlySuccess == job.step = "landed" /\ job.result = "ok" \* mutant: errors return early
Reported == job.step = "landed"

\* finish_save; a pane that was closed meanwhile hears nothing.
FinishSave ==
    /\ Reported
    /\ job' = Idle
    /\ \/ open = "open" /\ job.result = "ok" /\ Succeed
       \/ open = "open" /\ job.result # "ok" /\ Fail
       \/ /\ open # "open"
          /\ UNCHANGED <<original, dirty, moved, message, conflict, closeAfter, open,
                         reload, discarding, clipboard, question>>
    /\ UNCHANGED <<source, disk, fresh, late, access, text, readOnly, rootMode, lost,
                   prompt, unlocks>>
-----------------------------------------------------------------------------
(* Closing.                                                                *)

\* close_editor_pane: a dirty pane asks.
Close ==
    /\ AtPane
    /\ \/ /\ dirty
          /\ question' = TRUE
          /\ UNCHANGED <<open, held>>
       \/ ~dirty /\ Drop("clean")
    /\ UNCHANGED <<saveVars, access, text, dirty, readOnly, rootMode, lost, prompt,
                   unlocks>>

\* confirm_close_editor and cancel_close_editor
AnswerClose ==
    /\ open = "open" /\ question
    /\ \/ question' = FALSE /\ UNCHANGED <<open, held>>
       \/ Drop("discarded")
    /\ UNCHANGED <<saveVars, access, text, dirty, readOnly, rootMode, lost, prompt,
                   unlocks>>
-----------------------------------------------------------------------------
(* Root.                                                                   *)

Unlock(purpose, mode) == [purpose |-> purpose, mode |-> mode, cancelled |-> FALSE]
Cancelled(us) == {[u EXCEPT !.cancelled = (@ \/ u.purpose # "Free")]: u \in us}

\* edit_as_root
EditAsRoot ==
    /\ AtPane /\ readOnly /\ unlocks = {}
    /\ \/ /\ access = "NeedsPassword"
          /\ AskPassword("Unlock") /\ UNCHANGED <<unlocks, message>>
       \/ /\ access = "Granted"
          /\ unlocks' = {Unlock("Free", "Free")} /\ message' = None
          /\ UNCHANGED <<question, prompt>>
    /\ UNCHANGED <<saveVars, access, open, text, dirty, original, moved, readOnly,
                   rootMode, closeAfter, reload, discarding, conflict, clipboard, lost>>

\* The question, if it stands, waits for the source or for another password.
SetBusy(b) ==
    prompt' = IF prompt = NoPrompt THEN NoPrompt ELSE [prompt EXCEPT !.busy = b]

\* submit_sudo_password: the password goes with the write, or is proved first.
SubmitPassword ==
    /\ prompt # NoPrompt /\ ~prompt.busy
    /\ IF prompt.purpose = "Save" /\ ~prompt.remember
       THEN /\ prompt' = NoPrompt
            /\ IF saving \/ readOnly THEN UNCHANGED <<job, moved, message, conflict>>
               ELSE StartSave
            /\ UNCHANGED unlocks
       ELSE /\ SetBusy(TRUE)
            /\ unlocks' = unlocks \union
                  {Unlock(prompt.purpose,
                          IF prompt.remember THEN "Remembered" ELSE "EveryTime")}
            /\ UNCHANGED <<job, moved, message, conflict>>
    /\ Unsaved /\ UNCHANGED <<open, closeAfter, reload, question>>

\* close_sudo_prompt after a Cancel, and abandon_root_save with it.
CancelPassword ==
    /\ prompt # NoPrompt
    /\ prompt' = NoPrompt
    /\ unlocks' = Cancelled(unlocks)
    /\ closeAfter' = IF prompt.purpose = "Save" THEN Disarmed ELSE closeAfter
    /\ UNCHANGED <<saveVars, access, open, text, dirty, original, moved, readOnly,
                   rootMode, reload, discarding, message, conflict, clipboard, lost,
                   question>>

\* unlock_root answers yes: whatever prompt stands goes, the pane unlocks and
\* the save that waited goes out.
Unlocked ==
    /\ \E u \in unlocks:
          /\ unlocks' = unlocks \ {u}
          /\ readOnly' = FALSE /\ rootMode' = u.mode
          /\ prompt' = IF u.purpose = "Free" THEN prompt ELSE NoPrompt
          /\ IF u.purpose = "Save" /\ ~saving /\ open = "open"
             THEN StartSave
             ELSE UNCHANGED <<job, moved, message, conflict>>
    /\ UNCHANGED <<source, disk, fresh, late, access, open, text, dirty, original,
                   closeAfter, reload, discarding, clipboard, lost, question>>

\* unlock_root answers no.
NotUnlocked ==
    /\ \E u \in unlocks:
          /\ unlocks' = unlocks \ {u}
          /\ IF u.purpose = "Free"
             THEN Explain(conflict) /\ UNCHANGED prompt
             ELSE SetBusy(FALSE) /\ UNCHANGED message
    /\ UNCHANGED <<saveVars, access, open, text, dirty, original, moved, readOnly,
                   rootMode, closeAfter, reload, discarding, conflict, clipboard, lost,
                   question>>

\* close_overlays: another dialog takes the questions down.
CloseOverlays ==
    /\ question \/ prompt # NoPrompt
    /\ question' = FALSE /\ prompt' = NoPrompt
    /\ unlocks' = IF prompt # NoPrompt THEN Cancelled(unlocks) ELSE unlocks
    /\ closeAfter' = IF prompt.purpose = "Save" THEN Disarmed ELSE closeAfter
    /\ UNCHANGED <<saveVars, access, open, text, dirty, original, moved, readOnly,
                   rootMode, reload, discarding, message, conflict, clipboard, lost>>
-----------------------------------------------------------------------------
Source ==
    /\ \/ RunJob \/ Lose \/ RunLate
       \/ open = "open" /\ Outside
    /\ UNCHANGED <<access, pane, dialogs>>

Next ==
    \/ Type \/ SetCharset \/ ReopenFromDisk \/ ReadFile \/ FinishReload
    \/ SaveKey \/ SaveAndClose \/ SaveInPlace \/ OverwriteDisk \/ TurnConflict
    \/ FinishSave \/ Close \/ AnswerClose
    \/ EditAsRoot \/ SubmitPassword \/ CancelPassword \/ Unlocked \/ NotUnlocked
    \/ CloseOverlays \/ Source
Spec == Init /\ [][Next]_vars

\* Tasks run to their end and land: a source answers or fails.
Fairness ==
    /\ WF_vars(RunJob /\ UNCHANGED <<access, pane, dialogs>>)
    /\ WF_vars(FinishSave) /\ WF_vars(ReadFile) /\ WF_vars(FinishReload)
FairSpec == Spec /\ Fairness
-----------------------------------------------------------------------------
(* Properties.                                                             *)

Known == Contents \union {Torn}
JobType == [step: {None, "read", "compare", "commit", "restore",
                   "in_place", "landed"},
            expected: Known, bytes: Known,
            result: {None, "ok", "conflict", "unpreservable", "failed"}]

\* The values every variable of the pane and of its save ranges over.
TypeOK ==
    /\ source \in Sources /\ access \in {"None", "NeedsPassword", "Granted"}
    /\ {file, backup} \subseteq Known \union {Missing}
    /\ {text, original} \subseteq Known /\ fresh \in Contents
    /\ job \in JobType /\ late \in JobType
    /\ noted \union stored \subseteq Known
    /\ open \in {"open", "saved", "clean", "discarded"}
    /\ {dirty, moved, readOnly, closeAfter, discarding, question} \subseteq BOOLEAN
    /\ rootMode \in {"No", "Free", "Remembered", "EveryTime"}
    /\ reload.on \in BOOLEAN
    /\ message \in {None, "conflict", "in_place"}
    /\ conflict \in {None, "offered", "confirm"}

\* No save, of the pane or of a script whose connection was lost, ever replaces
\* contents the editor has not read or written itself (safe_replace, replace and
\* safe_save_script compare twice), and a file that has no name any more
\* (ReplaceFileW gave up half way) is at its backup name.
DiskSafe ==
    /\ ~blind
    /\ file = Missing => backup # Missing

\* The pane's state is well formed and its saves are safe, in one invariant.
PaneSound == TypeOK /\ DiskSafe

\* A pane that shows no unsaved changes, or that closed without being told to
\* discard, shows something the file really held: no typing during a save, a
\* reload or an unlock is taken for saved (finish_save, finish_reload).
CleanIsStored == ~dirty \/ open \in {"saved", "clean"} => text \in stored

\* A pane armed to close is waiting for a save or for its password; a refused
\* password or a failed save disarms it, so no later save closes it
\* (close_after_save, abandon_root_save).
ArmedForCause ==
    closeAfter => saving \/ prompt.purpose = "Save"

\* A save that started is reported and gives up its lock, whatever becomes of the
\* file and of the connection (saving).
SavesLand == saving ~> ~saving

\* "None of them changes anything about the pane: a locked buffer stays locked":
\* said of Cancel, Escape and a click beside the password question.
CancelledStaysLocked ==
    [][(\E u \in unlocks: u.cancelled /\ u \notin unlocks') =>
         (readOnly => readOnly')]_vars

\* "The buffer goes to the clipboard, so nothing typed is lost": said of Reopen
\* from disk.
NothingTypedLost == ~lost
=============================================================================
