------------------------------ MODULE SafeSave ------------------------------
(***************************************************************************)
(* How a file source replaces a file for the editor (crates/rulogman-app/  *)
(* src/files.rs, files/local.rs, files/windows_save.rs, files/wsl_fs.rs).  *)
(*                                                                         *)
(* A save compares the file with the contents the editor knows, stages the *)
(* new ones beside it, compares again and renames.  A script that does so  *)
(* on a host goes on when the connection that started it is lost.          *)
(*                                                                         *)
(* Contents are numbers: a text and the bytes it is written as share one.  *)
(* The last comparison and the rename are one step here; the code says it  *)
(* can be raced and that file systems offer nothing better.                *)
(***************************************************************************)
EXTENDS Naturals

CONSTANTS
    Sources,    \* of "local" (unix), "windows" and "script" (a host or WSL)
    MaxContents \* bound: the contents a file and a buffer go through

ASSUME SafeSaveAssumption ==
    Sources \subseteq {"local", "windows", "script"} /\ MaxContents \in Nat \ {0}

VARIABLES
    source,    \* the kind of FileSource
    limit,     \* bound: the contents of this behaviour
    file,      \* what is at the file's name
    backup,    \* the copy ReplaceFileW left of the original, the newest one
    fresh,     \* contents made so far
    job,       \* the save the editor waits for
    late,      \* a script whose connection was lost
    \* seen by the properties only
    noted,     \* contents the editor read or wrote
    blind,     \* a save replaced contents the editor did not know
    stored     \* contents the file ever had

disk == <<limit, file, backup, noted, blind, stored>>
saveVars == <<source, disk, fresh, job, late>>

None == "none"
Missing == MaxContents + 1 \* no file of that name
Torn == MaxContents + 2    \* a write in place that stopped in the middle
Contents == 0..MaxContents

Idle == [step |-> None, expected |-> 0, bytes |-> 0, result |-> None]
Save(step, expected, bytes) ==
    [step |-> step, expected |-> expected, bytes |-> bytes, result |-> None]
Landed(j, r) == [j EXCEPT !.step = "landed", !.expected = 0, !.result = r]
Running(j) == j.step \notin {None, "landed"}

SaveInit ==
    /\ source \in Sources /\ limit \in 1..MaxContents
    /\ file = 0 /\ backup = Missing /\ fresh = 0
    /\ job = Idle /\ late = Idle
    /\ noted = {0} /\ blind = FALSE /\ stored = {0}
-----------------------------------------------------------------------------
Replace(c) ==
    /\ file' = c
    /\ blind' = (blind \/ file \notin noted)
    /\ noted' = noted \union {c} /\ stored' = stored \union {c}

\* overwrite_disk: the file as it is now is what the save will replace.
ReadNow(j, k) ==
    /\ j.step = "read"
    /\ \/ /\ file # Missing
          /\ k = [j EXCEPT !.step = "compare", !.expected = file]
          /\ noted' = noted \union {file}
       \/ k = Landed(j, "failed") /\ noted' = noted
    /\ UNCHANGED <<limit, file, backup, blind, stored>>

\* The first comparison, and the new contents beside the file with its owner and
\* mode or not at all; a file that is missing or of the wrong kind, or has hard
\* links, is refused.
CompareAndStage(j, k) ==
    /\ j.step = "compare"
    /\ \/ file = j.expected /\ k = [j EXCEPT !.step = "commit"]
       \/ file \notin {j.expected, Missing} /\ k = Landed(j, "conflict")
       \/ source # "windows" /\ file = j.expected /\ k = Landed(j, "unpreservable")
       \/ k = Landed(j, "failed")
    /\ UNCHANGED disk

ComparedBefore(j) == TRUE \* mutant: compared once, before the staging
StillExpected(j) == file = j.expected

\* The second comparison and the rename over the file.
Commit(j, k) ==
    /\ j.step = "commit"
    /\ \/ /\ StillExpected(j)
          /\ Replace(j.bytes)
          /\ k = Landed(j, "ok")
          /\ UNCHANGED <<limit, backup>>
       \/ /\ ~StillExpected(j)
          /\ k = Landed(j, IF file = Missing THEN "failed" ELSE "conflict")
          /\ UNCHANGED disk
       \/ k = Landed(j, "failed") /\ UNCHANGED disk

\* ReplaceFileW, error 1177: the original is at the backup name only.
CommitHalf(j, k) ==
    /\ source = "windows"
    /\ j.step = "commit" /\ StillExpected(j)
    /\ file' = Missing /\ backup' = file
    /\ k = [j EXCEPT !.step = "restore"]
    /\ UNCHANGED <<limit, noted, blind, stored>>

\* restore_backup: MoveFileW does not replace a file that is there.
Restore(j, k) ==
    /\ j.step = "restore"
    /\ \/ file = Missing /\ file' = backup /\ backup' = Missing
       \/ UNCHANGED <<file, backup>>
    /\ k = Landed(j, "failed")
    /\ UNCHANGED <<limit, noted, blind, stored>>

\* write_in_place: one handle, compared and then written where it stands.
WriteInPlace(j, k) ==
    /\ j.step = "in_place"
    /\ \/ /\ file = j.expected
          /\ Replace(j.bytes)
          /\ k = Landed(j, "ok")
       \/ /\ file = j.expected
          /\ Replace(Torn)
          /\ k = Landed(j, "failed")
       \/ /\ file \notin {j.expected, Missing}
          /\ k = Landed(j, "conflict")
          /\ UNCHANGED <<file, blind, noted, stored>>
       \/ /\ k = Landed(j, "failed")
          /\ UNCHANGED <<file, blind, noted, stored>>
    /\ UNCHANGED <<limit, backup>>

RunSave(j, k) ==
    \/ ReadNow(j, k) \/ CompareAndStage(j, k) \/ Commit(j, k) \/ CommitHalf(j, k)
    \/ Restore(j, k) \/ WriteInPlace(j, k)

\* The connection goes while the host works: the outcome is unknown, and the
\* script may go on.
Lose ==
    /\ source = "script" /\ late = Idle
    /\ job.step \in {"compare", "commit"}
    /\ job' = Landed(job, "failed")
    /\ late' \in {job, Idle}
    /\ UNCHANGED <<source, disk, fresh>>

\* It runs on with nobody to tell, or is killed.
RunLate ==
    /\ late # Idle
    /\ \/ \E k \in {[late EXCEPT !.step = "commit"]} \union
                   {Landed(late, r): r \in {"ok", "conflict", "unpreservable", "failed"}}:
             /\ RunSave(late, k)
             /\ late' = IF Running(k) THEN k ELSE Idle
       \/ late' = Idle /\ UNCHANGED disk
    /\ UNCHANGED <<source, fresh, job>>

RunJob ==
    /\ RunSave(job, job')
    /\ UNCHANGED <<source, fresh, late>>

\* Another program writes the file: something new, or what it held before.
Outside ==
    /\ \E c \in stored \union {fresh + 1}:
          /\ c <= limit /\ c # file
          /\ file' = c /\ stored' = stored \union {c}
          /\ fresh' = IF c > fresh THEN c ELSE fresh
   
    /\ UNCHANGED <<source, limit, backup, job, late, noted, blind>>
=============================================================================
