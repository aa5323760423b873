----------------------------- MODULE Transfers -----------------------------
(***************************************************************************)
(* What one batch of the file panel does to the files                      *)
(* (crates/rulogman-app/src/file_panel/operations.rs: the walks, and the   *)
(* loops that make, copy and remove; rulogman-ssh/src/sftp.rs and          *)
(* files/local.rs: what each of these does).                               *)
(*                                                                         *)
(* A batch plans first and acts on the plan, one request at a time, while  *)
(* others change the directories.  Names are paths, and a path may lead    *)
(* through a link to somewhere else, or round in a circle.                 *)
(***************************************************************************)
EXTENDS Naturals, FiniteSets, Sequences, SequencesExt

CONSTANTS
    Disks,     \* what there may be at first: functions from paths to entries
    Origins,   \* the directories the entries may be chosen in
    Target,    \* the directory uploads and downloads are for
    MaxOthers  \* bound: what others add or remove

VARIABLES
    op,      \* "upload", "download" or "delete"
    near,    \* both ends are this computer
    origin,  \* the directory on screen, perhaps by a path through a link
    into,    \* the directory that is written to
    chosen,  \* the names that were chosen
    start,   \* the files there were then
    tree,    \* the files there are
    theirs,  \* history: the paths others touched
    queue,   \* of the walk
    folders, \* UploadPlan.directories, DownloadPlan.directories, and those of plan_delete
    planned, \* the files of the plan; those still to be moved or removed
    moving,  \* the file under way, and what has been opened of it
    stage,
    stopped, \* TransferProgress.canceled, or the panel is gone
    failed,
    broken   \* history: a request failed that could have succeeded

transferVars == <<op, near, origin, into, chosen, start, tree, theirs, queue, folders, planned, moving,
                  stage, stopped, failed, broken>>
batch == <<op, near, origin, into, chosen, start>>

Nowhere == <<"nowhere">>
InPart == <<"part">>
File(data) == [kind |-> "file", to |-> << >>, data |-> data]
Folder == [kind |-> "dir", to |-> << >>, data |-> << >>]
Link(to) == [kind |-> "link", to |-> to, data |-> << >>]
NoFile == [to |-> Nowhere, data |-> << >>]
-----------------------------------------------------------------------------
(* Paths.                                                                  *)

Name == STRING
Path == Seq(Name)

IsFolder(d, at) == at = << >> \/ (at \in DOMAIN d /\ d[at].kind = "dir")

\* One name further, through a link.
Enter(d, at, name) ==
    IF ~IsFolder(d, at) THEN Nowhere
    ELSE IF name = ".." THEN Front(at)
    ELSE LET p == Append(at, name)
         IN IF p \notin DOMAIN d THEN Nowhere
            ELSE IF d[p].kind # "link" THEN p
            ELSE IF d[p].to \in DOMAIN d THEN d[p].to ELSE Nowhere

\* canonicalize: where a path leads.
Canonical(d, path) ==
    LET at[n \in 0..Len(path)] == IF n = 0 THEN << >> ELSE Enter(d, at[n - 1], path[n])
    IN at[Len(path)]

\* The entry a path names, a link itself.
Named(d, path) ==
    LET up == Canonical(d, Front(path))
    IN IF IsFolder(d, up) THEN Append(up, Last(path)) ELSE Nowhere

\* LocalSource.read_dir: a link to a directory is listed as both, one to nothing as a
\* file.
ReadFolder(d, path) ==
    LET at == Canonical(d, path)
        EntryOf(p) == [name |-> Last(p), link |-> d[p].kind = "link",
                       dir |-> IsFolder(d, IF d[p].kind = "link" THEN d[p].to ELSE p)]
    IN {EntryOf(p): p \in {p \in DOMAIN d: Front(p) = at}}

\* Service.read_dir: a server may list the parent as well.
ReadDir(d, path) ==
    ReadFolder(d, path)
      \union (IF op = "upload" \/ near THEN {}
              ELSE {[name |-> "..", link |-> FALSE, dir |-> TRUE]})

IsPlainName(name) == name # ".."

\* Everything is in a directory, which is no link, and has a name of its own.
IsTree(d) ==
    /\ IsFiniteSet(DOMAIN d)
    /\ \A p \in DOMAIN d:
          /\ p \in Path \ {<< >>, Nowhere} /\ IsFolder(d, Front(p))
          /\ \A n \in 1..Len(p): IsPlainName(p[n])
          /\ d[p] \in [kind: {"file", "dir", "link"}, to: Path, data: Path]

Placed(d, p, entry) == [x \in DOMAIN d \union {p} |-> IF x = p THEN entry ELSE d[x]]
Removed(d, p) == [x \in DOMAIN d \ {p} |-> d[x]]

\* The names that are used here are names, and no file is half moved before the batch
\* begins.
ASSUME TransfersAssumption ==
    /\ {"nowhere", "part", "late"} \subseteq Name
    /\ Origins \union {Target} \subseteq Path
    /\ \A path \in Origins \union {Target}: \A n \in 1..Len(path): IsPlainName(path[n])
    /\ \A d \in Disks: IsTree(d) /\ \A p \in DOMAIN d: d[p].data # InPart
-----------------------------------------------------------------------------
(* The walks.                                                              *)

Item(from, to) == [from |-> from, to |-> to]
Inside(q, name) == Item(Append(q.from, name), Append(q.to, name))

EveryDirectory(e) == e.dir \* mutant: a link to a directory is one
NeedsWalking(e) == e.dir /\ ~e.link

\* What is walked of the entries that were chosen: an upload finds out on the way,
\* a download follows a link that was chosen itself.
Walked(e) ==
    CASE op = "upload" -> TRUE
      [] op = "download" -> e.dir
      [] op = "delete" -> NeedsWalking(e)

\* The directory on screen is on one machine and the target on another, and no link
\* leads from one to the other.
TwoMachines(d) ==
    /\ origin # << >> /\ Target # << >> /\ Head(origin) # Head(Target)
    /\ \A p \in DOMAIN d:
          d[p].kind = "link" => (Head(p) = Head(Target)) = (Head(d[p].to) = Head(Target))

\* Where the directory on screen is.
OnScreen == Canonical(start, origin)

Began(d, names) ==
    LET entries == {e \in ReadDir(d, origin): e.name \in names}
        Items(S) == {Inside(Item(origin, into), e.name): e \in S}
        walks == Items({e \in entries: Walked(e)})
    IN /\ queue = SetToSeq(walks)
       /\ folders = (IF op = "upload" THEN << >> ELSE SetToSeq(walks))
       /\ planned = Items({e \in entries: ~Walked(e)})

TransferInit ==
    /\ op \in {"upload", "download", "delete"} /\ near \in BOOLEAN
    /\ start \in Disks /\ tree = start /\ origin \in Origins /\ IsFolder(start, OnScreen)
    /\ (~near => TwoMachines(start))
    /\ into \in (IF near /\ op # "delete" THEN {origin, Target} ELSE {Target})
    /\ chosen \in SUBSET {Last(p): p \in {p \in DOMAIN start: Front(p) = OnScreen}}
    /\ chosen # {} /\ Began(start, chosen)
    /\ moving = NoFile /\ stage = "plan" /\ theirs = {}
    /\ stopped = FALSE /\ failed = FALSE /\ broken = FALSE

GiveUp == failed' = TRUE /\ stage' = "over"

\* plan_upload: a directory that cannot be read is left out, and so is a link to one
\* or to nothing.
PlanUpload ==
    /\ stage = "plan" /\ op = "upload" /\ queue # << >>
    /\ LET q == Head(queue)
           p == Named(tree, q.from)
           behind == Canonical(tree, q.from)
       IN IF p \notin DOMAIN tree
          THEN queue' = Tail(queue) /\ UNCHANGED <<folders, planned, broken>>
          ELSE IF tree[p].kind = "dir"
          THEN /\ UNCHANGED planned
               /\ \/ broken' = TRUE /\ queue' = Tail(queue) /\ UNCHANGED folders
                  \/ /\ folders' = Append(folders, q)
                     /\ queue' = Tail(queue) \o
                           SetToSeq({Inside(q, e.name): e \in ReadDir(tree, q.from)})
                     /\ UNCHANGED broken
          ELSE /\ queue' = Tail(queue) /\ UNCHANGED <<folders, broken>>
               /\ planned' = IF behind = Nowhere \/ IsFolder(tree, behind) THEN planned
                             ELSE planned \union {q}
    /\ UNCHANGED <<batch, tree, theirs, moving, stage, stopped, failed>>

\* The entries of a directory that a walk looks at.
Plain(q) == {e \in ReadDir(tree, q.from): IsPlainName(e.name)}

\* One directory of a walk, which takes the files that are `kept`; one that cannot be
\* read ends the batch.
Walk(q, kept) ==
    LET there == IsFolder(tree, Canonical(tree, q.from))
        deeper == SetToSeq({Inside(q, e.name): e \in {e \in Plain(q): NeedsWalking(e)}})
    IN \/ /\ there
          /\ queue' = Tail(queue) \o deeper /\ folders' = folders \o deeper
          /\ planned' = planned \union {Inside(q, e.name): e \in kept}
          /\ UNCHANGED <<stage, failed, broken>>
       \/ GiveUp /\ broken' = (broken \/ there) /\ UNCHANGED <<queue, folders, planned>>

\* plan_download: a link to a directory is left out.
PlanDownload ==
    /\ stage = "plan" /\ op = "download" /\ queue # << >>
    /\ Walk(Head(queue), {e \in Plain(Head(queue)): ~e.dir})
    /\ UNCHANGED <<batch, tree, theirs, moving, stopped>>

\* plan_delete: a link is removed as such.
PlanDelete ==
    /\ stage = "plan" /\ op = "delete" /\ queue # << >>
    /\ Walk(Head(queue), {e \in Plain(Head(queue)): ~NeedsWalking(e)})
    /\ UNCHANGED <<batch, tree, theirs, moving, stopped>>

PlanDone ==
    /\ stage = "plan" /\ queue = << >>
    /\ stage' = "act"
    /\ UNCHANGED <<batch, tree, theirs, queue, folders, planned, moving, stopped, failed, broken>>
-----------------------------------------------------------------------------
(* Copying.                                                                *)

Copies == stage = "act" /\ op # "delete"

\* Service.mkdir, LocalSource.mkdir, create_all: a directory that is there is as good
\* as made.
MakeFolder ==
    /\ Copies /\ folders # << >>
    /\ LET p == Named(tree, Head(folders).to)
           is == IsFolder(tree, Canonical(tree, Head(folders).to))
           free == p # Nowhere /\ p \notin DOMAIN tree
       IN \/ /\ is \/ free
             /\ tree' = (IF is THEN tree ELSE Placed(tree, p, Folder))
             /\ folders' = Tail(folders) /\ UNCHANGED <<stage, failed, broken>>
          \/ /\ ~is /\ GiveUp /\ broken' = (broken \/ free)
             /\ UNCHANGED <<tree, folders>>
    /\ UNCHANGED <<batch, theirs, queue, planned, moving, stopped>>

NotAsked(from, to) == FALSE \* mutant: a file is copied onto itself
\* is_same_file, asked of two files of this computer
IsSameFile(from, to) == near /\ from = to

\* The loops of upload_now and run_download come to their next file, unless the batch
\* was stopped: Service.upload and download, and copy_file_as, up to the file made.
OpenFile ==
    /\ Copies /\ folders = << >> /\ moving = NoFile /\ planned # {} /\ ~stopped
    /\ \E f \in planned:
          LET from == Canonical(tree, f.from)
              named == Named(tree, f.to)
              to == IF named \in DOMAIN tree THEN Canonical(tree, f.to) ELSE named
              reads == from # Nowhere /\ ~IsFolder(tree, from)
              writes == to # Nowhere /\ ~IsFolder(tree, to)
          IN /\ planned' = planned \ {f}
             /\ \/ /\ reads /\ writes /\ ~IsSameFile(from, to)
                   /\ tree' = Placed(tree, to, File(InPart))
                   /\ moving' = [to |-> to, data |-> IF to = from THEN InPart ELSE tree[from].data]
                   /\ UNCHANGED <<stage, failed, broken>>
                \/ /\ GiveUp /\ broken' = (broken \/ (reads /\ writes /\ ~IsSameFile(from, to)))
                   /\ UNCHANGED <<tree, moving>>
    /\ UNCHANGED <<batch, theirs, queue, folders, stopped>>

\* The bytes, to the last or until reading or writing fails.
MoveBytes ==
    /\ moving # NoFile /\ moving' = NoFile
    /\ \/ /\ tree' = Placed(tree, moving.to, File(moving.data))
          /\ UNCHANGED <<stage, failed, broken>>
       \/ GiveUp /\ broken' = TRUE /\ UNCHANGED tree
    /\ UNCHANGED <<batch, theirs, queue, folders, planned, stopped>>
-----------------------------------------------------------------------------
(* Removing.                                                               *)

OutermostFirst(s) == Head(s) \* mutant: directories as they were found
LeavesFirst(s) == Last(s)

\* The loop of delete: files, then the directories from the deepest outwards; a file
\* is removed as itself, and of directories only an empty one.
RemoveNext ==
    /\ stage = "act" /\ op = "delete" /\ ~stopped
    /\ planned # {} \/ folders # << >>
    /\ \E f \in IF planned # {} THEN planned ELSE {LeavesFirst(folders)}:
          LET p == Named(tree, f.from)
              holds == {x \in DOMAIN tree: Front(x) = p}
              can == p \in DOMAIN tree /\ (IF f \in planned THEN tree[p].kind # "dir"
                                           ELSE tree[p].kind = "dir" /\ holds = {})
          IN /\ planned' = planned \ {f} /\ folders' = RemoveFirst(folders, f)
             /\ \/ can /\ tree' = Removed(tree, p) /\ UNCHANGED <<stage, failed, broken>>
                \/ GiveUp /\ broken' = (broken \/ can) /\ UNCHANGED tree
    /\ UNCHANGED <<batch, theirs, queue, moving, stopped>>

\* Nothing is left to do, or the batch was stopped between two files.
Finish ==
    /\ stage = "act" /\ moving = NoFile
    /\ op # "delete" => folders = << >>
    /\ stopped \/ (planned = {} /\ folders = << >>)
    /\ stage' = "over"
    /\ UNCHANGED <<batch, tree, theirs, queue, folders, planned, moving, stopped, failed, broken>>
-----------------------------------------------------------------------------
(* The user, and others.                                                   *)

\* cancel_transfer, or the window closes
StopBatch ==
    /\ stage # "over" /\ ~stopped /\ stopped' = TRUE
    /\ UNCHANGED <<batch, tree, theirs, queue, folders, planned, moving, stage, failed, broken>>

OthersChange ==
    /\ stage # "over" /\ Cardinality(theirs) < MaxOthers
    /\ \/ \E at \in {p \in DOMAIN tree: tree[p].kind = "dir"}:
             LET p == Append(at, "late")
             IN /\ p \notin DOMAIN tree
                /\ tree' = Placed(tree, p, File(p)) /\ theirs' = theirs \union {p}
       \/ \E p \in DOMAIN tree:
             /\ tree[p].kind # "dir" /\ p # moving.to
             /\ tree' = Removed(tree, p) /\ theirs' = theirs \union {p}
    /\ UNCHANGED <<batch, queue, folders, planned, moving, stage, stopped, failed, broken>>

TransferNext ==
    \/ PlanUpload \/ PlanDownload \/ PlanDelete \/ PlanDone \/ MakeFolder \/ OpenFile \/ MoveBytes
    \/ RemoveNext \/ Finish \/ StopBatch \/ OthersChange

TransferSpec == TransferInit /\ [][TransferNext]_transferVars
-----------------------------------------------------------------------------
(* Properties.                                                             *)

Below(p, q) == Len(p) >= Len(q) /\ SubSeq(p, 1, Len(q)) = q
Asked(p) == \E name \in chosen: Below(p, Append(OnScreen, name))

TransferTypes ==
    /\ op \in {"upload", "download", "delete"} /\ stage \in {"plan", "act", "over"}
    /\ \A p \in DOMAIN tree: p # << >> /\ IsFolder(tree, Front(p))
    /\ {near, stopped, failed, broken} \subseteq BOOLEAN

(* Nothing goes but what was asked to be deleted and is there by its own name: not
   what a link leads to, nor what a server lists beside its entries (plan_delete). *)
OnlyAskedIsGone ==
    \A p \in DOMAIN start \ DOMAIN tree: p \in theirs \/ (op = "delete" /\ Asked(p))

(* A copy leaves what it copies as it was, even into the directory it is in or onto
   a link back to it (copy_file_as). *)
SourceKept ==
    op # "delete" =>
        \A p \in DOMAIN start \ theirs: Asked(p) => tree[p] = start[p]

(* A walk comes to its end: it never goes round through a link. *)
WalkEnds == Len(folders) + Len(queue) <= 2 * Cardinality(DOMAIN start \union DOMAIN tree)

(* A batch that says it is done, and that nobody disturbed, has done all of it: every
   file below what was chosen is there, whole; or nothing of it is left. *)
DoneIsWhole ==
    stage = "over" /\ ~failed /\ ~stopped /\ theirs = {} /\ ~broken =>
        \A p \in DOMAIN start:
            Asked(p) =>
                IF op = "delete" THEN p \notin DOMAIN tree
                ELSE start[p].kind = "file" =>
                    LET to == Canonical(tree, into \o SubSeq(p, Len(OnScreen) + 1, Len(p)))
                    IN to \in DOMAIN tree /\ tree[to].data = start[p].data

(* A file is in part only while it is moved, after a failure, or where another batch
   left it. *)
NoPartLeft ==
    stage = "over" /\ ~failed =>
        \A p \in DOMAIN tree: tree[p].data = InPart => p \in DOMAIN start /\ start[p].data = InPart

\* The path on screen does not lead through what was chosen, by a link of it or round
\* through its directories.
LeadsPast ==
    \A n \in 1..Len(origin):
        LET path == SubSeq(origin, 1, n)
        IN ~Asked(Named(start, path)) /\ ~Asked(Canonical(start, path))

(* A deletion that nobody disturbs does not fail of itself, unless it removes the link
   it came through: what a directory holds goes first. *)
DeletesInOrder == op = "delete" /\ failed => broken \/ theirs # {} \/ ~LeadsPast

(* All of these. *)
TransferSound ==
    /\ TransferTypes /\ OnlyAskedIsGone /\ SourceKept /\ WalkEnds /\ DoneIsWhole
    /\ NoPartLeft /\ DeletesInOrder
=============================================================================
