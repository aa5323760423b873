# Verification of rulogman

rulogman is a graphical SSH terminal: every tab or pane shows a connection (an
SSH shell, a followed remote file or a local shell) that runs on threads of its
own and talks to the user interface through a byte-bounded event channel. A file
panel and an editor work on the files of the same hosts, and dialogs keep the
profiles, their secrets and the settings. This directory holds TLA+ modules of
the parts whose correctness depends on interleavings, failures and order, the
TLC configurations that model-check them, and TLAPS proofs of what matters most.

Paths below are relative to `src/crates/`, short file names to the crate just
named. The lines each definition models are in `PROJECT.json` under `map`; the
hazards the properties are for are there under `hazards`, each at its line.

## 1. Inventory

### 1.1 Parts, state, operations

| Part | State | Operations | What makes it correct |
|---|---|---|---|
| Output stream (`rulogman-stream/src/lib.rs`) | queue, byte count, closed, number of senders, reader's waker, writers' listeners | `Sender::send` (waits for room), `control` (never waits), `finish`, clone, drop; `Receiver::next_batch`, `poll_next`, `try_recv`, drop | order, one final event, the budget, no lost wakeup, every blocked send returns |
| SSH session (`rulogman-ssh/src/session.rs`) | worker's stage, command channel, shared size, input typed before the shell, pending output, exit state | `connect`, `send_input`, `resize`, `disconnect`, drop; `run`, `setup`, `drain_until_shutdown`, `main_loop`, `shutdown` | events in sequence, input and output in order and complete, every end is reported |
| Connection chain (same file, `session/agent.rs`) | legs dialed, verdict per host key, handles held, failure | load credentials, dial, handshake with its verdict, authenticate, teardown | no secret before trust, the failure names its leg, carriers outlive what they carry |
| Host-key trust (`rulogman-core/src/known_hosts.rs`, `rulogman-app/src/verifier.rs`) | the file's records, cached copy per process, mutex | `status`, `trust`, `forget`; `decide` and `forget` as read-decide-write cycles | no record lost or resurrected, one key per host |
| Tunnels (`rulogman-ssh/src/tunnel.rs`, `socks.rs`) | listener per rule, failure count, connections; the marks on a tab | open, accept, SOCKS greeting, copy; `OpenTunnels` and the tunnel events | a mark says a port is held by this tab |
| SFTP (`sftp.rs`) and remote commands (`exec.rs`) | the cached channel and its lock; one channel per command | open, list, read, write, invalidate; `execute`, `await_reply`, `collect` | each request answered; a failure costs one channel; no wedge between feeding and reading; the whole answer or an error |
| Local shell (`rulogman-pty/src/session.rs`, `driver.rs`, `windows.rs`) | control, reader, writer and waiter threads, published process ID, shared sink, pseudoconsole | spawn, input, resize, shutdown, foreground process | the ID is never stale, `Exited` follows the output, a hang-up ends the session; both drivers promise the same |
| Session entity (`rulogman-app/src/session.rs`) | status, stage, transport, credentials awaited, forwardings shown, host-key offer, size, foreground read | start, connect, reconnect, disconnect, input, resize, one handler per event | what a tab shows is true of the transport it has |
| Workspace (`workspace/`) | tabs, panes, groups, menus, dialogs, windows; the close guard; dashboards | open, split, move, detach, close with guard, quit, arrange, save a dashboard | no work ended unasked; indices follow the tabs; an arrangement is applied to the panes it was made of |
| File panel (`file_panel.rs`, `file_panel/`) | path, listing, selection, menus, question, notice per session; batches and the one slot | list, select, rename, make, delete, copy both ways, cancel; switch sessions | questions are about what is shown; the slot is handed on; nothing removed is listed; a batch touches what was asked for |
| File sources and editor (`files.rs`, `files/`, `editor_pane.rs`) | the file and its version; buffer, job in flight, locks, root access | compare, stage, rename, run the save script; type, save, reload, unlock, close | no contents nobody read are replaced; saved means on disk; a pane closes for cause |
| Dialogs and stores (`connection/`, `settings_dialog.rs`, `app_settings.rs`, `rulogman-core`) | `profiles.json`, `settings.json`, `dashboards.json`, the keychain; each window's forms and copies | edit, save, delete, duplicate, import, connect; apply; keychain work | a secret stays where it was typed for; list and keychain agree; no writer undoes another |
| Terminal emulator and view (`rulogman-term`, `terminal_view.rs`, `tail_view.rs`) | charset decoder, line keeper, directory watcher, grid, scrollback; selection, search, mouse modes, paste question, card of a refused key | feed, resize, clear, filter; drag, scroll, search, click, paste, answer | reading does not depend on where chunks end; selection and matches are on their rows; the program hears each release; several lines are not pasted unasked |
| Launch, command line, update check, key encodings, themes | - | - | sequential |

### 1.2 How they interact

- **Channel.** An SSH worker thread and the pty threads publish events through
  clones of one `Sender`; the pump task of the session entity reads them on the UI
  thread in batches. Data is bounded by bytes, control events are not.
- **Commands.** The entity calls the transport's handle; commands go through an
  unbounded channel, and dropping the handle closes it, which is a disconnect.
- **Callback.** The SSH handshake calls the `TofuVerifier` on the worker's
  thread. All threads of a process share its mutex; processes share only the file.
- **Shared state.** The terminal size is shared between the drain and the setup
  of a worker; the shell's process ID between the control thread and readers.
- **Tasks.** Keychain reads and writes, foreground reads, listings, transfers,
  saves, reloads and removals of a host key return to their entity when it may have
  moved on; a replaced pump's events go with it.
- **Files.** Windows of one process share the entities but keep their own copies of
  the lists; other programs write the same files with no lock.

### 1.3 Hard behaviours

Wakeups lost between a check under the lock and an await; control events that
bypass the budget; a disconnect against every await of setup; exit status, EOF,
close and loss in any order and against a view that reads nothing; a failure in the
middle of a route; read-decide-write cycles over one file; a process ID published
across a reap; ports taken and listeners that give up; answers that arrive after
the state they were asked for (keychain, foreground, listings, menus, reloads,
the clipboard); typing while a save is in flight; another program between a comparison
and a rename; a slot handed on by batches that are canceled, fail or are hidden;
snapshots written back by dialogs; rows that move under a selection or a search;
mouse modes that change between press and release.

## 2. Modules

| Module | Models | Composition |
|---|---|---|
| `EventStream` | abstract: what the channel promises | |
| `OutputStream` | `rulogman-stream`, step by step | refines `EventStream` |
| `SshSession` | worker, handle, events; the server as environment | uses the stream by its promise; the route is one stage |
| `SshChain` | `connect_chain` and the teardown of its legs | the detail of that stage |
| `KnownHosts`, `TofuVerifier` | records and functions; `decide` and `forget` of threads and processes | the second extends the first |
| `Tunnels` | listeners, tunnel events, the marks of tabs | |
| `SshServices` | SFTP on one cached channel, commands on their own | |
| `PtyEvents` | abstract: what a local session promises | |
| `PtySession`, `WindowsPty` | the two drivers, kernel and console as environment | the second extends the first; both refine `PtyEvents` |
| `AppSession` | the session entity | its transport is external and does what the modules above allow |
| `CloseGuard` | windows and quitting over shells whose foreground is read | |
| `Workspace` | tabs and panes of one window | |
| `Dashboards` | a dashboard's tab and its saved arrangement | |
| `FilePanel` | listings, questions, notices, batches and the slot | |
| `PanelMenus` | selection, menus, path crumbs, opening in the editor | |
| `Transfers` | what a batch does to a tree of files | |
| `SafeSave`, `EditorPane` | how a source replaces a file; the editor's pane | the second extends the first |
| `ConnectionDialog` | profiles, form, keychain work, import | |
| `SettingsFiles` | settings and dashboards under several dialogs and tabs | |
| `Parts` | the last two side by side | extends both |
| `TerminalStream` | decoder, line keeper, directory watcher, filter bar | |
| `TerminalView` | rows, scrolling, selection, search | |
| `TerminalMouse`, `TerminalText`, `KeyReplacement` | mouse reports; typing and pastes; the refused key's card | instantiated in `MCTerminal` |
| `*Proofs` | theorems, section 4 | extend what they prove about |
| `MC*` | instances for TLC | |

**Side by side.** Where parts have nothing to say to each other, one run holds
several: a variable names the part a behaviour is of and the others stay at their
start, so the run costs the sum of the parts and not their product (`Parts`,
`MCTerminal`, `MCWorkspace`, `MCSshChain`, `MCAppSession`, `MCPtySession`).

**Named by what they join.** A property of a run is often a conjunction of named
parts, each with its own comment in the module: `StreamSound` is order, one final
event, budget and both wakeup invariants; `WindowsSound` is one conjunct for each
part of `MCWorkspace`.

Operators marked "mutant" are changed forms of the definition that follows them and
are never used by a specification. They record, for each property, a bug that TLC
finds through it.

### 2.1 Streams and sessions

**OutputStream.** Work under the mutex is one step (`TrySend`, `Control`,
`Finish`, `Batch`); what the code does outside is a step of its own: `listen()`
before the lock, registering the reader's waker before the lock, waking the reader
and notifying writers after it. `pc[p]` is where the send of handle `p` stands; a
cancelled send drops its future at an await. Events carry a running total of bytes,
so that the weight of any part of the queue is a difference and needs no recursion.

**SshSession.** `pc` is the await at which the worker stands. During setup `Drain`
takes commands concurrently, as `drain_until_shutdown` does; in `"loop"` each branch
of `main_loop`'s unbiased `select!` is an action. `wire` is what russh received and
`wait()` has not returned; messages are cut in chunks and wait in `pending`. The
transport's loss is seen three ways (failed write, closed channel, the handler's
oneshot), each with its own step. Left out: what `connect_chain` does inside.

**SshChain.** `pc`/`leg` walk the legs; `verdict` is each handler's `key_state`;
`held` the handles alive; `broken` closes upwards, as a leg's transport runs through
the one before. `Cancel` drops the future anywhere. Timeouts and refusals are one
failing outcome per stage; the failure's kind and leg are kept, its words are not.

**KnownHosts, TofuVerifier.** The file is a sequence of records. A call of `decide`
or `forget` takes the process's mutex, then reads, decides and writes in steps of
their own, each of which may fail; `forget` works on the cache and on a fresh copy.
History variables say what the file was told.

**Tunnels.** Each start of a tab makes a worker that asks for the profile's ports
unless a sibling shows them; a listener gives up after a run of failed accepts;
`TunnelOpened`, `TunnelFailed` and the final events wait in the worker's queue until
the tab handles them. The SOCKS handshake is one step that asks, fails or times out.

**SshServices.** Requests queue for the SFTP lock, find the cached channel or open
one, and forget it when they fail. A command is fed and read under one `select!`
over bounded windows; the end's three messages come in any order.

**PtySession, WindowsPty.** One action per loop step of each thread. The Unix kernel
keeps what was written to the slave until it is read and reports the end only when
nobody holds the slave, so a background process keeps the reader alive after its
shell. On Windows the reader can only be ended by closing the pseudoconsole, after
the waiter's grace; its opening question (`ESC[6n`) is left to the terminal.

### 2.2 The session's entity and the windows

**AppSession.** All of it runs on the UI thread: an action is a whole handler.
`Start` contains `connect` unless the keychain has to be read; `Pump` handles one
event with every fold over it. The transport is external: it emits what the modules
above allow, and a resize before Ready may be lost, which `SshSession` shows can
happen.

**CloseGuard.** Time is counted in steps of the read's timeout; an answer is held
for `Fresh`. A gesture (closing a window, or quitting, which stands for a restart
too) asks every shell it has no fresh answer of, and is made again when the last has
answered or timed out. A shell starts a program as soon as it is typed at.

**Workspace.** A tab is the order of its panes and the order they had the focus in;
where its splits lie is `Dashboards`' business. Sessions end on their own, in the
middle of a menu, a drag or a question; `menu`, `drag` and the bulk
close's queue keep what they were given when they began.

**Dashboards.** A tab opened from a dashboard keeps the panes that could be opened;
an arrangement names them by place. The settings may replace the list at any time.

### 2.3 Files

**FilePanel.** One state per session, kept while another is shown. Requests carry
the generation they were made at; answers come in any order. The slot is one for the
window; batches wait for it. **PanelMenus** adds what is selected, which menu is open
and which file is opened where. **Transfers** plans a batch over a tree with links,
then makes, copies and removes one by one while others add files and remove files
and links. The directory on screen is the path that led there, which is listed as it is
and may go through a link (`origin`); `OnScreen` is where it leads.

**SafeSave, EditorPane.** Each source replaces a file in its own way: by comparison
and rename beside it, in place, or through a script that goes on alone when the
connection is lost. The pane keeps one job in flight and finishes it whatever was
typed meanwhile.

**ConnectionDialog.** Profiles and jump hosts are named by accounts, handed out once.
The keychain's task runs a job in one step and answers in another; `strays` are the jobs of deleted or abandoned forms. `muddled`
are the accounts at which a failure was met and told. `Elsewhere` is another window.

**SettingsFiles.** Each window's dialog works on a snapshot and writes both files;
tabs write single dashboards; a file may be damaged and the program may crash.

### 2.4 Terminal

**TerminalStream** feeds chunks cut anywhere through decoder, line keeper, watcher
and filter; bytes are tokens, and a stream with split characters is one of a legacy
charset. **TerminalView** numbers the rows held from the oldest, as the code does;
its properties speak of that number plus the rows dropped, which never changes and
which the code never sees. **TerminalMouse** keeps which modes each press was made under,
**TerminalText** which paste a question is about, **KeyReplacement** which refusal
a card was opened over and which removals run.

## 3. Runs

Every run explores its whole state space.

| Run | Shows | Distinct states |
|---|---|---|
| `stream` | two handles race sends, controls, finish, drop and cancellation against a consumer that batches, polls, cancels and drops: order, one final event, budget and wakeups (`StreamSound`), every blocked send returns and everything is delivered (`Progress`), refinement of `EventStream` (`KeepsPromise`) | 163 033 |
| `ssh_session` | commands, output, exit messages, loss, EOF grace and a dropped receiver in every order at every stage: nothing lost or overtaken (`SessionSound`), events in sequence, disconnect, dropped receiver and loss each end the session although nobody reads (`SessionsEnd`) | 763 848 |
| `ssh_chain` | every failure, break, verdict and cancellation on a route of three legs; the forwardings of two tabs; two threads over one `known_hosts` file; the panel's menus and selection between two sessions | 2 255 152 |
| `pty` | the threads of both drivers, the shell, a process it leaves behind and the consumer: the published ID, input and output order, `Exited` after both, the end after a shutdown or an exit, and the shared promise | 326 934 |
| `app_session` | a shell, a followed file and a local shell over direct, hopped and keychain routes, started twice, with events in flight at every disconnect, reconnect and resize: what the tab shows is true of its transport; two windows closed or quit over two remote shells whose hosts answer late or never | 1 563 145 |
| `editor` | a local file, one of the Windows backend and one saved by script: typing, saving, reloading, conflicts, root access and closing while another program writes the file and any step of a save fails | 566 606 |
| `workspace` | tabs split, merged, dragged, detached and closed while sessions end; the panel's listings, batches, questions and notices with late answers; a batch over a tree with links while others change it; a dashboard opened, rearranged, painted and saved while the settings change it | 1 029 307 |
| `ssh_services` | SFTP requests on the shared channel and commands on their own over bounded windows, with the link lost at any time: each is answered (`Answered`), whole or with an error (`AnswerIsWhole`) | 219 392 |
| `parts` | the connection dialog with its keychain thread and another window on `profiles.json`; the settings and dashboards of two windows through damage, crashes and failed writes | 639 726 |
| `terminal` | the parts of a terminal pane: chunks cut anywhere; drags, wheel, autoscroll and search over rows that move; mouse presses across changes of mode; pastes across changes of mode; the card of a refused key | 708 954 |
| `editor_reopen` | violated: section 5 | |
| `search_jump` | violated: section 5 | |

Deadlock is checked in `stream`, `ssh_session`, `ssh_chain` and `pty`, where `Done`
stutters once a component is finished. In the others the bounds end the behaviours:
once the changes are used up there may be nothing left to do.

**Bounds, and why they are enough.** Each limit is at one or two, so that it is
met: the queue's capacity of 3 with events of 2 bytes makes a second producer wait;
one chunk of budget and two of output put one in the stream, one in `pending`, and
a split message between them; one SFTP channel too many and one byte over the cap
are reached.

| Run | Instance |
|---|---|
| `stream` | 2 handles, events of 2 and 0 bytes, capacity 3, batches of 2 |
| `ssh_session` | 2 commands (one drained in setup, one in the loop), 2 chunks, budget 1, narrow to wide |
| `ssh_chain` | 3 legs (a first, a middle, a last), every choice of methods; 2 tabs, 2 rules of which one dynamic, 2 transports, 2 failed accepts, 1 connection; 3 spellings of 2 hosts, 3 keys of 2 algorithms, 2 threads, 3 calls, failing reads and writes; 2 sessions, 2 folders, 2 rows, 2 requests after the first listing |
| `pty` | 2 commands, 2 pieces of output, budget 1 |
| `app_session` | 3 kinds, 3 routes, 2 sizes, 1 rule, 2 starts (stale meets new), 3 queued events (a rule opened, withdrawn, an end); 2 windows, 2 shells, 2 gestures, 1 change, timeout 1 to freshness 3 for the code's 2 s to 5 s |
| `editor` | 3 sources, 2 contents besides the first |
| `workspace` | 3 panes and tabs; 2 directories, names, listings and batches in 3 requests; 2 connections, 3 panes, 3 edits; trees with links out, round and to nothing, the directory on screen by its name and by a link back to it, 1 change by others |
| `ssh_services` | 2 requests, 2 channels, input, buffer, backlog and limit of 1 |
| `parts` | 3 accounts, 1 host, 2 edits and troubles of which 1 trouble; 2 windows, 2 dashboards, 3 changes, 1 damage |
| `terminal` | chunks of up to 3 tokens, 2 lines kept; 2 columns by 2 rows, history 1, 1 row drawn, 1 drag; 2 buttons, positions near, far and outside, 2 modes, 1 hide; 3 texts, 2 reads; 2 keys, 2 refusals |

The theorems of section 4 lift the bounds for all but the parts named at its end.
With four or more shells that never answer in time, read one after another, the
freshness of five seconds is shorter than the four timeouts and a held close could
be held for ever: the proof of `GuardIsSound` does not exclude it (it states that
nothing is ended unasked), and the run has two shells.

### 3.1 Fairness

- `OutputStream`: a send that began is scheduled to its return (`ProducersRun`), and
  the reader finishes its drop. `ConsumerRuns` (the pump reads in a loop) is an
  assumption of the properties that need it, not of the specification.
- `SshSession`: the worker is one tokio task and its branches are scheduled weakly
  fairly (`select!` picks among the ready ones at random). Nothing is assumed of the
  owner, the reader, or the server, except `Flush` in `FairServerSpec`: the server's
  window opens or the connection breaks (section 5).
- `PtySession`, `WindowsPty`: threads run; the waiter's grace passes; a child that
  was killed or hung up ends. Without the last, `Reap` waits for ever in the code
  too. Nothing is assumed of what the shell reads, of background processes, or
  (except where a property says so) of the consumer.
- `SshServices`: requests are served strongly fairly, as tokio's lock is handed out
  first come, first served; the session's task and the delivery of what the server
  sent weakly. Nothing makes the transport fail.
- `EditorPane`: a job handed to the executor runs, its outcome is delivered, and a
  save, once begun, finishes. Nothing is assumed of the user or of other programs.
- The other modules state safety only: their liveness is a matter of the user, the
  server or the operating system.

## 4. Theorems

All are proved for every value of the constants under the named `ASSUME`s, which
give types and positivity and a few facts the code has: hosts have several
spellings but one folded form (`KnownHostsAssumption`), what is on a disk is a tree of
finitely many named entries, none half moved at first (`TransfersAssumption`), rules have
labels of their own (`TunnelsAssumption`; the code leaves the bind address out of the label, section
5), the timeout is shorter than the freshness (`CloseGuardAssumption`). Each module's
invariant is a conjunction of named parts, with one lemma for each action.

**OutputStreamProofs.** `IInv == TypeInv /\ DataInv /\ WakeInv`. `TypeInv` types
`bytes` as an integer only: that it never underflows follows from `DataInv`, whose
`QueueChained` (running totals are consecutive) makes the weight of a batch a
difference. `WakeInv` adds `ReaderWakeable`: a reader about to look, or asleep, has
its waker registered or was woken; without it `ReaderParkedForCause` is not
inductive. From it `StreamIsSound` with its parts, and `Implements`: each step is a
step of `EventStream` or a stutter.

**SshSessionProofs.** `SessionInv` says what each stage of the worker has left to
do, that the pieces of output published, kept early, pending and on the wire are
numbered on without a gap up to what the server sent, that queued commands carry on
the input handed over, and which events each stage may have published. From it
`SessionIsSound` and `EventsAreInSequence`.

**SshChainProofs.** `ChainInv` says where the walk stands: every leg before the
current one accepted, none beyond it asked, one HostKey event per verdict, which
legs are held. From it `TrustComesFirst`, `RejectionIsExact`, `CarriersAreHeld`,
`HostKeysOrdered`. `TofuInv` relates file, cache and copies of the calls in flight;
`RecordsAreKept` and `ForgottenStaysSo` have the hypothesis that all threads are of
one process, since two processes do overwrite each other (section 5). What `Forget`
computes is proved by induction over sets. `TunnelInv` follows each transport's
events up to the tab's marks: `MarksAreOfListeners`.

**PtySessionProofs.** `ShellInv` says where the control thread may be in each state
of the child, that no output is lost on its way to a stream still read, and that
what the control thread takes for the end of its reader is that end:
`ShellsAreSound`. `ShellsImplementPromise`: both drivers refine `PtyEvents`.

**SshServicesProofs.** `ServicesInv`: one channel is cached, the others were given
up for cause; and the bytes of a command's output are each in one place, said by a
count over its queues. From it `ServicesAreSound`, `AnswersAreWhole`.

**FilesProofs.** `EditInv`: what the buffer, the job in flight, the locks and the
disk say of each other; `PaneIsSound`, `CleanWasStored`, `ArmedPaneWaits`.
`PanelInv`: whose request is the latest, how true each answer under way still is and
whose the slot is; `QuestionsAreOfTheListing`, `RemovedIsNotShown`, `PanelIsSound`.
`MenusInv`: `MenusAreSound`.

`TransferInv`, of a batch, for any trees, links and directories. `BatchInv`: every job
lies below what was chosen (`Jobs`), the files stay a tree whose links are those there
were at first, what is in part is what is being moved, and a copy to another machine
touches that machine only, since no link leads across: `BatchIsSound`. `DeletionInv`
adds what a deletion needs to have all of it:

- nothing is there but what was, or a file of others (`OldOrTheirs`), so a path that
  still leads to a directory leads to the one it led to (`WayKept`), and a planned name
  is at its place or gone (`NamesItsPlace`);
- the queue is the rest of the directories, each once, and each after the one it is in
  (`EachOnce`): taken from the last on, none holds another, and as the places differ
  there are no more of them than directories, so the walk ends;
- what is left of what was asked is planned, or below a directory yet to be walked
  (`Covered`), and what is planned is there (`Present`), as long as others leave it alone.

None of these is inductive without the others: that the last directory is empty when its
turn comes takes `Covered`, `EachOnce` and `WayStays`, the lemma that the path on
screen still leads there if it does not lead through what is deleted (`LeadsPast`).
From it `DeletionIsSound`. The lemmas under it say what `Canonical` does by induction
over the path (`CanonicalStep`, `LeadsStraight`, `LeadsThere`).

**WindowProofs.** `WindowInv` is the strip's: each tab holds its panes once, its focus
order lists some of them, each once, and ends with the active one (`TabSound`); no two
tabs share a pane or an id, and ids are below the next to be given (`StripSound`); the
active index is one of the strip (`ActiveIn`); and what is connected or unsaved is in a
tab or in another window. `WindowSound` says less of the ids and the range of panes, and
is not inductive for that: a tab opened under an id still in the strip would share it.
From it `WindowIsSound`. A bulk close takes the tabs one by one from the last on;
`BulkClosed` is the strip after each visit, and an induction over the visits shows where
each tab that stays is by then and that the active and the surviving one were followed
to it. With the same for a single close and a move, each tab left is mapped to where it
was, and `OthersAreLeft` follows. It is the only theorem about `Workspace` that speaks
of two states.

`PaneInv`, of a terminal pane, joins the card's, the texts', the mouse's and the
view's. `CardInv`: without a refusal a shown pane offers and a hidden one has not
been asked. `MouseInv`: whichever button the program was told of is down, or its
release was missed while the pane was hidden. `ViewInv`: the grid's sizes, what a
drag and a selection cover, and where the matches lie. From it `AnswersBelong`,
`MouseIsSound`, `PastesAreAsked`, `ViewIsSound`, and `SearchStepsOn` (matches have
ranks in reading order), whose hypothesis `ScreenRows >= 2` excludes the screen of
one row, where the code scrolls a match out of sight (section 5).

**AppProofs.** `AppInv` relates the view, the transport and the queue between them:
an opened rule still queued is bound or withdrawn further down, a final event is
the last one and its transport over. From it `TabsAreHonest`,
`OffersBelongToTheirAttempt`, `EndsAreFinal`. `GuardInv` bounds the age of what is
held fresh by the time its reads have left: `GuardIsSound`.

`PartsInv` is the dialogs'. Its connection half, `DialogInv`:

- an account is a profile's or one profile's jump host's, within the file, the
  window's copy and between the two (`ListsInv`); the form's fields and jump host
  are its profile's own (`FormInv`);
- a job carries a secret of its own account only, and what a waiting job will write
  is what the list says by now, but for accounts a failure was met at (`JobsInv`);
- the copy is what the file says, again but for those (`ReadInv`, with the tick of
  the jump host's box);
- keychain and list agree on every account that no waiting job is going to write
  (`AgreeInv`). This last is what `KeychainMatchesList` says at rest; it is not
  inductive without the others: a plan made from a copy that is out of date, or two
  plans for one account, would break it one step later. `StoreClaims` is the lemma at
  its heart: what a save stores in the list and what it plans for the keychain agree
  account by account.

Its settings half, `SettingsInv`: the placement in force is that of the window moved
last, and a dialog that is open, readable, unedited and not outdated holds exactly
the file's dashboards with their arrangements (`Faithful`). From both:
`PartsAreSound`, `FilesAreKept`, `SessionsAreAsAsked`.

**Only model-checked.** Liveness (`Progress`, `SessionsEnd`, the ends in
`ShellsKeepPromise`, `SavesLand`, `Answered`): the prover has no rule for fairness
here. The dashboard's part of `WindowsSound` and `BoardsKept`: `Dashboards` walks trees
with RECURSIVE operators, which are out of the prover's reach, and so is what extends it
(`WindowsSound` itself is stated there; `WindowIsSound`, `PanelIsSound` and
`BatchIsSound` with `DeletionIsSound` are its tabs, its panel and its batch). Of copies:
that a finished one is whole (`DoneIsWhole`), that its walk ends (`WalkEnds`, whose bound
is that of the instance, since a chosen link adds what it leads to), and that one
within this computer leaves its source alone (`SourceKept`). `StreamReads`:
`TerminalStream` reads chunks with folds of the library, whose induction theorems take an
operator the provers cannot instantiate. What a recursive definition computes
for every input is proved only where an induction over sets or numbers (the library's
well-founded orders) replaces the operator.

## 5. Disagreements between the code and what it says

Two have a run in which TLC finds the sentence violated.

| Run | Sentence | What happens |
|---|---|---|
| `editor_reopen` | `editor_pane.rs:1407`: "the buffer goes to the clipboard, so nothing typed is lost" | Reopen copies the buffer when it is clicked (`:1024`) and the reload replaces the buffer as it is when the read lands: what was typed in between is in neither |
| `search_jump` | `terminal_view.rs:1259`: output arriving in between "does not make it jump" | `find_step` (`:1272`) looks its match up by a row that a full scrollback has shifted, and starts over from an end |

The others are definitions kept in the modules, each beside the words it says; adding
one to its module's run shows it violated.

| Definition | Sentence | What happens |
|---|---|---|
| `SshSession!DisconnectEnds` | ssh `session.rs:150`: the final event still arrives after a disconnect | input buffered during setup is flushed outside the `select!`; with a closed window a disconnect is not looked at (under `FairSpec`, which leaves out the fairness of `Flush`) |
| `SshSession!ResizesReachServer` | `:551`: resizes before the shell are not lost | one made during the await of `window_change` is; the entity's push on Ready makes up for it |
| `TofuVerifier!RunOnlyTrustKept` | `verifier.rs:55`: the cache holds keys trusted for this run | a key that could not be written goes with the next successful read |
| `PtySession!OutputUpToTheEnd` | pty `session.rs:342`: output is published up to the end, then `Exited` | input that meets a dead shell ends the control loop while the reader still holds output |
| `WindowsPty!GraceForThePipe` | `windows.rs:57`: the grace is only spent when something is wrong with the pipe | a reader waiting for room in the stream spends it too, and what it and the pipe hold is lost |
| `Tunnels!EndsClosePorts` | app `session.rs:677`: "local ports are already closed" | the worker emits its final event before its runtime, and the listeners with it, are dropped |
| `Tunnels!SecondTabAsksNot` | app `session.rs:1407`: a second tab does not ask for ports the first holds | it does until the first has handled `TunnelOpened` |
| `AppSession!TailHearsNothing` | `:842`: one place refuses all input | the terminal's replies to queries bypass `input_locked` |
| `AppSession!ForegroundTrusted` | `:97`: a read is trusted while nothing was typed since | an answer under way while the user types is stored as fresh |
| `Workspace!MenuActsOnItsTab` | `workspace/mod.rs:896`: the tab the menu was opened for | a session's end under an open menu moves its index to another tab |
| `PanelMenus!OneBufferAnywhere` | `tabs.rs`: "two panes editing one file would each write the other's work away" | a file taken to another window is opened again in the first (and, against `editors.rs:19`, once per session of one host) |
| `FilePanel!UnseenOutcomeStays` | an outcome nobody has looked at "does not expire" until the panel is shown | a listing that answers meanwhile with another directory clears it |
| `EditorPane!CancelledStaysLocked` | "a locked buffer stays locked", said of Cancel beside the password question | an unlock already under way goes through |
| `TerminalStream!BarTellsErrors` | `filter_error`: "whether what the bar holds failed to compile" | changing the mode over a pattern that does not compile takes the mark away |
| `TerminalText!QuestionHoldsTyping` | `on_key_down`: nothing is sent while the paste question is up | composed text, a second paste, and a paste of one line are sent meanwhile, and a second answer overwrites the text asked about |
| `KeyReplacement!ForgetsOnlyRefused` | a record is removed for the refusal it was confirmed over | overlapping removals may remove the key recorded since |

Seen while modelling, without a definition, and by reading only:

- **Connections.** A failed load of credentials publishes Error before any
  Connecting (ssh `session.rs:513`, `event.rs:114`). A broken socket is reported as
  an Error when the failed write is selected before the loss (`:409`, `:1424`). An
  agent's key is loaded after the first dial, a file's before it (`:835`, `:1127`).
  Two processes overwrite each other's records (`verifier.rs:24`). `would_end_work`
  counts a session that waits for the keychain (app `session.rs:1322`). Labels leave
  the bind address out (`tunnel.rs:112`), so a second rule's failed bind withdraws the
  first's mark, against app `session.rs:684`. The comment that the host-key question is
  only seen by whom it is asked (`terminal_view.rs:2887`) fails for a pane hidden over
  its failure, reconnected from the tab's menu and refused again.
- **Windows.** Opening the next startup dashboard calls `close_overlays`, which
  clears the request of the one before and closes its form (`windows.rs:440`).
  Removing a pane and adding another in the settings makes an old arrangement valid
  again, for other files.
- **Files.** A crash or failed copy while the configuration moves leaves the new
  directory half-filled and later launches never finish it (`migrate.rs:95`, against
  "no worse than not having migrated at all"). A selected name that vanishes from a
  listing and comes back is selected again. A crumb's answer replaces a context menu
  opened meanwhile. A charset reload replaces a buffer edited and saved meanwhile.
  Overwriting in the root mode that asks each time carries no password. `go` at the
  end of a batch re-creates the state of a forgotten session. A canceled batch whose
  file failed hides the error. A finished upload or deletion takes the panel back, and
  a deletion drops an open question. The picker uploads to whatever is shown when it
  returns. A broken link fails a download but is left out of an upload ("Mirrors
  plan_upload", `operations.rs:84`); an unreadable directory is left out of an upload
  that says it succeeded; a local directory with a name that is no Unicode cannot be
  emptied. A command's partial output is reported without a status, as a success,
  when the link goes while it is collected. A directory entered through a link is listed
  by that path (`navigation.rs:342`), so a deletion of that link, or of a directory on the
  way to it, loses its own way and fails half done (`LeadsPast`).
- **Dialogs.** Edits typed while the keychain answers count as clean (`form.rs:644`).
  Deleting a profile whose keychain write is pending leaves an orphan entry. Save in
  one window brings back a profile deleted in another. Saving the settings writes the
  whole list of dashboards, arrangements and `ignored_update` from the snapshot
  (`settings_dialog.rs:1536`), so two windows' dialogs overwrite each other, and only
  the saving window takes the new list over.
- **Terminal.** `GridPos` says that a full scrollback is the one thing a position
  does not survive; `CSI 3 J`, the alternate screen, a reflow and a reconnect shift
  rows too. `find_step` also jumps after the scrollback was cleared. A new line filter
  replays kept lines through the emulator: bells, clipboard writes, replies and
  directories happen again. An escape inside an OSC is swallowed with what follows it.
  On a screen of one row the current match is scrolled out of sight. A release past
  column 223 in the legacy encoding is never sent; a release while the tab is hidden
  leaves the press's modes, and a later local drag stays in flight.

## 6. Not modelled

`PROJECT.json` lists each part with its reason. In short: rendering, themes, layout
and wording; parsers (`ssh_config`, patterns, escape sequences, which are
`alacritty_terminal`'s) and serialization, sequential functions over text that unit
tests reach; the SOCKS greeting and the text of the save script, whose outcomes are
modelled; the upload picker; launch, command line, update check and the list of WSL
distributions, which run once; configuration and event types, which are data. The one
hazard without a property (two tabs of a profile asking for its ports at once,
`workspace/sessions.rs:42`) is what `SecondTabAsksNot` says, and does not hold.

What else is left out, and would change a verdict: a directory replaced by a link
between a delete's listing and its walk; a resize that reflows the grid; another program at the keychain.
