---------------------------- MODULE MCPtySession ----------------------------
(* A local shell on either system, with two sizes and an event stream with  *)
(* room for one read.                                                       *)
EXTENDS WindowsPty

VARIABLE os \* the system the driver was built for

allVars == <<vars, consoleVars, os>>

Promise == INSTANCE PtyEvents

InitShell ==
    /\ Init /\ InitConsole
    /\ os \in {"unix", "windows"}

OnUnix(A) == os = "unix" /\ A /\ UNCHANGED <<consoleVars, os>>
OnWindows(A) == os = "windows" /\ A /\ UNCHANGED os
Ended == pc = "done" /\ UNCHANGED allVars

NextShell == OnUnix(Next) \/ OnWindows(ConsoleNext) \/ Ended

\* As FairSpec, and the waiter, the grace and a killed child come to their end.
FairShell ==
    /\ InitShell /\ [][NextShell]_allVars
    /\ WF_allVars(OnUnix(Open \/ CannotOpen)) /\ WF_allVars(OnUnix(Control))
    /\ WF_allVars(OnUnix(Read)) /\ WF_allVars(OnUnix(Emit))
    /\ WF_allVars(OnUnix(HungUp))
    /\ WF_allVars(OnWindows(SetUpConsole)) /\ WF_allVars(OnWindows(ControlConsole))
    /\ WF_allVars(OnWindows(GraceOver)) /\ WF_allVars(OnWindows(Wait))
    /\ WF_allVars(OnWindows(ConsoleRead)) /\ WF_allVars(OnWindows(ConsoleEmit))

\* Whichever driver was built, its threads, events and child are kept in order
\* (the control threads of session.rs and windows.rs).
ShellsSound ==
    /\ os = "unix" => TerminalSound
    /\ os = "windows" => ConsoleSound

\* A session that is hung up, and one whose shell exits, comes to its end; on
\* Windows even while nobody takes the output.
ConsoleEnds == os = "windows" /\ shell = "exited" /\ pc = "loop" ~> pc = "done"

\* Both drivers keep the promise PtyEvents states (driver.rs), and bring it to
\* its end.
ShellsKeepPromise == Promise!Spec /\ ShutdownEnds /\ ExitEnds /\ ConsoleEnds
=============================================================================
