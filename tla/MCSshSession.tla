---------------------------- MODULE MCSshSession ----------------------------
(* SshSession on a small instance: a budget of one chunk, messages of one or *)
(* two chunks; a session opened narrow and resized to wide, or back again.   *)
EXTENDS SshSession

CONSTANTS narrow, wide

Narrow == {narrow}
Wide == {wide}
Both == {narrow, wide}
=============================================================================
