--------------------------- MODULE MCSshServices ---------------------------
(* The services of one transport: two SFTP requests at a time, and one     *)
(* command with two chunks of input.                                       *)
EXTENDS SshServices, TLC
=============================================================================
