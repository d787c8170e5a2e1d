--------------------------- MODULE MCManagerPipe ---------------------------
(* Two pages, a pipe with room for three headers, and four commands: two   *)
(* without data, one with data too short to be a header, and one with more  *)
(* data than the server's read has room for.                                *)
EXTENDS ManagerPipe

CONSTANTS mode, process

TwoPages == {mode, process}

SomeCommands == {[type |-> "HealthCheck", data |-> 0],
                 [type |-> "GetProcessList", data |-> 0],
                 [type |-> "InjectProcess", data |-> 4],
                 [type |-> "InjectProcess", data |-> 30]}
=============================================================================
