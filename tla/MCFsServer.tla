----------------------------- MODULE MCFsServer -----------------------------
(* Two callers; a request that may block and one that may not; a keyboard  *)
(* channel and a pipe channel.                                             *)
EXTENDS FsServer

MCProc     == {TASK_FS, 4, 5}
MCRequest  == {"read", "open"}
MCBlocking == {"read"}
MCResult   == {0}
MCChan     == {"tty", "pipe"}
MCTty      == {"tty"}
=============================================================================
