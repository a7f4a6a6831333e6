---------------------------- MODULE MCIpcClient ----------------------------
(* TLC instances of IpcClient. *)
EXTENDS IpcClient
=============================================================================
