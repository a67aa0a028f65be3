----------------------------- MODULE MCIpcCalls -----------------------------
(* Instances of IpcCalls: a task of the client and another thread, which   *)
(* may call its class.                                                     *)
EXTENDS IpcCalls

CONSTANTS t1, t2

MCThreads == {t1, t2}
MCTasks == {t1}
=============================================================================
