----------------------------- MODULE MCControl -----------------------------
(***************************************************************************)
(* The threads that control a server, one of five in a run: Start and      *)
(* Stop, the pipes of a PipeManager, the timeout of sessions, the observer *)
(* with the threads it watches, and the logger.                            *)
(***************************************************************************)
EXTENDS ServerControl, PipePool, Timeouts, Monitor

VARIABLES part,
  instance, mutex, apcThread, lPc, lLog, logged, file, apcQ, apcs, written, lost

L == INSTANCE Logger WITH
  Loggers <- {"l1", "l2"}, NoLogger <- "none", Kinds <- {"text", "csv"},
  Levels <- {"LEVEL_APC", "LEVEL_SYSTEM"}, MaxLogs <- 3, QUEUE_MAX_SIZE <- 3

logVars == <<instance, mutex, apcThread, lPc, lLog, logged, file, apcQ, apcs, written, lost>>
vars == <<part, ctlVars, poolVars, timeoutVars, monitorVars, logVars>>

Init ==
  /\ part \in {"server", "pool", "timeout", "monitor", "logger"}
  /\ ControlInit /\ TimeoutInit /\ MonitorInit /\ L!LogInit
  /\ PoolInit /\ (part # "pool" => map = {CHOOSE p \in PipeIDs : TRUE})

Others(p) ==
  /\ p # "server" => UNCHANGED ctlVars
  /\ p # "pool" => UNCHANGED poolVars
  /\ p # "timeout" => UNCHANGED timeoutVars
  /\ p # "monitor" => UNCHANGED monitorVars
  /\ p # "logger" => UNCHANGED logVars

Next ==
  /\ UNCHANGED part
  /\ \/ part = "server" /\ ControlNext
     \/ part = "pool" /\ PoolNext
     \/ part = "timeout" /\ TimeoutNext
     \/ part = "monitor" /\ MonitorNext
     \/ part = "logger" /\ L!LogNext
  /\ Others(part)

Spec ==
  Init /\ [][Next]_vars /\ (part = "server" => ControlFairness) /\ (part = "logger" => L!LogFairness)
-----------------------------------------------------------------------------
\* Every log is written in the end, or its queue was full or its file did not open;
\* those of the logger's thread in their order (SystemLogger.cpp 135-240, 295-357).
LogsWritten == [](part = "logger" => L!LogTypeOK) /\ L!WrittenInOrder /\ (part = "logger" => L!LogsSettle)
=============================================================================
