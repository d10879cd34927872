------------------------------- MODULE Logger -------------------------------
(***************************************************************************)
(* SystemLogger: the first thread that logs makes the only instance; a log *)
(* is written by its own thread, which tries to open the file until it     *)
(* can, or, with LEVEL_APC, queued for the logger's thread, which runs the *)
(* procedures posted to it while it sleeps alertably, and drains the queue *)
(* of the procedure's kind in each of them.                                *)
(*                                                                         *)
(* GetInstance calls no constructor: the queues work if the memory that    *)
(* malloc gives is zero, which is assumed here.                            *)
(***************************************************************************)
EXTENDS Integers, Sequences, Functions

CONSTANTS
  Loggers, NoLogger,
  Kinds,            \* text and CSV: a file and a queue for each
  Levels,           \* "LEVEL_APC" and others
  MaxLogs,          \* bound: logs altogether
  QUEUE_MAX_SIZE    \* a queue holds one less

VARIABLES
  instance, mutex,  \* instance_ and mutex_
  apcThread,        \* "none", "awake", "alertable" or the kind whose procedure runs
  lPc, lLog,        \* per thread: where it is, and the log at hand
  logged,           \* history: how many logs each thread has begun
  file,             \* per kind, who has the file open
  apcQ, apcs,       \* the two queues, and the procedures posted to the thread
  written, lost     \* history: what is in the files; what was not queued or not opened

logVars == <<instance, mutex, apcThread, lPc, lLog, logged, file, apcQ, apcs, written, lost>>

NoLog == [by |-> NoLogger, n |-> 0, kind |-> "none", level |-> "none"]
Logs == [by : Loggers, n : 1..MaxLogs, kind : Kinds, level : Levels]

LogTypeOK ==
  /\ instance \in 0..1 /\ mutex \in Loggers \cup {NoLogger}
  /\ apcThread \in {"none", "awake", "alertable"} \cup Kinds
  /\ lPc \in [Loggers -> {"idle", "lock", "retest", "publish", "save", "open", "write", "enqueue", "post"}]
  /\ \A l \in Loggers : lLog[l] = NoLog \/ lLog[l] \in Logs
  /\ file \in [Kinds -> Loggers \cup {NoLogger}]
  /\ \A k \in Kinds : Len(apcQ[k]) < QUEUE_MAX_SIZE /\ Len(apcs) <= MaxLogs
-----------------------------------------------------------------------------
LoggerAt(l, a, b) == lPc[l] = a /\ lPc' = [lPc EXCEPT ![l] = b]

\* a call of LogText or LogCSV, and the first test of GetInstance
Log(l, kind, level) ==
  /\ FoldFunction(+, 0, logged) < MaxLogs
  /\ LoggerAt(l, "idle", IF instance = 1 THEN "save" ELSE "lock")
  /\ logged' = [logged EXCEPT ![l] = @ + 1]
  /\ lLog' = [lLog EXCEPT ![l] = [by |-> l, n |-> logged[l] + 1, kind |-> kind, level |-> level]]
  /\ UNCHANGED <<instance, mutex, apcThread, file, apcQ, apcs, written, lost>>

Lock(l) ==
  /\ mutex = NoLogger /\ mutex' = l /\ LoggerAt(l, "lock", "retest")
  /\ UNCHANGED <<instance, apcThread, lLog, logged, file, apcQ, apcs, written, lost>>

\* the second test, and Initialize, which starts the thread
Retest(l) ==
  /\ IF instance = 1
     THEN LoggerAt(l, "retest", "save") /\ mutex' = NoLogger /\ UNCHANGED apcThread
     ELSE LoggerAt(l, "retest", "publish") /\ apcThread = "none" /\ apcThread' = "awake" /\ UNCHANGED mutex
  /\ UNCHANGED <<instance, lLog, logged, file, apcQ, apcs, written, lost>>

Publish(l) ==
  /\ LoggerAt(l, "publish", "save")
  /\ instance' = 1 /\ mutex' = NoLogger
  /\ UNCHANGED <<apcThread, lLog, logged, file, apcQ, apcs, written, lost>>

Save(l) ==
  /\ LoggerAt(l, "save", IF lLog[l].level = "LEVEL_APC" THEN "enqueue" ELSE "open")
  /\ UNCHANGED <<instance, mutex, apcThread, lLog, logged, file, apcQ, apcs, written, lost>>

\* SaveLogText and SaveLogCsv: one at a time has the file, the others try again
Open(l) ==
  /\ LoggerAt(l, "open", "write") /\ file[lLog[l].kind] = NoLogger
  /\ file' = [file EXCEPT ![lLog[l].kind] = l]
  /\ UNCHANGED <<instance, mutex, apcThread, lLog, logged, apcQ, apcs, written, lost>>

Write(l) ==
  /\ LoggerAt(l, "write", "idle")
  /\ written' = written \cup {lLog[l]}
  /\ file' = [file EXCEPT ![lLog[l].kind] = NoLogger] /\ lLog' = [lLog EXCEPT ![l] = NoLog]
  /\ UNCHANGED <<instance, mutex, apcThread, logged, apcQ, apcs, lost>>

\* QueueWithLock::Enqueue; a full queue loses the log, and ErrorDisplay says so in a file
Enqueue(l) ==
  /\ LoggerAt(l, "enqueue", "post")
  /\ LET k == lLog[l].kind IN
     IF Len(apcQ[k]) + 1 = QUEUE_MAX_SIZE
     THEN lost' = lost \cup {lLog[l]} /\ UNCHANGED apcQ
     ELSE apcQ' = [apcQ EXCEPT ![k] = Append(@, lLog[l])] /\ UNCHANGED lost
  /\ UNCHANGED <<instance, mutex, apcThread, lLog, logged, file, apcs, written>>

QueueUserAPC(l) ==
  /\ LoggerAt(l, "post", "idle")
  /\ apcs' = Append(apcs, lLog[l].kind)
  /\ lLog' = [lLog EXCEPT ![l] = NoLog]
  /\ UNCHANGED <<instance, mutex, apcThread, logged, file, apcQ, written, lost>>

LogStep(l) ==
  Lock(l) \/ Retest(l) \/ Publish(l) \/ Save(l) \/ Open(l) \/ Write(l) \/ Enqueue(l) \/ QueueUserAPC(l)
-----------------------------------------------------------------------------
(* APCThread                                                               *)

\* Sleep(1000) is over, SleepEx begins; it ends after a second, or when it has run
\* what was posted
SleepEx ==
  /\ \/ apcThread = "awake" /\ apcThread' = "alertable"
     \/ apcThread = "alertable" /\ apcs = <<>> /\ apcThread' = "awake"
  /\ UNCHANGED <<instance, mutex, lPc, lLog, logged, file, apcQ, apcs, written, lost>>

RunAPC ==
  /\ apcThread = "alertable" /\ apcs # <<>>
  /\ apcThread' = Head(apcs) /\ apcs' = Tail(apcs)
  /\ UNCHANGED <<instance, mutex, lPc, lLog, logged, file, apcQ, written, lost>>

MutDrain ==
  /\ apcThread \in Kinds
  /\ LET q == apcQ[apcThread] IN
     IF q = <<>>
     THEN apcThread' = "alertable" /\ UNCHANGED <<apcQ, written, lost>>
     ELSE /\ apcQ' = [apcQ EXCEPT ![apcThread] = SubSeq(q, 1, Len(q) - 1)]
          /\ \/ written' = written \cup {q[Len(q)]} /\ UNCHANGED lost
             \/ lost' = lost \cup {q[Len(q)]} /\ UNCHANGED written
          /\ UNCHANGED apcThread
  /\ UNCHANGED <<instance, mutex, lPc, lLog, logged, file, apcs>>

\* MyAPCProc and MyAPCProcCSV: a turn of the loop, or its end; a log whose file
\* does not open is gone
Drain ==
  /\ apcThread \in Kinds
  /\ IF apcQ[apcThread] = <<>>
     THEN apcThread' = "alertable" /\ UNCHANGED <<apcQ, written, lost>>
     ELSE /\ apcQ' = [apcQ EXCEPT ![apcThread] = Tail(@)]
          /\ \/ written' = written \cup {Head(apcQ[apcThread])} /\ UNCHANGED lost
             \/ lost' = lost \cup {Head(apcQ[apcThread])} /\ UNCHANGED written
          /\ UNCHANGED apcThread
  /\ UNCHANGED <<instance, mutex, lPc, lLog, logged, file, apcs>>

APCStep == SleepEx \/ RunAPC \/ Drain

LogInit ==
  /\ instance = 0 /\ mutex = NoLogger /\ apcThread = "none"
  /\ lPc = [l \in Loggers |-> "idle"] /\ lLog = [l \in Loggers |-> NoLog] /\ logged = [l \in Loggers |-> 0]
  /\ file = [k \in Kinds |-> NoLogger] /\ apcQ = [k \in Kinds |-> <<>>] /\ apcs = <<>>
  /\ written = {} /\ lost = {}

LogNext ==
  \/ \E l \in Loggers : LogStep(l) \/ \E kind \in Kinds, level \in Levels : Log(l, kind, level)
  \/ APCStep

\* every thread goes on; who waits for the mutex or a file gets it when it is often
\* enough free
LogFairness == (\A l \in Loggers : SF_logVars(LogStep(l))) /\ WF_logVars(APCStep)
-----------------------------------------------------------------------------
(* The logs of a thread that go the same way are written in the order in   *)
(* which they were made.                                                   *)
WrittenInOrder ==
  [][\A g \in written' \ written : \A h \in Logs :
       h.by = g.by /\ h.kind = g.kind /\ h.level = g.level /\ h.n < g.n
         => h \notin Range(apcQ'[g.kind])]_logVars

(* When no more is logged, every log gets into its file, unless the queue *)
(* was full or the file did not open for the logger's thread.              *)
LogsSettle ==
  <>[](\A l \in Loggers : \A n \in 1..logged[l] : \E g \in written \cup lost : g.by = l /\ g.n = n)
=============================================================================
