--------------------------------- MODULE Logger ---------------------------------
(***************************************************************************)
(* kernel/src/logger.c: log entries go through a queue to the logger task, *)
(* which saves them in a circular history; the CLI task dumps or clears    *)
(* the history.  Neither takes a lock, so each may be preempted between    *)
(* two statements.  A slot of the history is "unset" (never written),      *)
(* "old" (saved before the last clear) or "new".                           *)
(*                                                                         *)
(* HistoryRaces = FALSE excludes that the `log` command begins (and finds  *)
(* the oldest entry) while the logger task is between two statements of a  *)
(* save, and that an entry is saved while the history is being cleared.    *)
(***************************************************************************)
EXTENDS Integers

CONSTANTS
    LOG_QUEUE_SIZE,
    LOG_HISTORY_SIZE,
    HistoryRaces

ASSUME LoggerAssumption ==
    LOG_QUEUE_SIZE \in Nat \ {0} /\ LOG_HISTORY_SIZE \in Nat \ {0} /\ HistoryRaces \in BOOLEAN

VARIABLES
    logQueue,           \* number of queued entries
    history,            \* [slots, head, count] and log_live
    saver,              \* point of the logger task
    logCmd              \* point of the log command: [pc, idx, i]

loggerVars == <<logQueue, history, saver, logCmd>>

LoggerInit ==
  /\ logQueue = 0
  /\ history = [slot |-> [k \in 0..LOG_HISTORY_SIZE - 1 |-> "unset"], head |-> 0, count |-> 0, live |-> FALSE]
  /\ saver = "pop"
  /\ logCmd = [pc |-> "none", idx |-> 0, i |-> 0]

\* logger_log: an entry is dropped when the queue is full.
LoggerLog ==
  /\ logQueue < LOG_QUEUE_SIZE
  /\ logQueue' = logQueue + 1
  /\ UNCHANGED <<history, saver, logCmd>>

------------------------------------------------------------------------------
(* logger_task_entry *)

MaySave == HistoryRaces \/ logCmd.pc # "clear"

\* An entry is popped and stored.
LoggerStore ==
  /\ saver = "pop" /\ logQueue > 0 /\ MaySave
  /\ logQueue' = logQueue - 1
  /\ history' = [history EXCEPT !.slot[history.head] = "new"]
  /\ saver' = "head"
  /\ UNCHANGED logCmd

LoggerAdvance ==
  /\ saver = "head" /\ MaySave
  /\ history' = [history EXCEPT !.head = (@ + 1) % LOG_HISTORY_SIZE]
  /\ saver' = "count"
  /\ UNCHANGED <<logQueue, logCmd>>

LoggerCount ==
  /\ saver = "count" /\ MaySave
  /\ history' = [history EXCEPT !.count = IF @ < LOG_HISTORY_SIZE THEN @ + 1 ELSE @]
  /\ saver' = "pop"
  /\ UNCHANGED <<logQueue, logCmd>>

------------------------------------------------------------------------------
(* cmd_log_handler *)

MayBegin == logCmd.pc = "none" /\ (HistoryRaces \/ saver = "pop")

\* Variant: the oldest entry is taken to be the next one to overwrite.
OldestIsHead(h) == h.head

Oldest(h) == (h.head + LOG_HISTORY_SIZE - h.count) % LOG_HISTORY_SIZE

DumpBegin ==
  /\ MayBegin
  /\ logCmd' = [pc |-> "dump", idx |-> Oldest(history), i |-> 0]
  /\ UNCHANGED <<logQueue, history, saver>>

\* One turn of the loop, printing the slot idx; or its end.
DumpEntry ==
  /\ logCmd.pc = "dump"
  /\ logCmd' = IF logCmd.i < history.count
               THEN [logCmd EXCEPT !.idx = (@ + 1) % LOG_HISTORY_SIZE, !.i = @ + 1]
               ELSE [pc |-> "none", idx |-> 0, i |-> 0]
  /\ UNCHANGED <<logQueue, history, saver>>

LogLive(on) ==
  /\ logCmd.pc = "none"
  /\ history' = [history EXCEPT !.live = on]
  /\ UNCHANGED <<logQueue, saver, logCmd>>

\* Clearing sets the count, then the head.
ClearCount ==
  /\ MayBegin
  /\ history' = [history EXCEPT !.count = 0,
                   !.slot = [k \in DOMAIN @ |-> IF @[k] = "new" THEN "old" ELSE @[k]]]
  /\ logCmd' = [logCmd EXCEPT !.pc = "clear"]
  /\ UNCHANGED <<logQueue, saver>>

ClearHead ==
  /\ logCmd.pc = "clear"
  /\ history' = [history EXCEPT !.head = 0]
  /\ logCmd' = [logCmd EXCEPT !.pc = "none"]
  /\ UNCHANGED <<logQueue, saver>>

LoggerNext ==
  \/ LoggerLog
  \/ LoggerStore
  \/ LoggerAdvance
  \/ LoggerCount
  \/ DumpBegin
  \/ DumpEntry
  \/ \E on \in BOOLEAN : LogLive(on)
  \/ ClearCount
  \/ ClearHead

LoggerSpec == LoggerInit /\ [][LoggerNext]_loggerVars

------------------------------------------------------------------------------
(* log dump prints only entries saved since the history was cleared, never *)
(* a slot that holds none, although entries arrive, and overwrite the      *)
(* oldest, while it prints.                                                *)
DumpPrintsEntries ==
  logCmd.pc = "dump" /\ logCmd.i < history.count => history.slot[logCmd.idx] = "new"
==============================================================================
