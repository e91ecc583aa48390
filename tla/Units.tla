--------------------------------- MODULE Units ---------------------------------
(***************************************************************************)
(* The parts of the system that share no state with one another, side by   *)
(* side: a behaviour exercises the one that unit names, so the states of   *)
(* the parts add up rather than multiply.                                  *)
(*                                                                         *)
(* The ready heap has no process of its own: every array that satisfies    *)
(* the order, up to the naming of the tasks in it, is an initial state,    *)
(* and one operation is applied to it.                                     *)
(***************************************************************************)
EXTENDS Timer, ReadyHeap, Allocator, Uart, Spi, I2c, SystemClock, Logger, Cli,
        Printf

CONSTANTS
    HeapTasks,          \* tasks 1..HeapTasks of the heap unit
    Vruntimes           \* their vruntimes

VARIABLES
    unit,
    readyHeap,          \* the heap
    vruntime,           \* of each task
    inHeap              \* the tasks the heap should hold

heapVars == <<readyHeap, vruntime, inHeap>>
driverVars == <<uartVars, spiVars, i2cVars, clockVars>>
consoleVars == <<loggerVars, cliVars, printfVars>>

HeapUnitInit ==
  \E n \in IF unit = "heap" THEN 0..HeapCapacity ELSE {0} :
    /\ inHeap = 1..n
    /\ readyHeap = [arr |-> [i \in 1..n |-> i], idx |-> [t \in 1..HeapTasks |-> IF t <= n THEN t ELSE 0]]
    /\ vruntime \in IF unit = "heap" THEN [1..HeapTasks -> Vruntimes]
                    ELSE {[t \in 1..HeapTasks |-> 0]}
    /\ IsHeap(readyHeap, vruntime)

HeapUnitInsert(t) ==
  /\ t \notin inHeap
  /\ readyHeap' = HeapInsert(readyHeap, vruntime, t)
  /\ inHeap' = IF Cardinality(inHeap) < HeapCapacity THEN inHeap \cup {t} ELSE inHeap

HeapUnitPop ==
  /\ inHeap # {}
  /\ readyHeap' = HeapPop(readyHeap, vruntime)
  /\ inHeap' = inHeap \ {HeapMin(readyHeap)}

HeapUnitRemove(t) ==
  /\ readyHeap' = HeapRemove(readyHeap, vruntime, t)
  /\ inHeap' = inHeap \ {t}

HeapUnitNext ==
  /\ \/ \E t \in 1..HeapTasks : HeapUnitInsert(t)
     \/ HeapUnitPop
     \/ \E t \in 1..HeapTasks : HeapUnitRemove(t)
  /\ UNCHANGED vruntime

Init ==
  /\ unit \in {"heap", "timer", "allocator", "uart", "spi", "i2c", "clock", "logger", "cli",
             "printf"}
  /\ HeapUnitInit
  /\ TimerInit
  /\ AllocatorInit
  /\ UartInit
  /\ SpiInit
  /\ I2cInit
  /\ ClockInit
  /\ LoggerInit
  /\ CliInit
  /\ PrintfInit

\* The heap unit takes one step, after which unit is "done".
Next ==
  \/ /\ unit = "heap" /\ unit' = "done" /\ HeapUnitNext
     /\ UNCHANGED <<timerVars, allocVars, driverVars, consoleVars>>
  \/ /\ unit = "timer" /\ TimerNext
     /\ UNCHANGED <<unit, heapVars, allocVars, driverVars, consoleVars>>
  \/ /\ unit = "allocator" /\ AllocatorNext
     /\ UNCHANGED <<unit, heapVars, timerVars, driverVars, consoleVars>>
  \/ /\ unit = "uart" /\ UartNext
     /\ UNCHANGED <<unit, heapVars, timerVars, allocVars, spiVars, i2cVars, clockVars, consoleVars>>
  \/ /\ unit = "spi" /\ SpiNext
     /\ UNCHANGED <<unit, heapVars, timerVars, allocVars, uartVars, i2cVars, clockVars, consoleVars>>
  \/ /\ unit = "i2c" /\ I2cNext
     /\ UNCHANGED <<unit, heapVars, timerVars, allocVars, uartVars, spiVars, clockVars, consoleVars>>
  \/ /\ unit = "clock" /\ ClockNext
     /\ UNCHANGED <<unit, heapVars, timerVars, allocVars, uartVars, spiVars, i2cVars, consoleVars>>
  \/ /\ unit = "logger" /\ LoggerNext
     /\ UNCHANGED <<unit, heapVars, timerVars, allocVars, driverVars, cliVars, printfVars>>
  \/ /\ unit = "cli" /\ CliNext
     /\ UNCHANGED <<unit, heapVars, timerVars, allocVars, driverVars, loggerVars, printfVars>>
  \/ /\ unit = "printf" /\ PrintfNext
     /\ UNCHANGED <<unit, heapVars, timerVars, allocVars, driverVars, loggerVars, cliVars>>

vars == <<unit, heapVars, timerVars, allocVars, driverVars, consoleVars>>

Spec == Init /\ [][Next]_vars

------------------------------------------------------------------------------
(* Inserting into, popping from and removing from the ready heap keeps the *)
(* order by vruntime, across the wrap of vruntime too, keeps heap_index    *)
(* exact, and loses and doubles no task.                                   *)
HeapExact ==
  /\ IsHeap(readyHeap, vruntime)
  /\ Range(readyHeap.arr) = inHeap
==============================================================================
