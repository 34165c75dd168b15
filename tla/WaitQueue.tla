----------------------------- MODULE WaitQueue -----------------------------
(***************************************************************************)
(* Linux-Device-Driver/07-waitqueue: a kernel thread that waits on a wait  *)
(* queue for wait_queue_flag, which read sets to 1 and the module's exit   *)
(* function to 2.  One action per access to the flag and per wake-up.      *)
(***************************************************************************)
EXTENDS Naturals

CONSTANTS
  Readers,  \* processes that open the device and read it
  MaxReads  \* bound: reads in a behaviour

ASSUME ReadsAssumption == MaxReads \in Nat

VARIABLES
  flag,       \* wait_queue_flag
  read_count, \* events the thread has counted
  tpc,        \* where wait_function is
  rpc,        \* where each process is
  epc,        \* how far rmmod is
  reads       \* calls of m_read that have set the flag

waitVars == <<flag, read_count, tpc, rpc, epc, reads>>

ThreadStates == {"check", "asleep", "test", "count", "clear", "gone", "oops"}
ReaderStates == {"closed", "open", "set"}
ExitStates   == {"loaded", "going", "flagged", "woken", "unloaded"}

(* kthread_create and wake_up_process: the thread is about to check *)
WaitInit ==
  /\ flag = 0 /\ read_count = 0 /\ reads = 0
  /\ tpc = "check" /\ rpc = [r \in Readers |-> "closed"] /\ epc = "loaded"
-----------------------------------------------------------------------------
(* wait_function: a step after the module's code is gone is an oops *)
Thread(at, to) == tpc = at /\ tpc' = (IF epc = "unloaded" THEN "oops" ELSE to)

(* wait_event_interruptible queues the thread before it looks at the flag, *)
(* so the test and the sleep are one step for whoever wakes it.            *)
CheckResets == /\ Thread("check", "asleep") /\ flag' = 0
               /\ UNCHANGED <<read_count, rpc, epc, reads>>
Check == /\ Thread("check", IF flag # 0 THEN "test" ELSE "asleep")
         /\ UNCHANGED <<flag, read_count, rpc, epc, reads>>

Test  == /\ Thread("test", IF flag = 2 THEN "gone" ELSE "count")
         /\ UNCHANGED <<flag, read_count, rpc, epc, reads>>

Count == /\ Thread("count", "clear") /\ read_count' = read_count + 1
         /\ UNCHANGED <<flag, rpc, epc, reads>>

NoClear == /\ Thread("clear", "check")
           /\ UNCHANGED <<flag, read_count, rpc, epc, reads>>
Clear == /\ Thread("clear", "check") /\ flag' = 0
         /\ UNCHANGED <<read_count, rpc, epc, reads>>

(* wake_up_interruptible, which finds nobody unless the thread sleeps *)
WakeUp == tpc' = IF tpc = "asleep" THEN "check" ELSE tpc
-----------------------------------------------------------------------------
(* m_open: refused once rmmod has begun *)
Open(r) ==
  /\ rpc[r] = "closed" /\ epc = "loaded"
  /\ rpc' = [rpc EXCEPT ![r] = "open"]
  /\ UNCHANGED <<flag, read_count, tpc, epc, reads>>

(* m_read, in two steps *)
Read(r) ==
  /\ rpc[r] = "open" /\ reads < MaxReads
  /\ flag' = 1 /\ reads' = reads + 1
  /\ rpc' = [rpc EXCEPT ![r] = "set"]
  /\ UNCHANGED <<read_count, tpc, epc>>

ReadSleeps(r) ==   \* forgets the wake-up
  /\ rpc[r] = "set" /\ rpc' = [rpc EXCEPT ![r] = "open"]
  /\ UNCHANGED <<flag, read_count, tpc, epc, reads>>

ReadWakes(r) ==
  /\ rpc[r] = "set" /\ WakeUp
  /\ rpc' = [rpc EXCEPT ![r] = "open"]
  /\ UNCHANGED <<flag, read_count, epc, reads>>

(* m_release *)
Close(r) ==
  /\ rpc[r] = "open"
  /\ rpc' = [rpc EXCEPT ![r] = "closed"]
  /\ UNCHANGED <<flag, read_count, tpc, epc, reads>>
-----------------------------------------------------------------------------
(* rmmod is refused while a file is open: fops.owner is the module *)

ExitBegins ==
  /\ epc = "loaded" /\ \A r \in Readers : rpc[r] = "closed"
  /\ epc' = "going" /\ UNCHANGED <<flag, read_count, tpc, rpc, reads>>

ExitFlags == /\ epc = "going" /\ flag' = 2 /\ epc' = "flagged"
             /\ UNCHANGED <<read_count, tpc, rpc, reads>>

ExitSleeps == /\ epc = "flagged" /\ epc' = "woken"   \* forgets the wake-up
              /\ UNCHANGED <<flag, read_count, tpc, rpc, reads>>

ExitWakes == /\ epc = "flagged" /\ WakeUp /\ epc' = "woken"
             /\ UNCHANGED <<flag, read_count, rpc, reads>>

(* The devices are destroyed, and the module's memory is freed *)
Unload == /\ epc = "woken" /\ epc' = "unloaded"
          /\ UNCHANGED <<flag, read_count, tpc, rpc, reads>>
-----------------------------------------------------------------------------
ThreadNext == Check \/ Test \/ Count \/ Clear

ReaderNext(r) == Open(r) \/ Read(r) \/ ReadWakes(r) \/ Close(r)

ExitNext == ExitFlags \/ ExitWakes \/ Unload

WaitNext == ThreadNext \/ (\E r \in Readers : ReaderNext(r)) \/ ExitBegins \/ ExitNext

(* The scheduler runs the thread, a read that has begun and an exit that   *)
(* has begun; nothing makes a process read or the module go.               *)
WaitFairness == WF_waitVars(ThreadNext) /\ WF_waitVars(ExitNext) /\ \A r \in Readers : WF_waitVars(ReadWakes(r))

WaitSpec == WaitInit /\ [][WaitNext]_waitVars

FairWaitSpec == WaitSpec /\ WaitFairness
=============================================================================
