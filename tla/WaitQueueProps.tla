--------------------------- MODULE WaitQueueProps ---------------------------
(***************************************************************************)
(* What the thread, the readers and rmmod can rely on.                     *)
(***************************************************************************)
EXTENDS WaitQueue

(* Every variable has its type, and no file is open once the module goes.  *)
TypeOK ==
  /\ flag \in 0 .. 2 /\ read_count \in Nat /\ reads \in 0 .. MaxReads
  /\ tpc \in ThreadStates /\ rpc \in [Readers -> ReaderStates] /\ epc \in ExitStates
  /\ epc # "loaded" => \A r \in Readers : rpc[r] = "closed"

(* The thread never counts an event twice, however its reads and writes of *)
(* the flag mix with those of the readers.                                 *)
NeverOverCounts == read_count <= reads

(* A thread that sleeps although the flag is set is about to be woken: no  *)
(* wake-up is lost between the test of the flag and the sleep.             *)
NoLostWakeup ==
  tpc = "asleep" /\ flag # 0 => (\E r \in Readers : rpc[r] = "set") \/ epc = "flagged"

(* Once an event has been raised, a thread that is back asleep has counted *)
(* one.  No more than that holds: a read between Count and Clear is never  *)
(* counted, because Clear takes its flag down with the old one.            *)
BurstCounted == tpc = "asleep" /\ flag = 0 /\ reads > 0 => read_count > 0

(* A flag that a reader has set is taken down again, unless the module     *)
(* goes.                                                                   *)
EventHandled == (flag = 1) ~> (flag # 1 \/ epc # "loaded")

(* readme.md:172 says that the thread exits when the wake-up came from the *)
(* exit function.  The code does not keep this; README.md lists it among   *)
(* the known divergences.                                                  *)
=============================================================================
