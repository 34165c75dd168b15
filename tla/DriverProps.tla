---------------------------- MODULE DriverProps ----------------------------
(***************************************************************************)
(* What holds of the life cycle of the drivers.                            *)
(***************************************************************************)
EXTENDS DriverLife

\* The drivers whose init makes the device visible before an object their
\* handlers use exists.
LateObject(d) ==
  \E i, j \in DOMAIN InitOf(d) :
     /\ i < j /\ InitOf(d)[i].what = "cdev"
     /\ InitOf(d)[j].what \in Needs(d, "file")

ExitCalls(d) == {Recipes[d].exit[i] : i \in DOMAIN Recipes[d].exit}

\* Whatever is loaded, unloaded and used in whatever order, the life cycle
\* itself gives a driver none of whose init calls has failed only two oopses:
\* a handler may run before init has made the object it needs, and a thread
\* that exit wakes and does not wait for may run on in the freed module.
HealthyIsSafe ==
  \A o \in oops : \/ o[1] \in troubled
                  \/ o[2] = "early" /\ LateObject(o[1])
                  \/ o[2] = "thread" /\ "wake_thread" \in ExitCalls(o[1])

\* The owner field keeps a module in memory while one of its device files is
\* open or one of its entries is in use; only a load that fails after cdev_add
\* takes the module away under them.
PinnedWhileUsed ==
  \A u \in Users : user[u] # Idle /\ user[u].freed => user[u].drv \in aborted

\* What a failed init leaves behind: its unwinding forgets the cdev (in
\* sysfs.c the device, in LED-Reconf.c the bank, its mapping and the node).
Forgets(d) == CASE d = "sysfs" -> {"device"}
                [] d = "led_reconf" -> {"memory", "mapping", "node"}
                [] OTHER -> {"cdev"}

\* What not even exit gives back: the number, if it returns three where init
\* took one, the thread it wakes and does not wait for, and the node.
Unreleased(d) ==
  (IF "unregister_3" \in ExitCalls(d) THEN {"number"} ELSE {})
  \cup (IF "wake_thread" \in ExitCalls(d) THEN {"thread"} ELSE {})
  \cup (IF d = "led_reconf" THEN {"node"} ELSE {})

\* A module that has gone has left nothing else in the kernel, but for what
\* a failed init forgot.
NothingLeft ==
  \A d \in Drivers :
     left[d] \subseteq Unreleased(d)
                        \cup (IF d \in troubled THEN Forgets(d) ELSE {})

\* However often drivers were loaded before, and whichever of their calls
\* failed, one that is loaded while no other is finds the class name free
\* and, if every exit on the machine gives its number back, a number.
LoadsAgain ==
  \A d \in machine :
     /\ phase[d] = "loading" /\ todo[d] # <<>>
     /\ \A e \in machine \ {d} : phase[e] = "out"
     => LET what == Head(todo[d]).what
        IN  \/ what = "class"
            \/ what = "number" /\ \A e \in machine : "number" \notin Unreleased(e)
            => Grants(d, what)
=============================================================================
