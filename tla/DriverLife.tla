----------------------------- MODULE DriverLife -----------------------------
(***************************************************************************)
(* The life cycle of the kernel modules: insmod runs an init function call  *)
(* by call, any call may fail, rmmod runs the exit function, and processes  *)
(* use the device files and the proc and sysfs entries all the while.  The  *)
(* drivers of one machine share the device numbers and, all eight of them,  *)
(* the class name "m-class".  An oops ends the part of the kernel that      *)
(* meets it.                                                               *)
(***************************************************************************)
EXTENDS DriverRecipes, FiniteSets

CONSTANTS
  Machines,  \* the sets of drivers that may be together on a machine
  Users,     \* processes
  Pool,      \* how many dynamic major numbers the kernel has
  Idle       \* a user that is in no driver

ASSUME MachinesAssumption == Machines \subseteq SUBSET Drivers
ASSUME PoolAssumption == Pool \in Nat \ {0}

VARIABLES
  machine,   \* the drivers of this machine
  phase,     \* phase[d] : where module d is in its life
  todo,      \* todo[d] : what is left of its init, undo or exit sequence
  has,       \* has[d] : what this life of d has registered
  bad,       \* bad[d] : failed calls it did not notice
  left,      \* left[d] : what earlier lives of d left in the kernel
  free,      \* unused device numbers
  user,      \* user[u] : the driver u has open or is in, and how
  oops,      \* who met what: <<driver, cause>>
  troubled,  \* drivers some call of whose init has failed
  aborted    \* drivers whose init has returned an error

vars == <<machine, phase, todo, has, bad, left, free, user, oops, troubled,
          aborted>>

Ways == {"file", "attr"}

InitOf(d) == Recipes[d].init \o Recipes[d].probe
ExitOf(d) == (IF "bound" \in has[d] THEN Recipes[d].remove ELSE <<>>)
               \o Recipes[d].exit

In(u, d, way) == user[u] # Idle /\ user[u].drv = d /\ user[u].way = way
                 /\ ~user[u].freed

Init ==
  /\ machine \in Machines
  /\ phase = [d \in Drivers |-> "out"] /\ todo = [d \in Drivers |-> <<>>]
  /\ has = [d \in Drivers |-> {}] /\ bad = [d \in Drivers |-> {}]
  /\ left = [d \in Drivers |-> {}]
  /\ free = Pool
  /\ user = [u \in Users |-> Idle]
  /\ oops = {} /\ troubled = {} /\ aborted = {}

Die(d, cause) == /\ phase' = [phase EXCEPT ![d] = "dead"]
                 /\ oops' = oops \cup {<<d, cause>>}

----------------------------------------------------------------------------
(* Loading.                                                                *)

Insmod(d) ==
  /\ phase[d] = "out"
  /\ phase' = [phase EXCEPT ![d] = "loading"]
  /\ todo' = [todo EXCEPT ![d] = InitOf(d)]
  /\ has' = [has EXCEPT ![d] = {}] /\ bad' = [bad EXCEPT ![d] = {}]
  /\ UNCHANGED <<machine, left, free, user, oops, troubled, aborted>>

\* What the kernel can grant: a class name is free as long as no driver on
\* the machine has it, nothing is built on a failed class or kobject, and a
\* node that was not found has no registers.
Grants(d, what) ==
  /\ what = "number" => free > 0
  /\ what = "class" => \A e \in Drivers : "class" \notin has[e] \cup left[e]
  /\ what = "device" => "class" \notin bad[d]
  /\ what = "attr" => "kobject" \notin bad[d]
  /\ what = "base" => "node" \notin bad[d]

Succeed(d) ==
  /\ phase[d] = "loading" /\ todo[d] # <<>>
  /\ LET what == Head(todo[d]).what
     IN  /\ Grants(d, what)
         /\ has' = [has EXCEPT ![d] = @ \cup {what}]
         /\ free' = IF what = "number" THEN free - 1 ELSE free
  /\ todo' = [todo EXCEPT ![d] = Tail(@)]
  /\ UNCHANGED <<machine, phase, bad, left, user, oops, troubled, aborted>>

Noticed(step) == step.test = ErrorOf[step.what]

\* A call fails: its result is used unchecked, or the failure is noticed and
\* undone, or init goes on with an error pointer or NULL in its hands.
Fail(d) ==
  /\ phase[d] = "loading" /\ todo[d] # <<>>
  /\ ErrorOf[Head(todo[d]).what] # "never"
  /\ troubled' = troubled \cup {d}
  /\ LET step == Head(todo[d])
     IN  \/ /\ step.test = "used"
            /\ Die(d, "unchecked")
            /\ UNCHANGED <<todo, has, bad, aborted>>
         \/ /\ Noticed(step) /\ step.next = "abort"
            /\ phase' = [phase EXCEPT ![d] = "undoing"]
            /\ todo' = [todo EXCEPT ![d] = step.undo]
            /\ aborted' = aborted \cup {d}
            /\ UNCHANGED <<has, bad, oops>>
         \/ /\ Noticed(step) /\ step.next = "go on"
            /\ has' = [has EXCEPT ![d] =
                         @ \ UNION {Releases[step.undo[i]] :
                                    i \in DOMAIN step.undo}]
            /\ todo' = [todo EXCEPT ![d] = Tail(@)]
            /\ UNCHANGED <<phase, bad, oops, aborted>>
         \/ /\ step.test # "used" /\ ~Noticed(step)
            /\ bad' = [bad EXCEPT ![d] = @ \cup {step.what}]
            /\ todo' = [todo EXCEPT ![d] = Tail(@)]
            /\ UNCHANGED <<phase, has, oops, aborted>>
  /\ UNCHANGED <<machine, left, free, user>>

Loaded(d) ==
  /\ phase[d] = "loading" /\ todo[d] = <<>>
  /\ phase' = [phase EXCEPT ![d] = "live"]
  /\ UNCHANGED <<machine, todo, has, bad, left, free, user, oops, troubled,
                 aborted>>

----------------------------------------------------------------------------
(* Unloading, and the undoing of a failed init.                            *)

\* The slip: fops without an owner.
RmmodUnowned(d) ==
  /\ phase[d] = "live"
  /\ phase' = [phase EXCEPT ![d] = "unloading"]
  /\ todo' = [todo EXCEPT ![d] = ExitOf(d)]
  /\ UNCHANGED <<machine, has, bad, left, free, user, oops, troubled,
                 aborted>>

\* fops.owner pins the module while a device file is open.
Rmmod(d) ==
  /\ phase[d] = "live"
  /\ \A u \in Users : ~In(u, d, "file")
  /\ phase' = [phase EXCEPT ![d] = "unloading"]
  /\ todo' = [todo EXCEPT ![d] = ExitOf(d)]
  /\ UNCHANGED <<machine, has, bad, left, free, user, oops, troubled,
                 aborted>>

Releasing(d) == phase[d] \in {"undoing", "unloading"} /\ todo[d] # <<>>

\* The removal of a proc or sysfs entry lets no new call in and waits for
\* the calls that are inside.
Drains(d) == Releasing(d) /\ Releases[Head(todo[d])] \cap Entries("attr") # {}

BadRelease(d) ==
  LET call == Head(todo[d])
  IN  \/ call = "device_destroy" /\ "class" \in bad[d]
      \/ call = "kobject_put" /\ "kobject" \notin has[d] \cup bad[d]
Cause(call) == IF call = "device_destroy" THEN "error pointer"
                                          ELSE "second put"

Release(d) ==
  /\ Releasing(d)
  /\ Drains(d) => \A u \in Users : ~In(u, d, "attr")
  /\ LET call == Head(todo[d])
     IN  \/ /\ BadRelease(d)
            /\ Die(d, Cause(call))
            /\ UNCHANGED <<todo, has, free>>
         \/ /\ ~BadRelease(d)
            /\ has' = [has EXCEPT ![d] = @ \ Releases[call]]
            /\ free' = IF "number" \in has[d] \cap Releases[call]
                       THEN free + 1 ELSE free
            /\ todo' = [todo EXCEPT ![d] = Tail(@)]
            /\ UNCHANGED <<phase, oops>>
  /\ UNCHANGED <<machine, bad, left, user, troubled, aborted>>

\* A failed probe leaves the driver registered and the module loaded.
StaysLoaded(d) == phase[d] = "undoing" /\ "platform" \in has[d]

\* The thread that exit has woken returns.  Exit does not wait for that.
ThreadEnds(d) ==
  /\ phase[d] = "unloading" /\ "thread" \in has[d]
  /\ \A i \in DOMAIN todo[d] : todo[d][i] # "wake_thread"
  /\ has' = [has EXCEPT ![d] = @ \ {"thread"}]
  /\ UNCHANGED <<machine, phase, todo, bad, left, free, user, oops, troubled,
                 aborted>>

\* A thread that was not quick enough goes on in the freed module.
LeftThread(d) ==
  /\ "thread" \in left[d]
  /\ oops' = oops \cup {<<d, "thread">>}
  /\ UNCHANGED <<machine, phase, todo, has, bad, left, free, user, troubled,
                 aborted>>

\* The wait queue head is part of the module and goes with it; a pin and an
\* address are only numbers.
Outlives == Resources \ {"queue", "bound", "pin", "base"}

\* The kernel frees the module: whoever is still in it has lost its code.
Finish(d) ==
  /\ phase[d] \in {"undoing", "unloading"} /\ todo[d] = <<>>
  /\ IF StaysLoaded(d)
     THEN /\ phase' = [phase EXCEPT ![d] = "live"]
          /\ UNCHANGED <<left, user, has, bad>>
     ELSE /\ phase' = [phase EXCEPT ![d] = "out"]
          /\ left' = [left EXCEPT ![d] = @ \cup (has[d] \cap Outlives)]
          /\ has' = [has EXCEPT ![d] = {}] /\ bad' = [bad EXCEPT ![d] = {}]
          /\ user' = [u \in Users |->
                        IF user[u] # Idle /\ user[u].drv = d
                        THEN [user[u] EXCEPT !.freed = TRUE] ELSE user[u]]
  /\ UNCHANGED <<machine, todo, free, oops, troubled, aborted>>

----------------------------------------------------------------------------
(* The processes.                                                          *)

\* open of a device file, or a read or write of an entry begins.  The kernel
\* refuses a file whose module is going; one that is coming will do.
Enter(u, d, way) ==
  /\ user[u] = Idle
  /\ Entries(way) \cap has[d] # {}
  /\ way = "file" => phase[d] # "unloading"
  /\ way = "attr" => ~Drains(d)
  /\ user' = [user EXCEPT ![u] = [drv |-> d, way |-> way, freed |-> FALSE]]
  /\ UNCHANGED <<machine, phase, todo, has, bad, left, free, oops, troubled,
                 aborted>>

\* An entry point that a freed module has left behind.
EnterFreed(u, d, way) ==
  /\ user[u] = Idle
  /\ Entries(way) \cap left[d] # {}
  /\ oops' = oops \cup {<<d, "freed">>}
  /\ UNCHANGED <<machine, phase, todo, has, bad, left, free, user, troubled,
                 aborted>>

\* A handler runs: what it dereferences has to be there.
Use(u) ==
  /\ user[u] # Idle /\ ~user[u].freed
  /\ LET d == user[u].drv
     IN  /\ phase[d] # "dead"
         /\ ~(Needs(d, user[u].way) \subseteq has[d])
         /\ Die(d, "early")
  /\ UNCHANGED <<machine, todo, has, bad, left, free, user, troubled, aborted>>

\* close, or the end of the read or write: the last code of the module to run.
Leave(u) ==
  /\ user[u] # Idle
  /\ oops' = IF user[u].freed THEN oops \cup {<<user[u].drv, "freed">>}
                              ELSE oops
  /\ user' = [user EXCEPT ![u] = Idle]
  /\ UNCHANGED <<machine, phase, todo, has, bad, left, free, troubled,
                 aborted>>

----------------------------------------------------------------------------
Next ==
  \/ \E d \in machine : \/ Insmod(d) \/ Succeed(d) \/ Fail(d) \/ Loaded(d)
                        \/ Rmmod(d) \/ Release(d) \/ Finish(d)
                        \/ ThreadEnds(d) \/ LeftThread(d)
  \/ \E u \in Users, d \in machine, way \in Ways :
        Enter(u, d, way) \/ EnterFreed(u, d, way)
  \/ \E u \in Users : Use(u) \/ Leave(u)

Spec == Init /\ [][Next]_vars
=============================================================================
