------------------------------ MODULE Handlers ------------------------------
(***************************************************************************)
(* The handlers that share more than one word between processes, one driver *)
(* on the machine at a time: the buffer of the character drivers, the proc  *)
(* entry, and the LED.                                                     *)
(***************************************************************************)
EXTENDS Integers

CONSTANTS Users, Page, Alloc, MaxWrites, Idle, Pins, Led, Nothing

ASSUME SizesAssumption == /\ Alloc \in Nat \ {0} /\ Page \in Nat
                          /\ Alloc <= Page /\ MaxWrites \in Nat
ASSUME LedAssumption == Led \in Pins /\ Nothing \notin BOOLEAN

VARIABLES
  driver,                                            \* the driver
  mem, size, pos, call, got, writes, mixed, alive,   \* DevBuffer
  len, cat, fed, quit,                               \* ProcEntry
  oe, latch, outside, done, in, want, reg, lit, other, otherOe, clash

buffer == <<mem, size, pos, call, got, writes, mixed, alive>>
entry  == <<len, cat, fed, quit>>
led    == <<oe, latch, outside, done, in, want, reg, lit, other, otherOe,
            clash>>
vars   == <<driver, buffer, entry, led>>

B == INSTANCE DevBuffer
E == INSTANCE ProcEntry WITH Cats <- Users
L == INSTANCE LedPin WITH Procs <- Users

ASSUME IdleAssumption == Idle \notin B!Calls

Init ==
  /\ driver \in {"buffer", "entry", "led"}
  /\ B!Init /\ E!Init /\ L!Init
  /\ driver # "led" => outside = {}

Next ==
  \/ driver = "buffer" /\ B!Next /\ UNCHANGED <<driver, entry, led>>
  \/ driver = "entry" /\ E!Next /\ UNCHANGED <<driver, buffer, led>>
  \/ driver = "led" /\ L!Next /\ UNCHANGED <<driver, buffer, entry>>

Spec == Init /\ [][Next]_vars

----------------------------------------------------------------------------
\* No copy, from whatever position and however size changes under it, leaves
\* the page that m_write clears, and size never says more than the page has.
CopiesInPage ==
  /\ size \in 0..Page
  /\ \A u \in Users : call[u] # Idle => call[u].from + call[u].n <= Page

\* m_write wipes what other files wrote: a read that no write overlaps, after
\* writes that did not overlap each other, returns bytes of one write only,
\* with zeros where that write did not reach.  No read at all returns what
\* kmalloc happened to give.
ReadsOneWrite ==
  \A u \in Users :
     /\ B!Junk \notin got[u]
     /\ call[u] # Idle /\ call[u].op = "read" /\ call[u].alone =>
          \A a, b \in got[u] : a = b \/ B!Zero \in {a, b}

\* When nobody is reading the proc entry, the next process to read it gets
\* the text, unless some process has left it before its end: no mix of tests
\* and changes of len by several processes leaves it the wrong way round.
QuietMeansRewound ==
  ~quit /\ (\A u \in Users : cat[u] = "out") => len

\* What led_show reads is what led_store wrote last, whoever set up the pin
\* and whatever other drivers do with other pins, as long as none of them
\* changes a direction in the middle of led_init.
ShowTellsStore ==
  lit # Nothing /\ ~clash => (Led \in L!DataIn <=> lit)
=============================================================================
