----------------------------- MODULE ProcEntry -----------------------------
(***************************************************************************)
(* The proc entry of procfs.c.  A process reads it until a read returns 0,  *)
(* as cat does; whether the next read is the text or that 0 is one global   *)
(* variable for all of them.                                               *)
(***************************************************************************)
CONSTANT Cats   \* processes that read the entry

VARIABLES
  len,    \* the next read returns the text
  cat,    \* cat[c] : what c is doing
  fed,    \* those that have had the text since they opened the entry
  quit    \* some process has closed the entry before it had its 0

vars == <<len, cat, fed, quit>>

CatStates == {"out", "open", "text", "end"}

Init == /\ len = TRUE /\ quit = FALSE /\ fed = {}
        /\ cat = [c \in Cats |-> "out"]

OpenProc(c) ==
  /\ cat[c] = "out"
  /\ cat' = [cat EXCEPT ![c] = "open"]
  /\ fed' = fed \ {c}
  /\ UNCHANGED <<len, quit>>

\* m_read_proc tests len and changes it in two steps.
TestLen(c) ==
  /\ cat[c] = "open"
  /\ cat' = [cat EXCEPT ![c] = IF len THEN "text" ELSE "end"]
  /\ UNCHANGED <<len, fed, quit>>

ReadText(c) ==
  /\ cat[c] = "text"
  /\ len' = FALSE
  /\ fed' = fed \cup {c}
  /\ cat' = [cat EXCEPT ![c] = "open"]
  /\ UNCHANGED quit

\* The slip: the test is not turned round again.
ReadEndOnce(c) ==
  /\ cat[c] = "end"
  /\ cat' = [cat EXCEPT ![c] = "out"]
  /\ UNCHANGED <<len, fed, quit>>

\* The 0, after which the process closes the entry.
ReadEnd(c) ==
  /\ cat[c] = "end"
  /\ len' = TRUE
  /\ cat' = [cat EXCEPT ![c] = "out"]
  /\ UNCHANGED <<fed, quit>>

\* A process that reads once, or is killed, between two reads.
Quit(c) ==
  /\ cat[c] = "open"
  /\ quit' = (quit \/ c \in fed)
  /\ cat' = [cat EXCEPT ![c] = "out"]
  /\ UNCHANGED <<len, fed>>

Next == \E c \in Cats : \/ OpenProc(c) \/ TestLen(c) \/ ReadText(c)
                        \/ ReadEnd(c) \/ Quit(c)

Spec == Init /\ [][Next]_vars
=============================================================================
