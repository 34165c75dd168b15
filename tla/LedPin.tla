------------------------------- MODULE LedPin -------------------------------
(***************************************************************************)
(* led_show, led_store and led_init of LED-Reconf.c, on the registers of a  *)
(* GPIO bank that other drivers use too.  Several processes may be in the   *)
(* two handlers at once, each with a file of its own.                      *)
(***************************************************************************)
CONSTANTS
  Pins,     \* the pins of the bank
  Led,      \* gpbank->pinNo
  Procs,    \* processes that use the attribute
  Nothing   \* no value yet

VARIABLES
  oe,       \* the OE register: the pins configured as input
  latch,    \* the DATAOUT register: the pins driven high
  outside,  \* the levels the outside drives
  done,     \* ledInitDone
  in,       \* in[p] : where process p is
  want,     \* want[p] : the level p stores, or Nothing for a show
  reg,      \* reg[p] : p's local copy of a register
  lit,      \* the level last written for the LED
  other,    \* where another driver is that changes a direction
  otherOe,  \* its copy of OE
  clash     \* its change and one of led_init have overlapped

vars == <<oe, latch, outside, done, in, want, reg, lit, other, otherOe, clash>>

Steps == {"out", "init", "oe", "flag", "data", "write"}

\* DATAIN: an output reads back what it drives.
DataIn == (outside \cap oe) \cup (latch \ oe)

Init ==
  /\ oe = Pins /\ latch = {} /\ outside \in SUBSET (Pins \ {Led})
  /\ done = FALSE
  /\ in = [p \in Procs |-> "out"] /\ want = [p \in Procs |-> Nothing]
  /\ reg = [p \in Procs |-> {}]
  /\ lit = Nothing /\ other = "out" /\ otherOe = {} /\ clash = FALSE

To(p, step) == in' = [in EXCEPT ![p] = step]
Busy        == \E p \in Procs : in[p] = "oe"

\* A show or a store begins: ledInitDone decides whether it sets up the pin.
Call(p) ==
  /\ in[p] = "out"
  /\ \E v \in BOOLEAN \cup {Nothing} : want' = [want EXCEPT ![p] = v]
  /\ To(p, IF done THEN "data" ELSE "init")
  /\ UNCHANGED <<oe, latch, outside, done, reg, lit, other, otherOe, clash>>

\* The slip: ledInitDone is set before the pin is an output.
ReadOeDone(p) ==
  /\ in[p] = "init"
  /\ reg' = [reg EXCEPT ![p] = oe \ {Led}]
  /\ clash' = (clash \/ other = "oe")
  /\ done' = TRUE
  /\ To(p, "oe")
  /\ UNCHANGED <<oe, latch, outside, want, lit, other, otherOe>>

ReadOe(p) ==
  /\ in[p] = "init"
  /\ reg' = [reg EXCEPT ![p] = oe \ {Led}]
  /\ clash' = (clash \/ other = "oe")
  /\ To(p, "oe")
  /\ UNCHANGED <<oe, latch, outside, done, want, lit, other, otherOe>>

WriteOe(p) ==
  /\ in[p] = "oe"
  /\ oe' = reg[p]
  /\ To(p, "flag")
  /\ UNCHANGED <<latch, outside, done, want, reg, lit, other, otherOe, clash>>

SetDone(p) ==
  /\ in[p] = "flag"
  /\ done' = TRUE
  /\ To(p, "data")
  /\ UNCHANGED <<oe, latch, outside, want, reg, lit, other, otherOe, clash>>

\* EINVAL for a number that is neither 0 nor 1; a text that is no number at
\* all is stored as 0.
Refuse(p) ==
  /\ in[p] = "data" /\ want[p] # Nothing
  /\ To(p, "out")
  /\ UNCHANGED <<oe, latch, outside, done, want, reg, lit, other, otherOe,
                 clash>>

\* A show is over with its read of DATAIN.
ReadData(p) ==
  /\ in[p] = "data"
  /\ reg' = [reg EXCEPT ![p] = DataIn]
  /\ To(p, IF want[p] = Nothing THEN "out" ELSE "write")
  /\ UNCHANGED <<oe, latch, outside, done, want, lit, other, otherOe, clash>>

\* All pins that read high, and the LED, go to SETDATAOUT or CLEARDATAOUT: a
\* store of 0 turns off whatever else is on.
WriteData(p) ==
  /\ in[p] = "write"
  /\ LET data == reg[p] \cup {Led}
     IN  latch' = IF want[p] THEN latch \cup data ELSE latch \ data
  /\ lit' = want[p]
  /\ To(p, "out")
  /\ UNCHANGED <<oe, outside, done, want, reg, other, otherOe, clash>>

----------------------------------------------------------------------------
(* The rest of the board: other drivers of the bank, and the inputs.       *)

OtherReads ==
  /\ other = "out"
  /\ other' = "oe" /\ otherOe' = oe
  /\ clash' = (clash \/ Busy)
  /\ UNCHANGED <<oe, latch, outside, done, in, want, reg, lit>>

OtherTurns ==
  /\ other = "oe"
  /\ \E pin \in Pins \ {Led} : oe' \in {otherOe \cup {pin}, otherOe \ {pin}}
  /\ other' = "out" /\ otherOe' = {}
  /\ UNCHANGED <<latch, outside, done, in, want, reg, lit, clash>>

OtherDrives ==
  /\ \E pin \in Pins \ {Led} : latch' \in {latch \cup {pin}, latch \ {pin}}
  /\ UNCHANGED <<oe, outside, done, in, want, reg, lit, other, otherOe, clash>>

Next ==
  \/ \E p \in Procs : \/ Call(p) \/ ReadOe(p) \/ WriteOe(p) \/ SetDone(p)
                      \/ Refuse(p) \/ ReadData(p) \/ WriteData(p)
  \/ OtherReads \/ OtherTurns \/ OtherDrives

Spec == Init /\ [][Next]_vars
=============================================================================
