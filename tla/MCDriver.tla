------------------------------ MODULE MCDriver ------------------------------
(***************************************************************************)
(* Instances of DriverLife for TLC: each driver alone, and pairs that share *)
(* the class name, with and without one that loses its number.             *)
(***************************************************************************)
EXTENDS DriverProps

CONSTANTS u1, u2

Alone == {{d} : d \in Drivers}
Pairs == {{"file_operation", "device_file"}, {"fops", "procfs"}}
AloneOrPair == Alone \cup Pairs
=============================================================================
