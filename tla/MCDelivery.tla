----------------------------- MODULE MCDelivery -----------------------------
(***************************************************************************)
(* Small instances of Delivery: two processes, two rows, two event times   *)
(* with a cutoff that can fall between them.                               *)
(***************************************************************************)
EXTENDS Delivery, TLC

MCTimes == {1, 2}
OneTime == {1}
Uninstalled == {NoCutoff}
Uninstallable == {NoCutoff, Unreadable}
AnyPolicy == {NoCutoff, Unreadable, 2}
Installed == {2}

ProcSymmetry == Permutations(Procs)
=============================================================================
