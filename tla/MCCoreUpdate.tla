---------------------------- MODULE MCCoreUpdate ----------------------------
(***************************************************************************)
(* Small instances of CoreUpdate: three releases, and the two resident     *)
(* services of macOS.                                                      *)
(***************************************************************************)
EXTENDS CoreUpdate, TLC

MacServices == <<"Node", "Gateway">>
ThreadSymmetry == Permutations(Threads)
=============================================================================
