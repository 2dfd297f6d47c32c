---------------------------- MODULE TtasSpinlockMC ----------------------------
(* A small instance of TtasSpinlock for TLC. *)
EXTENDS TtasSpinlock

CONSTANTS t1, t2, t3

ThreeThreads == {t1, t2, t3}
=============================================================================
