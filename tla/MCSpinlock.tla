----------------------------- MODULE MCSpinlock -----------------------------
(* A small instance of Spinlock: two CPUs, each with its interrupt handler, *)
(* and two locks that are taken in order.                                   *)
EXTENDS Spinlock

CONSTANTS c1, c2

MCCPUs == {c1, c2}
MCLocks == {1, 2}
=============================================================================
