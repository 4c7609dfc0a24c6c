----------------------------- MODULE PowersOfTwo -----------------------------
(***************************************************************************)
(* Powers of two: shifts in pow2_lt (Enclave/Enclave-utility.cpp) and      *)
(* obliSort (Enclave/oblivious-blocks.hpp).  A power is known by its       *)
(* exponent.                                                               *)
(***************************************************************************)
EXTENDS Integers, FiniteSetsExt

Pow2[e \in Nat] == IF e = 0 THEN 1 ELSE 2 * Pow2[e - 1]

\* pow2_lt(n), the largest power of two below n.
Pow2Lt(n) == Max({e \in 0 .. n : Pow2[e] < n})

\* upper of obliSort: its power of two is the least above len.
Upper(len) == Min({e \in 0 .. len : len < Pow2[e]})
=============================================================================
