----------------------------- MODULE MCTerminal -----------------------------
(* Instances of Terminal for TLC.                                          *)
EXTENDS Terminal, TLC

\* Products, requests and keys are interchangeable: nothing names one.
Symmetry == Permutations(Products) \cup Permutations(Requests) \cup Permutations(Keys)
=============================================================================
