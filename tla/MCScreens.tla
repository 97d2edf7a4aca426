----------------------------- MODULE MCScreens ------------------------------
(***************************************************************************)
(* Instances of Screens for TLC.                                           *)
(***************************************************************************)
EXTENDS Screens

CONSTANTS p1, r1

\* A product that is inserted and changed once more.
MCChanges == {<<p1, 1>>, <<p1, 2>>}

\* A receipt that may live its whole life.
MCMarks == {<<r1, "issued">>, <<r1, "accepted">>, <<r1, "voided">>}

\* One issues receipts, two look at them, and one of these may void.
MCErrands ==
  [task : {"issue"}, role : {"supervisor"}] \cup [task : {"read"}, role : {"admin", "supervisor"}]
=============================================================================
