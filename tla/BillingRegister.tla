-------------------------- MODULE BillingRegister --------------------------
(***************************************************************************)
(* What the tax authority may rely on: a register that is only ever added  *)
(* to.  Every entry takes the number after the last one of its series, an  *)
(* entry is never changed but for the voiding of an accepted one, and only *)
(* what is in the register is announced.                                   *)
(***************************************************************************)
EXTENDS Integers, FiniteSets

CONSTANTS Documents, Series, Sales

VARIABLES
  register,          \* the entries
  announced          \* documents whose receipt was announced

vars == <<register, announced>>

Init == register = {} /\ announced = {}

OfSeries(x) == {e \in register : e.series = x}

\* The next number is how many entries there are, whatever was attempted.
Issue(d) ==
  /\ \A e \in register : e.document # d
  /\ \E x \in Series, s \in Sales, status \in {"accepted", "rejected", "sent"} :
       register' = register \cup
         {[document |-> d, series |-> x, correlativo |-> Cardinality(OfSeries(x)) + 1,
           sale |-> s, status |-> status]}
  /\ UNCHANGED announced

Void(e) ==
  /\ e.status = "accepted"
  /\ register' = (register \ {e}) \cup {[e EXCEPT !.status = "voided"]}
  /\ UNCHANGED announced

Announce(e) ==
  /\ announced' = announced \cup {e.document}
  /\ UNCHANGED register

Next ==
  \/ \E d \in Documents : Issue(d)
  \/ \E e \in register : Void(e) \/ Announce(e)

Spec == Init /\ [][Next]_vars
=============================================================================
