---------------------------- MODULE PaymentBook ----------------------------
(***************************************************************************)
(* What the shop may rely on about its payments: each is opened once, for  *)
(* one sale; it is paid at the counter, or by a provider's delivery about  *)
(* this payment, each of whose references is good for one payment; or it   *)
(* is given up.  Then it stays so, and only the verdict of a delivery is   *)
(* ever announced.                                                         *)
(***************************************************************************)
EXTENDS Integers

CONSTANTS Keys, Sales, NoSale, Refs, NoRef, Deliveries

VARIABLES
  status,            \* of each payment
  sale_of,           \* the sale it is for
  provider_ref,      \* the delivery that settled it
  told               \* what the cashier was told about it

vars == <<status, sale_of, provider_ref, told>>

Init ==
  /\ status = [k \in Keys |-> "none"]
  /\ sale_of = [k \in Keys |-> NoSale]
  /\ provider_ref = [k \in Keys |-> NoRef]
  /\ told = [k \in Keys |-> {}]

Open(k) ==
  /\ status[k] = "none"
  /\ \E first \in {"paid", "pending"} : status' = [status EXCEPT ![k] = first]
  /\ \E s \in Sales : sale_of' = [sale_of EXCEPT ![k] = s]
  /\ UNCHANGED <<provider_ref, told>>

Settle(d) ==
  /\ d.verdict \in {"paid", "failed"}
  /\ status[d.key] = "pending"
  /\ \A k \in Keys : provider_ref[k] # d.ref
  /\ status' = [status EXCEPT ![d.key] = d.verdict]
  /\ provider_ref' = [provider_ref EXCEPT ![d.key] = d.ref]
  /\ UNCHANGED <<sale_of, told>>

GiveUp ==
  /\ \E S \in SUBSET Keys :
       /\ \A k \in S : status[k] = "pending"
       /\ status' = [k \in Keys |-> IF k \in S THEN "failed" ELSE status[k]]
  /\ UNCHANGED <<sale_of, provider_ref, told>>

Announce(k) ==
  /\ provider_ref[k] # NoRef
  /\ told' = [told EXCEPT ![k] =
       {IF status[k] = "paid" THEN "payment.confirmed" ELSE "payment.failed"}]
  /\ UNCHANGED <<status, sale_of, provider_ref>>

Next ==
  \/ \E k \in Keys : Open(k) \/ Announce(k)
  \/ \E d \in Deliveries : Settle(d)
  \/ GiveUp

Spec == Init /\ [][Next]_vars
=============================================================================
