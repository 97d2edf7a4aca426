------------------------- MODULE BillingRefinement -------------------------
(***************************************************************************)
(* BillingService implements the register of BillingRegister: the counter, *)
(* the row locks, the calls to the OSE, and every transaction that was     *)
(* lost cannot be seen in it.                                              *)
(***************************************************************************)
EXTENDS Billing

\* A document of the table as an entry of the register.
Entry(d) ==
  [document |-> d, series |-> documents[d].series, correlativo |-> documents[d].correlativo,
   sale |-> documents[d].sale, status |-> documents[d].status]

Register == INSTANCE BillingRegister WITH
  Documents <- Requests,
  register <- {Entry(d) : d \in Issued},
  announced <- ready

\* Every commit of issue_document adds one entry under the next number, that of
\* void_document voids one, the receipt task announces one; no other step, no
\* rollback and no crash can be seen in the register.
ImplementsRegister == Register!Spec

-----------------------------------------------------------------------------
(* What makes the mapping hold.                                            *)

DocumentsOf(x) == {d \in Issued : documents[d].series = x}

\* The counter of a series counts its documents, and a document that is being
\* issued is for a sale that exists.
RegisterInv ==
  /\ \A x \in Series :
       IsFiniteSet(DocumentsOf(x)) /\ Cardinality(DocumentsOf(x)) = last_correlativo[x]
  /\ \A r \in Requests : pc[r] \in {"checking", "numbering", "sending", "answered"} => sale[r] \in Sales
=============================================================================
