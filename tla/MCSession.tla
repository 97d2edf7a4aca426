----------------------------- MODULE MCSession ------------------------------
(***************************************************************************)
(* Instances of Session for TLC.                                           *)
(***************************************************************************)
EXTENDS Session

\* Two tabs: the first one asks for two things at once, the second one logs in
\* and out.
MCTabOf == [me1 |-> "tab1", data1 |-> "tab1", data3 |-> "tab1", login2 |-> "tab2", logout2 |-> "tab2"]

MCKindOf == [me1 |-> "me", data1 |-> "data", data3 |-> "data", login2 |-> "login", logout2 |-> "logout"]
=============================================================================
