----------------------------- MODULE UsersPage ------------------------------
(***************************************************************************)
(* The users page of the dashboard: the list of accounts, the dialog that  *)
(* creates one and the dialog that deactivates or reactivates one, while   *)
(* another administrator does the same.                                    *)
(***************************************************************************)
EXTENDS QueryCache

CONSTANTS
  Users,
  NoUser,            \* no dialog; an account to be created
  UserList,          \* query key ["users"]
  MaxUserWrites      \* bound: writes of an account, its insert included

ASSUME UsersPageAssumption ==
  /\ NoUser \notin Users
  /\ MaxUserWrites \in Nat

VARIABLES
  userRows,          \* the table: the writes of each account, their is_active
  createOpen,
  deactivateTarget,  \* the account of the dialog, as the list had it
  usersCache,        \* query ["users"]
  creatingUser,      \* createMutation
  deactivating,      \* deactivateMutation
  toldUsers          \* writes that the page has reported

userDialogs == <<createOpen, deactivateTarget>>
usersVars == <<userRows, userDialogs, usersCache, creatingUser, deactivating, toldUsers>>

\* The n-th write of an account, and the is_active it leaves.
UserWrites == Users \X (1..MaxUserWrites) \X BOOLEAN

\* A row of the list.
Row(user, active) == [user |-> user, active |-> active]

NoRow == Row(NoUser, TRUE)

Rows == [user : Users, active : BOOLEAN] \cup {NoRow}

\* A request, the write it has made, and how far it is.
NoUserRequest == [row |-> NoRow, made |-> {}, at |-> "idle"]

UserRequests == [row : Rows, made : SUBSET UserWrites, at : {"idle", "sent", "done"}]

\* The shape of the page, its cache and its mutations.
UsersTypeOK ==
  /\ userRows \in SUBSET UserWrites
  /\ createOpen \in BOOLEAN
  /\ deactivateTarget \in Rows
  /\ usersCache \in [{UserList} -> Entries(UserWrites)]
  /\ creatingUser \in UserRequests
  /\ deactivating \in UserRequests
  /\ toldUsers \in SUBSET UserWrites

UsersInit ==
  /\ userRows = {}
  /\ createOpen = FALSE
  /\ deactivateTarget = NoRow
  /\ usersCache = [k \in {UserList} |-> NoEntry]
  /\ creatingUser = NoUserRequest
  /\ deactivating = NoUserRequest
  /\ toldUsers = {}

-----------------------------------------------------------------------------
UsersNow == [k \in {UserList} |-> userRows]

\* The library fetches, fills and forgets.
UsersQueries ==
  /\ usersCache' \in QuerySteps(usersCache, {UserList}, UsersNow)
  /\ UNCHANGED <<userRows, userDialogs, creatingUser, deactivating, toldUsers>>

\* The writes of an account in an answer, and the last of them.
WritesOf(user, rows) == {w \in rows : w[1] = user}

LastWrite(user, rows) ==
  {w \in WritesOf(user, rows) : \A v \in WritesOf(user, rows) : v[2] <= w[2]}

NoDialog == ~createOpen /\ deactivateTarget = NoRow

OpenNewUser ==
  /\ NoDialog
  /\ createOpen' = TRUE
  /\ UNCHANGED <<userRows, deactivateTarget, usersCache, creatingUser, deactivating, toldUsers>>

\* FAULT: the buttons of the rows do not look at the mutation.
RowsEnabled_Always == TRUE

\* The buttons of the rows wait for a change that is pending.
RowsEnabled == deactivating = NoUserRequest

OpenDeactivate(user) ==
  /\ NoDialog
  /\ RowsEnabled
  /\ \E listed \in usersCache[UserList].data : \E w \in LastWrite(user, listed) :
       deactivateTarget' = Row(user, w[3])
  /\ UNCHANGED <<userRows, createOpen, usersCache, creatingUser, deactivating, toldUsers>>

CloseUserDialog ==
  /\ ~NoDialog
  /\ createOpen' = FALSE
  /\ deactivateTarget' = NoRow
  /\ UNCHANGED <<userRows, usersCache, creatingUser, deactivating, toldUsers>>

\* "Crear usuario": canSubmit, the fields being filled in.
SubmitUser ==
  /\ createOpen
  /\ creatingUser = NoUserRequest
  /\ creatingUser' = [NoUserRequest EXCEPT !.at = "sent"]
  /\ UNCHANGED <<userRows, userDialogs, usersCache, deactivating, toldUsers>>

ConfirmDeactivate ==
  /\ deactivateTarget # NoRow
  /\ deactivating = NoUserRequest
  /\ deactivating' = [NoUserRequest EXCEPT !.row = deactivateTarget, !.at = "sent"]
  /\ UNCHANGED <<userRows, userDialogs, usersCache, creatingUser, toldUsers>>

\* The next write of an account.
NextUserWrite(user, active) ==
  ({user} \X {Cardinality(WritesOf(user, userRows)) + 1} \X {active}) \cap UserWrites

\* UserService.create_user; for an email that exists the request just fails.
ServeNewUser ==
  /\ creatingUser.at = "sent"
  /\ \E user \in Users : \E w \in NextUserWrite(user, TRUE) :
       /\ w[2] = 1
       /\ userRows' = userRows \cup {w}
       /\ creatingUser' = [creatingUser EXCEPT !.at = "done", !.made = {w}]
  /\ UNCHANGED <<userDialogs, usersCache, deactivating, toldUsers>>

\* UserService.update_user, asked for the reverse of what the dialog had.
ServeDeactivate ==
  /\ deactivating.at = "sent"
  /\ \E w \in NextUserWrite(deactivating.row.user, ~deactivating.row.active) :
       /\ userRows' = userRows \cup {w}
       /\ deactivating' = [deactivating EXCEPT !.at = "done", !.made = {w}]
  /\ UNCHANGED <<userDialogs, usersCache, creatingUser, toldUsers>>

\* What a success invalidates.
StaleAfterUser == {UserList}

\* The answer is not an error.
UserConfirmed(request) == request.at = "done"

\* Either success closes its dialog, whichever account it is for now.
NewUserSucceeds ==
  /\ UserConfirmed(creatingUser)
  /\ toldUsers' = toldUsers \cup creatingUser.made
  /\ usersCache' = Invalidated(usersCache, StaleAfterUser, {UserList}, UsersNow)
  /\ creatingUser' = NoUserRequest
  /\ createOpen' = FALSE
  /\ UNCHANGED <<userRows, deactivateTarget, deactivating>>

DeactivateSucceeds ==
  /\ UserConfirmed(deactivating)
  /\ toldUsers' = toldUsers \cup deactivating.made
  /\ usersCache' = Invalidated(usersCache, StaleAfterUser, {UserList}, UsersNow)
  /\ deactivating' = NoUserRequest
  /\ deactivateTarget' = NoRow
  /\ UNCHANGED <<userRows, createOpen, creatingUser>>

\* A refusal, an error, or an answer that is lost: the dialogs stay.
NewUserFails ==
  /\ creatingUser # NoUserRequest
  /\ creatingUser' = NoUserRequest
  /\ UNCHANGED <<userRows, userDialogs, usersCache, deactivating, toldUsers>>

DeactivateFails ==
  /\ deactivating # NoUserRequest
  /\ deactivating' = NoUserRequest
  /\ UNCHANGED <<userRows, userDialogs, usersCache, creatingUser, toldUsers>>

\* Another administrator's write; or that of a request whose page gave it up.
OthersWriteUser(user, active) ==
  /\ \E w \in NextUserWrite(user, active) : userRows' = userRows \cup {w}
  /\ UNCHANGED <<userDialogs, usersCache, creatingUser, deactivating, toldUsers>>

UsersNext ==
  \/ UsersQueries \/ OpenNewUser \/ CloseUserDialog \/ SubmitUser \/ ConfirmDeactivate
  \/ ServeNewUser \/ NewUserSucceeds \/ NewUserFails
  \/ ServeDeactivate \/ DeactivateSucceeds \/ DeactivateFails
  \/ \E user \in Users : OpenDeactivate(user)
  \/ \E user \in Users, active \in BOOLEAN : OthersWriteUser(user, active)

UsersSpec == UsersInit /\ [][UsersNext]_usersVars

-----------------------------------------------------------------------------
(* Properties.                                                             *)

\* The list never shows as fresh an account without a write that the page has
\* reported, unless the fetch could not be given up.
UsersListIsRecent ==
  LET entry == usersCache[UserList]
  IN  ~entry.late /\ entry.fresh => \A known \in entry.data : toldUsers \subseteq known

\* While a change is pending its dialog may have been closed, but no other has been
\* opened, though the list may by now show another row for the same account; so
\* the success, which closes whatever dialog is open by then, closes its own.
ClosesItsOwnDialog ==
  deactivating # NoUserRequest => deactivateTarget \in {NoRow, deactivating.row}

-----------------------------------------------------------------------------
(* What makes the properties inductive.                                    *)

\* What is reported is committed, and the list is recent.
UsersInv ==
  /\ UsersTypeOK
  /\ toldUsers \cup creatingUser.made \cup deactivating.made \subseteq userRows
  /\ Recent(usersCache[UserList], toldUsers)
  /\ ClosesItsOwnDialog
=============================================================================
