-------------------------------- MODULE Accounts --------------------------------
(***************************************************************************)
(* The rows of user accounts (internal/userauth, internal/server:          *)
(* user_auth_handler.go, admin_user_handler.go).                           *)
(*                                                                         *)
(* Register, profile, password, role and reset handlers read a user, work  *)
(* (bcrypt takes long) and write the whole row back.  Codes and sessions   *)
(* are the subjects of EmailCodes and Sessions.                            *)
(***************************************************************************)
EXTENDS Platform

CONSTANTS
  Account,    \* ids of users
  Email,      \* email addresses
  AdminEmail, \* adminEmails of the configuration
  SendsEmail  \* an email sender is configured

ASSUME AdminsHaveEmail == AdminEmail \subseteq Email /\ None \notin Email \cup Account
ASSUME SenderChoice == SendsEmail \in BOOLEAN

VARIABLES
  users,    \* table users: the row of an id, or None
  editor    \* what a goroutine is at

accVars == <<users, editor, faults>>

UserRow == [email : Email, password : {"first", "second"},
            role : {"user", "admin"}, verified : BOOLEAN]

(* The requests that read a row to write it back, and the one that does    *)
(* not.                                                                    *)
WholeRow == {"profile", "password", "role", "reset", "promote"}
Editing == [at : {"idle", "create", "verify"} \cup WholeRow,
            user : Account \cup {None}, row : UserRow \cup {None}]

NoEdit == [at |-> "idle", user |-> None, row |-> None]

AccTypeOK ==
  /\ users \in [Account -> UserRow \cup {None}]
  /\ editor \in [Handler -> Editing]
  /\ faults \in 0..MaxFaults

AccInit ==
  /\ users = [u \in Account |-> None]
  /\ editor = [h \in Handler |-> NoEdit]
  /\ faults = 0

-----------------------------------------------------------------------------
(* The store of users.                                                     *)
GetUserByEmail(e) == {u \in Account : users[u] # None /\ users[u].email = e}

(* The column email is UNIQUE.                                             *)
Taken(e, u) == GetUserByEmail(e) \ {u} # {}

(* Variant: no constraint on the column.                                   *)
CreateUserUnchecked(u, row) == users' = [users EXCEPT ![u] = row]

(* SQLiteStore.CreateUser                                                  *)
CreateUser(u, row) ==
  users' = IF Taken(row.email, u) THEN users ELSE [users EXCEPT ![u] = row]

(* SQLiteStore.UpdateUser: the whole row, by id.                           *)
UpdateUser(u, row) ==
  users' = IF users[u] = None \/ Taken(row.email, u) THEN users
           ELSE [users EXCEPT ![u] = row]

(* Variant: the row that was read is written back with the flag.           *)
SetVerifiedRow(u, read) == UpdateUser(u, [read EXCEPT !.verified = TRUE])

(* SQLiteStore.SetEmailVerified: one column.                               *)
SetEmailVerified(u, read) ==
  users' = IF users[u] = None THEN users
           ELSE [users EXCEPT ![u].verified = TRUE]

Ready(h) == editor[h] = NoEdit

-----------------------------------------------------------------------------
(* Service.Register: the email is looked up, the password hashed, the row  *)
(* inserted.                                                               *)
RegisterBy(h, u, e) ==
  /\ Ready(h)
  /\ users[u] = None
  /\ \A g \in Handler : editor[g].user # u
  /\ editor' = [editor EXCEPT ![h] =
       [at |-> "create", user |-> u,
        row |-> [email |-> e, password |-> "first",
                 role |-> IF e \in AdminEmail THEN "admin" ELSE "user",
                 verified |-> ~SendsEmail]]]

RegisterCheck(h, u, e) ==
  /\ GetUserByEmail(e) = {}
  /\ RegisterBy(h, u, e)
  /\ UNCHANGED <<users, faults>>

(* The error of GetUserByEmail is ignored: as if there were no user.  Any  *)
(* number of them may fail.                                                *)
RegisterCheckFails(h, u, e) ==
  /\ RegisterBy(h, u, e)
  /\ UNCHANGED <<users, faults>>

RegisterCreate(h) ==
  /\ editor[h].at = "create"
  /\ CreateUser(editor[h].user, editor[h].row)
  /\ editor' = [editor EXCEPT ![h] = NoEdit]
  /\ UNCHANGED faults

-----------------------------------------------------------------------------
(* A handler reads the user: UpdateProfile, ChangePassword, UpdateRole,    *)
(* ResetPassword, VerifyEmail, and Login when it has to promote.           *)
ReadUser(h, u, task) ==
  /\ Ready(h)
  /\ users[u] # None
  /\ editor' = [editor EXCEPT ![h] = [at |-> task, user |-> u, row |-> users[u]]]
  /\ UNCHANGED <<users, faults>>

UpdateProfileRead(h, u)  == users[u] # None /\ users[u].verified
                            /\ ReadUser(h, u, "profile")
ChangePasswordRead(h, u) == users[u] # None /\ users[u].verified
                            /\ ReadUser(h, u, "password")
UpdateRoleRead(h, u)     == ReadUser(h, u, "role")
ResetRead(h, u)          == ReadUser(h, u, "reset")
VerifyRead(h, u)         == ReadUser(h, u, "verify")

(* Service.Login, for an address of adminEmails.                           *)
LoginRead(h, u) ==
  /\ users[u] # None
  /\ users[u].verified
  /\ users[u].email \in AdminEmail
  /\ users[u].role # "admin"
  /\ ReadUser(h, u, "promote")

Write(h, task, row) ==
  /\ editor[h].at = task
  /\ UpdateUser(editor[h].user, row)
  /\ editor' = [editor EXCEPT ![h] = NoEdit]
  /\ UNCHANGED faults

UpdateProfile(h, e) ==
  Write(h, "profile", [editor[h].row EXCEPT !.email = e])

ChangePassword(h, p) ==
  Write(h, "password", [editor[h].row EXCEPT !.password = p])

UpdateRole(h, r) ==
  Write(h, "role", [editor[h].row EXCEPT !.role = r])

ResetPassword(h, p) ==
  Write(h, "reset", [editor[h].row EXCEPT !.password = p])

LoginPromote(h) ==
  Write(h, "promote", [editor[h].row EXCEPT !.role = "admin"])

(* Service.VerifyEmail                                                     *)
VerifyEmail(h) ==
  /\ editor[h].at = "verify"
  /\ SetEmailVerified(editor[h].user, editor[h].row)
  /\ editor' = [editor EXCEPT ![h] = NoEdit]
  /\ UNCHANGED faults

(* Service.DeleteUser, of an administrator, one by one or in bulk.         *)
DeleteUser(u) ==
  /\ users[u] # None
  /\ users' = [users EXCEPT ![u] = None]
  /\ UNCHANGED <<editor, faults>>

-----------------------------------------------------------------------------
handleAuthRegister(h) ==
  \/ \E u \in Account, e \in Email : RegisterCheck(h, u, e) \/ RegisterCheckFails(h, u, e)
  \/ RegisterCreate(h)

handleAuthLogin(h) == (\E u \in Account : LoginRead(h, u)) \/ LoginPromote(h)

handleAuthUpdateMe(h) ==
  (\E u \in Account : UpdateProfileRead(h, u)) \/ \E e \in Email : UpdateProfile(h, e)

handleAuthChangePassword(h) ==
  \/ \E u \in Account : ChangePasswordRead(h, u)
  \/ \E p \in {"first", "second"} : ChangePassword(h, p)

handleAuthVerifyEmail(h) == (\E u \in Account : VerifyRead(h, u)) \/ VerifyEmail(h)

handleAuthResetPassword(h) ==
  \/ \E u \in Account : ResetRead(h, u)
  \/ \E p \in {"first", "second"} : ResetPassword(h, p)

handleAdminUpdateUserRole(h) ==
  \/ \E u \in Account : UpdateRoleRead(h, u)
  \/ \E r \in {"user", "admin"} : UpdateRole(h, r)

AccNext ==
  \/ \E h \in Handler :
       \/ handleAuthRegister(h) \/ handleAuthLogin(h) \/ handleAuthUpdateMe(h)
       \/ handleAuthChangePassword(h) \/ handleAuthVerifyEmail(h)
       \/ handleAuthResetPassword(h) \/ handleAdminUpdateUserRole(h)
  \/ \E u \in Account : DeleteUser(u)

AccSpec == AccInit /\ [][AccNext]_accVars

-----------------------------------------------------------------------------
(* Two accounts never have one email address, although the address is      *)
(* looked up long before the row is written (Register, UpdateProfile).     *)
EmailsApart ==
  \A u, v \in Account :
    users[u] # None /\ users[v] # None /\ users[u].email = users[v].email => u = v

(* A column of a user changes only by a request that is about it, or by a  *)
(* whole-row write of a request during which the user changed: verifying   *)
(* an email address never takes back a password or a role, and what nobody *)
(* else touches meanwhile is not lost (UpdateUser, SetEmailVerified).      *)
Asks(task, column) ==
  <<task, column>> \in {<<"profile", "email">>, <<"password", "password">>,
                        <<"reset", "password">>, <<"role", "role">>,
                        <<"promote", "role">>, <<"verify", "verified">>}

ChangedOnPurpose ==
  [][\A u \in Account : users[u] # None /\ users'[u] # None =>
       \A column \in DOMAIN users[u] :
         users'[u][column] # users[u][column] =>
           \E h \in Handler :
             /\ editor[h].user = u
             /\ \/ Asks(editor[h].at, column)
                \/ editor[h].at \in WholeRow /\ editor[h].row # users[u]]_users

=============================================================================
