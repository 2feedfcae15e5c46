-------------------------------- MODULE Sessions --------------------------------
(***************************************************************************)
(* Refresh tokens and API keys of users (internal/userauth: Login,         *)
(* RefreshToken, Logout, generateTokenPair, GenerateAPIKey, RevokeAPIKey,  *)
(* ValidateAPIKey; tables sessions and user_api_keys).                     *)
(*                                                                         *)
(* The foreign keys of both tables are declared with ON DELETE CASCADE;    *)
(* the database is opened without enforcing them: rows outlive the user.   *)
(***************************************************************************)
EXTENDS Platform

CONSTANTS
  Session, \* ids of sessions, each with its refresh token
  Key      \* ids of API keys

ASSUME NoneIsNoSession == None \notin Session \cup Key

VARIABLES
  sessions, \* table sessions: [user, expired], or None
  keys,     \* table user_api_keys: [user, revoked], or None
  known,    \* users with a row
  rotating, \* what a goroutine is at
  parent,   \* history: the session a session was rotated from
  kept      \* history: sessions whose deletion failed

sessionVars == <<sessions, keys, known, rotating, parent, kept, faults>>

Rotation == [at : {"idle", "user", "delete", "create", "key"},
             session : Session \cup {None}, user : User \cup {None},
             key : Key \cup {None}]

NoRotation == [at |-> "idle", session |-> None, user |-> None, key |-> None]

SessionTypeOK ==
  /\ sessions \in [Session -> [user : User, expired : BOOLEAN] \cup {None}]
  /\ keys \in [Key -> [user : User, revoked : BOOLEAN] \cup {None}]
  /\ known \in SUBSET User
  /\ rotating \in [Handler -> Rotation]
  /\ parent \in [Session -> Session \cup {None}]
  /\ kept \in SUBSET Session
  /\ faults \in 0..MaxFaults

SessionInit ==
  /\ sessions = [s \in Session |-> None]
  /\ keys = [k \in Key |-> None]
  /\ known = User
  /\ rotating = [h \in Handler |-> NoRotation]
  /\ parent = [s \in Session |-> None]
  /\ kept = {}
  /\ faults = 0

-----------------------------------------------------------------------------
RotatingAt(h, stage) == rotating[h].at = stage
EndRotation(h) == rotating' = [rotating EXCEPT ![h] = NoRotation]

(* A refresh token that was never drawn.                                   *)
NewSession(s) ==
  /\ sessions[s] = None
  /\ parent[s] = None
  /\ \A r \in Session : parent[r] # s
  /\ s \notin kept
  /\ \A h \in Handler : rotating[h].session # s

(* Service.generateTokenPair                                               *)
GenerateTokenPair(s, u) ==
  /\ NewSession(s)
  /\ sessions' = [sessions EXCEPT ![s] = [user |-> u, expired |-> FALSE]]

(* Login, VerifyEmail, or Register without an email sender.                *)
Login(s, u) ==
  /\ u \in known
  /\ GenerateTokenPair(s, u)
  /\ UNCHANGED <<keys, known, rotating, parent, kept, faults>>

(* Service.RefreshToken: the session is read, then the user ...            *)
RefreshRead(h, s) ==
  /\ rotating[h] = NoRotation
  /\ sessions[s] # None
  /\ IF sessions[s].expired
     THEN /\ sessions' = [sessions EXCEPT ![s] = None]
          /\ UNCHANGED rotating
     ELSE /\ rotating' = [rotating EXCEPT ![h] =
               [NoRotation EXCEPT !.at = "user", !.session = s,
                                  !.user = sessions[s].user]]
          /\ UNCHANGED sessions
  /\ UNCHANGED <<keys, known, parent, kept, faults>>

RefreshUser(h) ==
  /\ RotatingAt(h, "user")
  /\ IF rotating[h].user \in known
     THEN rotating' = [rotating EXCEPT ![h].at = "delete"]
     ELSE EndRotation(h)
  /\ UNCHANGED <<sessions, keys, known, parent, kept, faults>>

(* Variant: the session stays until it expires.                            *)
KeepSession(s) == UNCHANGED sessions

(* SQLiteStore.DeleteSession: by id, no row is no error.                   *)
DeleteSession(s) == sessions' = [sessions EXCEPT ![s] = None]

(* ... then the session is deleted ...                                     *)
RotateDelete(h) ==
  /\ RotatingAt(h, "delete")
  /\ DeleteSession(rotating[h].session)
  /\ rotating' = [rotating EXCEPT ![h].at = "create"]
  /\ UNCHANGED <<keys, known, parent, kept, faults>>

(* (the error of which is ignored)                                         *)
RotateDeleteFails(h) ==
  /\ RotatingAt(h, "delete")
  /\ rotating' = [rotating EXCEPT ![h].at = "create"]
  /\ kept' = kept \cup {rotating[h].session}
  /\ Fault
  /\ UNCHANGED <<sessions, keys, known, parent>>

(* ... and another one created.                                            *)
RotateCreate(h, s) ==
  /\ RotatingAt(h, "create")
  /\ GenerateTokenPair(s, rotating[h].user)
  /\ parent' = [parent EXCEPT ![s] = rotating[h].session]
  /\ EndRotation(h)
  /\ UNCHANGED <<keys, known, kept, faults>>

(* Service.Logout                                                          *)
Logout(s) ==
  /\ sessions[s] # None
  /\ DeleteSession(s)
  /\ UNCHANGED <<keys, known, rotating, parent, kept, faults>>

SessionExpires(s) ==
  /\ sessions[s] # None
  /\ ~sessions[s].expired
  /\ sessions' = [sessions EXCEPT ![s].expired = TRUE]
  /\ UNCHANGED <<keys, known, rotating, parent, kept, faults>>

-----------------------------------------------------------------------------
(* Service.GenerateAPIKey                                                  *)
GenerateAPIKey(k, u) ==
  /\ u \in known
  /\ keys[k] = None
  /\ keys' = [keys EXCEPT ![k] = [user |-> u, revoked |-> FALSE]]
  /\ UNCHANGED <<sessions, known, rotating, parent, kept, faults>>

(* Service.RevokeAPIKey, by id and user.                                   *)
RevokeAPIKey(k, u) ==
  /\ keys[k] # None
  /\ keys[k].user = u
  /\ keys' = [keys EXCEPT ![k].revoked = TRUE]
  /\ UNCHANGED <<sessions, known, rotating, parent, kept, faults>>

(* Service.ValidateAPIKey: the key, then the user, in two queries.         *)
ValidateAPIKey(h, k) ==
  /\ rotating[h] = NoRotation
  /\ keys[k] # None
  /\ ~keys[k].revoked
  /\ rotating' = [rotating EXCEPT ![h] =
       [NoRotation EXCEPT !.at = "key", !.key = k, !.user = keys[k].user]]
  /\ UNCHANGED <<sessions, keys, known, parent, kept, faults>>

KeyUser(h) ==
  /\ RotatingAt(h, "key")
  /\ EndRotation(h)
  /\ UNCHANGED <<sessions, keys, known, parent, kept, faults>>

(* SQLiteStore.DeleteUser                                                  *)
UserDeleted(u) ==
  /\ u \in known
  /\ known' = known \ {u}
  /\ UNCHANGED <<sessions, keys, rotating, parent, kept, faults>>

SessionCrash ==
  /\ Fault
  /\ rotating' = [h \in Handler |-> NoRotation]
  /\ UNCHANGED <<sessions, keys, known, parent, kept>>

handleAuthRefresh(h) ==
  \/ \E s \in Session : RefreshRead(h, s) \/ RotateCreate(h, s)
  \/ RefreshUser(h) \/ RotateDelete(h) \/ RotateDeleteFails(h)

UserAuth(h) == (\E k \in Key : ValidateAPIKey(h, k)) \/ KeyUser(h)

SessionNext ==
  \/ \E h \in Handler : handleAuthRefresh(h) \/ UserAuth(h)
  \/ \E s \in Session :
       Logout(s) \/ SessionExpires(s) \/ \E u \in User : Login(s, u)
  \/ \E k \in Key, u \in User : GenerateAPIKey(k, u) \/ RevokeAPIKey(k, u)
  \/ \E u \in User : UserDeleted(u)
  \/ SessionCrash

SessionSpec == SessionInit /\ [][SessionNext]_sessionVars

-----------------------------------------------------------------------------
(* A refresh token that was rotated is dead, however many requests used it *)
(* at the same time, unless its deletion failed; and the tokens it was     *)
(* rotated to are of the same user (RefreshToken).                         *)
RotatedIsDead ==
  \A s, p \in Session :
    parent[s] = p => /\ sessions[p] = None \/ p \in kept
                     /\ sessions[s] # None /\ sessions[p] # None
                        => sessions[s].user = sessions[p].user

=============================================================================
