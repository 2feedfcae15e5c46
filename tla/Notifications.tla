------------------------------ MODULE Notifications -----------------------------
(***************************************************************************)
(* Notifications of a dashboard's user: rows in a table, and a hub that    *)
(* keeps one WebSocket for each user.  A new socket of a user closes the   *)
(* one before it; the old socket's goroutine notices later and removes     *)
(* "its" connection then.  A notification is stored first and pushed next, *)
(* to the socket that was looked up under the lock and is written to       *)
(* outside it.                                                             *)
(***************************************************************************)
EXTENDS Platform

CONSTANTS
  Socket,  \* WebSocket connections
  Note     \* notification ids

VARIABLES
  sockets,  \* a socket: [user, at, open]
  conns,    \* conns: a user's registered socket, or None
  notes,    \* notifications table: [user, read], or None
  notifying,  \* a Notify under way: [note, at, socket]
  shown     \* notes written to an open socket

noteVars == <<sockets, conns, notes, notifying, shown>>

NoSocket == [user |-> None, at |-> "none", open |-> FALSE]
NotNotifying == [note |-> None, at |-> "idle", socket |-> None]

NoteInit ==
  /\ sockets = [s \in Socket |-> NoSocket]
  /\ conns = [u \in User |-> None]
  /\ notes = [n \in Note |-> None]
  /\ notifying = [h \in Handler |-> NotNotifying]
  /\ shown = {}

(* handleNotificationWS: the upgrade, then AddConn.                         *)
AcceptSocket(s, u) ==
  /\ sockets[s] = NoSocket
  /\ sockets' = [sockets EXCEPT ![s] = [user |-> u, at |-> "accepted", open |-> TRUE]]
  /\ UNCHANGED <<conns, notes, notifying, shown>>

AddConn(s) ==
  LET u == sockets[s].user IN
  /\ sockets[s].at = "accepted"
  /\ sockets' = [t \in Socket |->
       IF t = s THEN [sockets[s] EXCEPT !.at = "reading"]
       ELSE IF t = conns[u] THEN [sockets[t] EXCEPT !.open = FALSE]
       ELSE sockets[t]]
  /\ conns' = [conns EXCEPT ![u] = s]
  /\ UNCHANGED <<notes, notifying, shown>>

(* The peer goes, or the connection breaks.                                 *)
SocketCloses(s) ==
  /\ sockets[s].open
  /\ sockets' = [sockets EXCEPT ![s].open = FALSE]
  /\ UNCHANGED <<conns, notes, notifying, shown>>

(* The read loop ends on the error.                                         *)
ReadFails(s) ==
  /\ sockets[s].at = "reading" /\ ~sockets[s].open
  /\ sockets' = [sockets EXCEPT ![s].at = "leaving"]
  /\ UNCHANGED <<conns, notes, notifying, shown>>

(* Variant: the user's connection is removed, whichever it is.              *)
RemoveAnyConn(s) ==
  LET u == sockets[s].user IN
  /\ sockets[s].at = "leaving"
  /\ conns' = [conns EXCEPT ![u] = None]
  /\ sockets' = [sockets EXCEPT ![s].at = "gone"]
  /\ UNCHANGED <<notes, notifying, shown>>

RemoveConn(s) ==
  LET u == sockets[s].user IN
  /\ sockets[s].at = "leaving"
  /\ conns' = [conns EXCEPT ![u] = IF conns[u] = s THEN None ELSE conns[u]]
  /\ sockets' = [sockets EXCEPT ![s].at = "gone"]
  /\ UNCHANGED <<notes, notifying, shown>>

(* Notify: the row; then the emitter looks the socket up and writes to it.  *)
CreateNote(h, n, u) ==
  /\ notifying[h] = NotNotifying
  /\ notes[n] = None /\ \A g \in Handler : notifying[g].note # n
  /\ notes' = [notes EXCEPT ![n] = [user |-> u, read |-> FALSE]]
  /\ notifying' = [notifying EXCEPT ![h] = [note |-> n, at |-> "look up", socket |-> None]]
  /\ UNCHANGED <<sockets, conns, shown>>

LookUpConn(h) ==
  LET n == notifying[h].note IN
  /\ notifying[h].at = "look up"
  /\ notifying' = [notifying EXCEPT ![h].at = "push", ![h].socket = conns[notes[n].user]]
  /\ UNCHANGED <<sockets, conns, notes, shown>>

WriteNote(h) ==
  /\ notifying[h].at = "push"
  /\ LET s == notifying[h].socket IN
     shown' = IF s # None /\ sockets[s].open THEN shown \cup {notifying[h].note} ELSE shown
  /\ notifying' = [notifying EXCEPT ![h] = NotNotifying]
  /\ UNCHANGED <<sockets, conns, notes>>

(* The statements name the user: another user's id changes nothing.         *)
MarkNoteRead(n, u) ==
  /\ notes[n] = [user |-> u, read |-> FALSE]
  /\ notes' = [notes EXCEPT ![n] = [user |-> u, read |-> TRUE]]
  /\ UNCHANGED <<sockets, conns, notifying, shown>>

MarkAllRead(u) ==
  /\ \E n \in Note : notes[n] = [user |-> u, read |-> FALSE]
  /\ notes' = [n \in Note |->
       IF notes[n] = [user |-> u, read |-> FALSE] THEN [user |-> u, read |-> TRUE]
       ELSE notes[n]]
  /\ UNCHANGED <<sockets, conns, notifying, shown>>

(* The retention pass, any row once it is old enough, read or not.          *)
PruneNote(n) ==
  /\ notes[n] # None /\ \A h \in Handler : notifying[h].note # n
  /\ notes' = [notes EXCEPT ![n] = None]
  /\ shown' = shown \ {n}
  /\ UNCHANGED <<sockets, conns, notifying>>

handleNotificationWS(s) ==
  (\E u \in User : AcceptSocket(s, u)) \/ AddConn(s) \/ ReadFails(s) \/ RemoveConn(s)

Notify(h) ==
  (\E n \in Note, u \in User : CreateNote(h, n, u)) \/ LookUpConn(h) \/ WriteNote(h)

NoteNext ==
  /\ UNCHANGED faults
  /\ \/ \E s \in Socket : handleNotificationWS(s) \/ SocketCloses(s)
     \/ \E h \in Handler : Notify(h)
     \/ \E u \in User : MarkAllRead(u) \/ (\E n \in Note : MarkNoteRead(n, u))
     \/ \E n \in Note : PruneNote(n)

NoteSpec == NoteInit /\ faults = 0 /\ [][NoteNext]_<<noteVars, faults>>

-----------------------------------------------------------------------------
(* Types.                                                                   *)
NoteTypeOK ==
  /\ sockets \in [Socket -> [user : User \cup {None}, open : BOOLEAN,
                             at : {"none", "accepted", "reading", "leaving", "gone"}]]
  /\ conns \in [User -> Socket \cup {None}]
  /\ \A n \in Note : notes[n] # None => notes[n] \in [user : User, read : BOOLEAN]
  /\ notifying \in [Handler -> [note : Note \cup {None}, at : {"idle", "look up", "push"},
                                socket : Socket \cup {None}]]
  /\ shown \subseteq Note

(* A dashboard that is connected and was not replaced is the one that       *)
(* notifications go to: the goroutine of the socket it replaced does not    *)
(* take it off the hub when it notices (ws.go:33-50).                       *)
OpenSocketIsRegistered ==
  \A s \in Socket :
    sockets[s].at = "reading" /\ sockets[s].open => conns[sockets[s].user] = s

=============================================================================
