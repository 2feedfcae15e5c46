--------------------------- MODULE ConnectionSlots ---------------------------
(***************************************************************************)
(* What the signaling hub promises about connections, without goroutines,  *)
(* locks or messages: one slot per agent, which a new connection takes     *)
(* over in one step from the connection it replaces.  SignalingHub         *)
(* implements it.                                                          *)
(***************************************************************************)
CONSTANTS Agent, Conn, None

VARIABLES
  holder,  \* the connection in an agent's slot, or None
  open,    \* connections that took a slot and are not closed
  spent    \* connections that took a slot or were refused

svars == <<holder, open, spent>>

SlotInit ==
  /\ holder = [a \in Agent |-> None]
  /\ open = {}
  /\ spent = {}

(* A connection takes a slot at most once.  Its predecessor is closed in   *)
(* the same step; its own client may already have hung up.                 *)
Take(a, c) ==
  /\ c \notin spent
  /\ holder' = [holder EXCEPT ![a] = c]
  /\ open' \in {open \ {holder[a]}, (open \ {holder[a]}) \cup {c}}
  /\ spent' = spent \cup {c}

(* The limit, the upgrade or the authentication refused the connection.    *)
Refuse(c) ==
  /\ spent' = spent \cup {c}
  /\ UNCHANGED <<holder, open>>

Close(c) ==
  /\ open' = open \ {c}
  /\ UNCHANGED <<holder, spent>>

(* A slot is emptied only when its connection is closed.                   *)
Vacate(a) ==
  /\ holder[a] \notin open
  /\ holder' = [holder EXCEPT ![a] = None]
  /\ UNCHANGED <<open, spent>>

Shutdown ==
  /\ holder' = [a \in Agent |-> None]
  /\ open' = {}
  /\ UNCHANGED spent

SlotNext ==
  \/ \E a \in Agent, c \in Conn : Take(a, c)
  \/ \E c \in Conn : Refuse(c) \/ Close(c)
  \/ \E a \in Agent : Vacate(a)
  \/ Shutdown

SlotSpec == SlotInit /\ [][SlotNext]_svars
=============================================================================
