-------------------------------- MODULE Grants --------------------------------
(***************************************************************************)
(* What the transports of one account promise their callers: a permission  *)
(* is handed out while the vault is open, every request checks it at the   *)
(* moment it leaves, and a lock, a change of route or of policy withdraws  *)
(* all of them at once and takes what is in the air with them.             *)
(***************************************************************************)
EXTENDS Naturals

CONSTANTS
  Callers,  \* the operations that may hold a transport
  None      \* no permission

VARIABLES
  open,     \* the vault is unlocked
  current,  \* the permission now in force
  held,     \* the permission each caller was given, or None
  flying    \* the callers whose request is on the wire

vars == <<open, current, held, flying>>

Holds(c) == held[c] = current

Ask(c) ==
  /\ open /\ held' = [held EXCEPT ![c] = current]
  /\ UNCHANGED <<open, current, flying>>

Leaves(c) ==
  /\ Holds(c) /\ flying' = flying \cup {c}
  /\ UNCHANGED <<open, current, held>>

Settles(c) ==
  /\ flying' = flying \ {c}
  /\ UNCHANGED <<open, current, held>>

GivesUp(c) ==
  /\ held' = [held EXCEPT ![c] = None] /\ flying' = flying \ {c}
  /\ UNCHANGED <<open, current>>

(* Some operations end with it, others find out when they next ask.        *)
Withdraw ==
  /\ current' > current /\ flying' = {} /\ open' \in BOOLEAN
  /\ \A c \in Callers : held'[c] \in {held[c], None}

Reopen == open' = TRUE /\ UNCHANGED <<current, held, flying>>

Init ==
  /\ open \in BOOLEAN /\ current = 0
  /\ held = [c \in Callers |-> None] /\ flying = {}

Next ==
  \/ Withdraw \/ Reopen
  \/ \E c \in Callers : Ask(c) \/ Leaves(c) \/ Settles(c) \/ GivesUp(c)

Spec == Init /\ [][Next]_vars
=============================================================================
