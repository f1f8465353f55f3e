----------------------------- MODULE Conferences -----------------------------
(***************************************************************************)
(* What the four channel maps of VirtualServer promise together, with one    *)
(* table: clients come, open rooms, enter them and leave.  A room lasts from  *)
(* the client that opens it to the last one that leaves; its label (IDENT    *)
(* and password) and its id are its own for ever; and a client gives up its   *)
(* rooms only all at once, by leaving.                                       *)
(***************************************************************************)
CONSTANTS Client, Room, Label

VARIABLES
  present,  \* clients of the server
  rooms,    \* open rooms, with their labels and members
  used      \* ids of all rooms ever opened

roomVars == <<present, rooms, used>>

Init ==
  /\ present = {}
  /\ rooms = [r \in {} |-> {}]
  /\ used = {}

Come(c) ==
  /\ c \notin present
  /\ present' = present \cup {c}
  /\ UNCHANGED <<rooms, used>>

Open(c, r, label) ==
  /\ c \in present
  /\ r \notin used
  /\ used' = used \cup {r}
  /\ rooms' = [x \in DOMAIN rooms \cup {r} |->
                 IF x = r THEN [label |-> label, members |-> {c}] ELSE rooms[x]]
  /\ UNCHANGED present

Enter(c, r) ==
  /\ c \in present
  /\ r \in DOMAIN rooms
  /\ rooms' = [rooms EXCEPT ![r] = [label |-> @.label, members |-> @.members \cup {c}]]
  /\ UNCHANGED <<present, used>>

Without(c) ==
  [r \in {x \in DOMAIN rooms : rooms[x].members \ {c} # {}} |->
     [label |-> rooms[r].label, members |-> rooms[r].members \ {c}]]

Leave(c) ==
  /\ c \in present
  /\ present' = present \ {c}
  /\ rooms' = Without(c)
  /\ UNCHANGED used

Next ==
  \E c \in Client :
    \/ Come(c)
    \/ Leave(c)
    \/ \E r \in Room : Enter(c, r) \/ \E label \in Label : Open(c, r, label)

Spec == Init /\ [][Next]_roomVars
=============================================================================
