---------------------------- MODULE ConferenceView ----------------------------
(***************************************************************************)
(* The conference server composed with the participant list every client     *)
(* shows: NetworkClient and ClientListModel of src/projects/libclient.        *)
(*                                                                           *)
(* What a step of the server hands to a QCorConnection travels on the TCP     *)
(* connection of its client in order and is lost with it.  The client turns   *)
(* the reply to its join and the notifications that follow into the rows of   *)
(* its ClientListModel; nothing else ever corrects them.  The conference       *)
(* window, which opens after the join when its user has closed a dialog, shows  *)
(* a tile for every other participant that streams video.                     *)
(***************************************************************************)
EXTENDS VirtualServer, SequencesExt

CONSTANTS
  Rejoin,       \* TRUE: a client may join while it is already in a conference
  Viewers,      \* the clients whose participant list is modelled
  MaxInbox      \* bound of the messages on their way to one client

ASSUME ViewAssumption ==
  /\ Rejoin \in BOOLEAN
  /\ Viewers \subseteq ClientId
  /\ MaxInbox \in Nat

VARIABLES
  inbox,        \* messages on the TCP connection to a client, oldest first
  view,         \* rows of ClientListModel::clients of a client
  screen,       \* what the client shows: the start-up, its dialog or the window
  tiles         \* keys of TileViewWidgetPrivate::tilesMap of a client

viewVars == <<inbox, view, screen, tiles>>
allVars == <<vars, viewVars>>

-----------------------------------------------------------------------------
(* Rows: the ClientEntity a row holds, reduced to its id and its video flag. *)

Row(p) == [id |-> p, video |-> entity[p].videoEnabled]

RowType == [id : ClientId, video : BOOLEAN]

\* Mutant: the entity of a notification is written before it has its id.
Packet_MutantNoId(m) ==
  [kind |-> m.kind, client |-> [Row(m.about) EXCEPT !.id = NoClient],
   participants |-> {Row(p) : p \in m.roster}]

\* What is written to the socket: the entities as they are after the step.
Packet(m) ==
  [kind |-> m.kind, client |-> Row(m.about),
   participants |-> {Row(p) : p \in m.roster}]

PacketType ==
  [kind : MessageKind, client : RowType, participants : SUBSET RowType]

AddClient(rows, client) == Append(rows, client)

IndexOf(rows, client) ==
  {i \in DOMAIN rows : /\ rows[i].id = client.id
                       /\ \A j \in 1..(i - 1) : rows[j].id # client.id}

\* Mutant: the row of a client is appended instead of replaced.
UpdateClient_MutantAppends(rows, client) == Append(rows, client)

\* updateClient replaces the first row of the client, if there is one.
UpdateClient(rows, client) ==
  [i \in DOMAIN rows |-> IF i \in IndexOf(rows, client) THEN client ELSE rows[i]]

\* removeClient removes the first row of the client, if there is one.
RemoveClient(rows, client) ==
  IF IndexOf(rows, client) = {} THEN rows
  ELSE RemoveAt(rows, CHOOSE i \in IndexOf(rows, client) : TRUE)

\* The reply to the join adds a row for every participant, the client itself
\* included; the model shows them in the order of the reply's array.
OnJoinChannelFinished(rows, members) ==
  rows \o SetToSeq(members)

\* The slots of ClientListModelPrivate, as the signals of NetworkClient call
\* them.  notify.clientleftchannel has no sender: its action is unregistered.
Handle(rows, packet) ==
  CASE packet.kind = "joined" ->
         OnJoinChannelFinished(rows, packet.participants)
    [] packet.kind = "notify.clientjoinedchannel" ->
         AddClient(rows, packet.client)
    [] packet.kind = "notify.clientdisconnected" ->
         RemoveClient(rows, packet.client)
    [] packet.kind \in {"notify.clientvideoenabled",
                        "notify.clientvideodisabled"} ->
         UpdateClient(rows, packet.client)
    [] OTHER -> rows

\* addClient of the tile view, which wants a streaming client without a tile.
AddTile(shown, client) == IF client.video THEN shown \cup {client.id} ELSE shown

RemoveTile(shown, client) == shown \ {client.id}

\* Mutant: the tile of a client that stops its video goes black and stays.
HandleTiles_MutantBlack(c, shown, packet) ==
  CASE packet.kind = "notify.clientjoinedchannel" /\ packet.client.id # c ->
         AddTile(shown, packet.client)
    [] packet.kind = "notify.clientvideoenabled" -> AddTile(shown, packet.client)
    [] packet.kind = "notify.clientdisconnected" -> RemoveTile(shown, packet.client)
    [] OTHER -> shown

\* The slots of the window and of its tile view.
HandleTiles(c, shown, packet) ==
  CASE packet.kind = "notify.clientjoinedchannel" /\ packet.client.id # c ->
         AddTile(shown, packet.client)
    [] packet.kind = "notify.clientvideoenabled" -> AddTile(shown, packet.client)
    [] packet.kind \in {"notify.clientvideodisabled",
                        "notify.clientdisconnected"} ->
         RemoveTile(shown, packet.client)
    [] OTHER -> shown

\* The tiles of the other streaming participants in the rows.
TilesOf(c, rows) == {row.id : row \in {r \in ToSet(rows) : r.video /\ r.id # c}}

-----------------------------------------------------------------------------
ViewInit ==
  /\ Init
  /\ inbox = [c \in Viewers |-> <<>>]
  /\ view = [c \in Viewers |-> <<>>]
  /\ screen = [c \in Viewers |-> "startup"]
  /\ tiles = [c \in Viewers |-> {}]

\* The messages of a step to one client, as they are queued: the server hands
\* at most one to each.
Delivered(c) ==
  SetToSeq({Packet(m)' : m \in {x \in sent' : x.to = c}})

\* A step of the server, followed by TCP: what it sent is appended to the
\* connections of the clients, and a closed connection loses what it carried.
ServerStep ==
  /\ Next
  /\ inbox' = [c \in Viewers |->
                 IF c \in Connected' THEN inbox[c] \o Delivered(c) ELSE <<>>]
  /\ \A c \in Viewers : Len(inbox'[c]) <= MaxInbox
  /\ Rejoin \/ \A m \in sent' : m.kind = "joined" => client2channels[m.to] = {}
  /\ UNCHANGED <<view, screen, tiles>>

\* The client reads the next message of its connection.  The dialog that follows
\* the join runs inside this very call: while it is open nothing else is read.
Receive(c) ==
  /\ screen[c] # "dialog"
  /\ inbox[c] # <<>>
  /\ view' = [view EXCEPT ![c] = Handle(@, Head(inbox[c]))]
  /\ screen' = [screen EXCEPT ![c] =
                  IF Head(inbox[c]).kind = "joined" /\ @ = "startup" THEN "dialog" ELSE @]
  /\ tiles' = [tiles EXCEPT ![c] =
                 IF screen[c] = "window" THEN HandleTiles(c, @, Head(inbox[c])) ELSE @]
  /\ inbox' = [inbox EXCEPT ![c] = Tail(@)]
  /\ UNCHANGED vars

\* The dialog is closed and the window opens with the tiles of its model's rows.
OpenWindow(c) ==
  /\ screen[c] = "dialog"
  /\ screen' = [screen EXCEPT ![c] = "window"]
  /\ tiles' = [tiles EXCEPT ![c] = TilesOf(c, view[c])]
  /\ UNCHANGED <<vars, inbox, view>>

ViewNext == ServerStep \/ \E c \in Viewers : Receive(c) \/ OpenWindow(c)

ViewSpec == ViewInit /\ [][ViewNext]_allVars

-----------------------------------------------------------------------------
(* Properties *)

\* Inboxes and rows hold values of their types.
ViewTypeOK ==
  /\ inbox \in [Viewers -> Seq(PacketType)]
  /\ view \in [Viewers -> Seq(RowType)]
  /\ screen \in [Viewers -> {"startup", "dialog", "window"}]
  /\ tiles \in [Viewers -> SUBSET ClientId]

\* The rows after reading the first n messages that are on their way.
Reading(c) ==
  LET rows[n \in 0..Len(inbox[c])] ==
        IF n = 0 THEN view[c] ELSE Handle(rows[n - 1], inbox[c][n])
  IN  rows

\* The rows once the client has read what is on its way.
Settled(c) == Reading(c)[Len(inbox[c])]

RowsOf(c, p) == {i \in DOMAIN Settled(c) : Settled(c)[i].id = p}

\* The clients c shares a conference with and may see, that are connected.
Present(c) == (VisibleSiblingClientIds(c) \cap Connected) \ {c}

\* The list a client shows, plus what is on its way to it, has exactly one row
\* for every connected sibling, with its current video state: the snapshot in
\* the join reply and the stream of notifications never miss or double an
\* event, whatever the order of joins, disconnects and video switches.
ViewComplete ==
  \A c \in Viewers \cap Connected : \A p \in Present(c) :
    \E i \in 1..Len(Settled(c)) :
      /\ RowsOf(c, p) = {i}
      /\ Settled(c)[i] = Row(p)

\* The tiles of an open window are those of the streaming participants in the
\* list: the window is fed by other slots than the list, and starts later.
TilesMatchRows ==
  \A c \in Viewers : screen[c] = "window" => tiles[c] = TilesOf(c, view[c])

=============================================================================
