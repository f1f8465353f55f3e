------------------------- MODULE ConferenceViewProofs -------------------------
(***************************************************************************)
(* What a client shows of a conference: types, the participant list plus   *)
(* what is on its way to it, and the tiles of the window, for any number of *)
(* clients and any interleaving.                                           *)
(*                                                                         *)
(* What the list will show once the inbox is read is a recursive function, *)
(* and the prover has no induction for it.  The invariant RowsInv therefore *)
(* says that SOME reading of the inbox exists whose rows fit the server;   *)
(* a step of the server extends the reading by one packet at most, a read   *)
(* drops its first element, and readings are unique (SettledIs, by the      *)
(* first index at which two of them could differ).                         *)
(*                                                                         *)
(* The order: what a step of the server means for one connected client     *)
(* (EffectStep: nothing, it enters, or it meets, loses or sees another);    *)
(* that its rows follow (RowsStep); readings; the inductive invariant       *)
(* ViewInv; the theorems.                                                  *)
(***************************************************************************)
EXTENDS ConferenceView, VirtualServerProofs, SequenceTheorems, WellFoundedInduction

(* Rows *)

\* SetToSeq lists every element of a finite set exactly once.
LEMMA SetToSeqLists ==
  ASSUME NEW S, IsFiniteSet(S)
  PROVE  /\ SetToSeq(S) \in Seq(S)
         /\ \A x \in S : \E i \in DOMAIN SetToSeq(S) : SetToSeq(S)[i] = x
         /\ \A i, j \in DOMAIN SetToSeq(S) :
              SetToSeq(S)[i] = SetToSeq(S)[j] => i = j
<1> DEFINE n == Cardinality(S)
           f == SetToSeq(S)
<1>1. n \in Nat /\ ExistsBijection(1..n, S)
  BY FS_CardinalityType
<1>2. PICK b : b \in Bijection(1..n, S)
  BY <1>1 DEF ExistsBijection
<1>3. b \in [1..n -> S] /\ IsInjective(b)
  BY <1>2 DEF Bijection, Injection, IsInjective
<1>4. f \in [1..n -> S] /\ IsInjective(f)
  BY <1>3 DEF SetToSeq
<1> HIDE DEF f
<1>5. f \in Injection(1..n, S)
  BY <1>4 DEF Injection, IsInjective
<1>6. IsFiniteSet(1..n) /\ Cardinality(1..n) = n
  BY <1>1, FS_Interval
<1>7. f \in Surjection(1..n, S)
  BY <1>5, <1>6, FS_Injection
<1>8. f \in Seq(S)
  BY <1>1, <1>4, SeqDef
<1>9. \A x \in S : \E i \in 1..n : f[i] = x
  BY <1>7 DEF Surjection
<1>10. DOMAIN f = 1..n
  BY <1>4
<1>11. \A i, j \in DOMAIN f : f[i] = f[j] => i = j
  BY <1>4, <1>10 DEF IsInjective
<1> QED
  BY <1>8, <1>9, <1>10, <1>11 DEF f

\* The empty set and a singleton.
LEMMA SetToSeqSmall ==
  /\ SetToSeq({}) = <<>>
  /\ \A x : SetToSeq({x}) = <<x>>
<1>1. SetToSeq({}) = <<>>
  <2>1. IsFiniteSet({})
    BY FS_EmptySet
  <2>2. SetToSeq({}) \in Seq({})
    BY <2>1, SetToSeqLists
  <2> DEFINE f == SetToSeq({})
  <2> HIDE DEF f
  <2>3. Len(f) \in Nat /\ f \in [1..Len(f) -> {}]
    BY <2>2, LenProperties DEF f
  <2>4. Len(f) = 0
    <3> SUFFICES ASSUME Len(f) # 0 PROVE FALSE
      OBVIOUS
    <3>1. 1 \in 1..Len(f)
      BY <2>3
    <3> QED
      BY <2>3, <3>1
  <2> QED
    BY <2>2, <2>4, SeqEqual, EmptySeq DEF f
<1>2. ASSUME NEW x PROVE SetToSeq({x}) = <<x>>
  <2> DEFINE f == SetToSeq({x})
  <2>1. IsFiniteSet({x})
    BY FS_Singleton
  <2>2. /\ f \in Seq({x})
        /\ \E i \in DOMAIN f : f[i] = x
        /\ \A i, j \in DOMAIN f : f[i] = f[j] => i = j
    BY <2>1, SetToSeqLists
  <2> HIDE DEF f
  <2>3. Len(f) \in Nat /\ f \in [1..Len(f) -> {x}] /\ DOMAIN f = 1..Len(f)
    BY <2>2, LenProperties
  <2>4. \A i, j \in 1..Len(f) : i = j
    BY <2>2, <2>3
  <2>5. Len(f) = 1
    <3>1. Len(f) >= 1
      BY <2>2, <2>3
    <3>2. 1 \in 1..Len(f) /\ Len(f) \in 1..Len(f)
      BY <2>3, <3>1
    <3> QED
      BY <2>4, <3>2
  <2>6. f[1] = x
    BY <2>3, <2>5
  <2> QED
    BY <2>2, <2>5, <2>6 DEF f
<1> QED
  BY <1>1, <1>2

\* Rows about another client are about different clients.
Single(c, rows) ==
  \A i, j \in DOMAIN rows :
    rows[i].id = rows[j].id /\ rows[i].id # c => i = j

\* With at most one row of a client, that is the one IndexOf finds.
LEMMA IndexOfOther ==
  ASSUME NEW c, NEW rows \in Seq(RowType), Single(c, rows),
         NEW client \in RowType, client.id # c
  PROVE  IndexOf(rows, client) = {i \in DOMAIN rows : rows[i].id = client.id}
<1>1. DOMAIN rows = 1..Len(rows) /\ Len(rows) \in Nat
  BY LenProperties
<1>2. ASSUME NEW i \in DOMAIN rows, rows[i].id = client.id,
             NEW j \in 1..(i - 1)
      PROVE  rows[j].id # client.id
  <2>1. j \in DOMAIN rows /\ j # i
    BY <1>1
  <2> QED
    BY <1>2, <2>1 DEF Single
<1> QED
  BY <1>2 DEF IndexOf

LEMMA UpdateRows ==
  ASSUME NEW c, NEW rows \in Seq(RowType), Single(c, rows),
         NEW client \in RowType, client.id # c
  PROVE  /\ DOMAIN UpdateClient(rows, client) = DOMAIN rows
         /\ \A i \in DOMAIN rows :
              UpdateClient(rows, client)[i] =
                IF rows[i].id = client.id THEN client ELSE rows[i]
BY IndexOfOther DEF UpdateClient

\* What is left of the rows without row k.
LEMMA RemoveAtRows ==
  ASSUME NEW S, NEW rows \in Seq(S), NEW k \in DOMAIN rows
  PROVE  /\ RemoveAt(rows, k) \in Seq(S)
         /\ DOMAIN RemoveAt(rows, k) = 1..(Len(rows) - 1)
         /\ \A i \in 1..(Len(rows) - 1) :
              RemoveAt(rows, k)[i] = IF i < k THEN rows[i] ELSE rows[i + 1]
<1> DEFINE n == Len(rows)
           front == SubSeq(rows, 1, k - 1)
           back == SubSeq(rows, k + 1, n)
<1>1. n \in Nat /\ DOMAIN rows = 1..n /\ \A i \in 1..n : rows[i] \in S
  BY LenProperties
<1>2. k \in 1..n
  BY <1>1
<1>3. /\ front \in Seq(S)
      /\ Len(front) = IF 1 <= k - 1 THEN (k - 1) - 1 + 1 ELSE 0
      /\ \A i \in 1..((k - 1) - 1 + 1) : front[i] = rows[1 + i - 1]
  BY <1>1, <1>2, SubSeqProperties
<1>4. /\ back \in Seq(S)
      /\ Len(back) = IF k + 1 <= n THEN n - (k + 1) + 1 ELSE 0
      /\ \A i \in 1..(n - (k + 1) + 1) : back[i] = rows[(k + 1) + i - 1]
  BY <1>1, <1>2, SubSeqProperties
<1> HIDE DEF front, back
<1>5. Len(front) = k - 1 /\ \A i \in 1..(k - 1) : front[i] = rows[i]
  BY <1>1, <1>2, <1>3
<1>6. Len(back) = n - k /\ \A i \in 1..(n - k) : back[i] = rows[k + i]
  <2>1. Len(back) = n - k
    BY <1>1, <1>2, <1>4
  <2>2. ASSUME NEW i \in 1..(n - k) PROVE back[i] = rows[k + i]
    <3>1. i \in 1..(n - (k + 1) + 1) /\ (k + 1) + i - 1 = k + i
      BY <1>1, <1>2
    <3>2. back[i] = rows[(k + 1) + i - 1]
      BY <1>4, <3>1
    <3> QED
      BY <3>1, <3>2
  <2> QED
    BY <2>1, <2>2
<1>7. /\ front \o back \in Seq(S)
      /\ Len(front \o back) = (k - 1) + (n - k)
      /\ \A i \in 1..((k - 1) + (n - k)) :
           (front \o back)[i] =
             IF i <= k - 1 THEN front[i] ELSE back[i - (k - 1)]
  <2>1. /\ front \o back \in Seq(S)
        /\ Len(front \o back) = Len(front) + Len(back)
        /\ \A i \in 1..(Len(front) + Len(back)) :
             (front \o back)[i] =
               IF i <= Len(front) THEN front[i] ELSE back[i - Len(front)]
    BY <1>3, <1>4, ConcatProperties
  <2>2. Len(front) = k - 1 /\ Len(back) = n - k
    BY <1>5, <1>6
  <2> QED
    BY <2>1, <2>2
<1>8. RemoveAt(rows, k) = front \o back
  BY DEF RemoveAt, front, back
<1> DEFINE rest == front \o back
<1>9. rest \in Seq(S) /\ Len(rest) = n - 1 /\ DOMAIN rest = 1..(n - 1)
  <2>1. rest \in Seq(S) /\ Len(rest) = (k - 1) + (n - k)
    BY <1>7
  <2> HIDE DEF rest
  <2>2. Len(rest) = n - 1
    BY <1>1, <1>2, <2>1
  <2> QED
    BY <2>1, <2>2, LenProperties
<1>10. ASSUME NEW i \in 1..(n - 1)
       PROVE  rest[i] = IF i < k THEN rows[i] ELSE rows[i + 1]
  <2>1. i \in 1..((k - 1) + (n - k))
    BY <1>1, <1>2
  <2>2. rest[i] = IF i <= k - 1 THEN front[i] ELSE back[i - (k - 1)]
    BY <1>7, <2>1
  <2> HIDE DEF rest
  <2>3. CASE i < k
    BY <1>1, <1>2, <1>5, <2>2, <2>3
  <2>4. CASE i >= k
    <3>1. i - (k - 1) \in 1..(n - k) /\ ~(i <= k - 1) /\ k + (i - (k - 1)) = i + 1
      BY <1>1, <1>2, <2>4
    <3>2. back[i - (k - 1)] = rows[k + (i - (k - 1))]
      BY <1>6, <3>1
    <3> QED
      BY <1>1, <1>2, <2>2, <2>4, <3>1, <3>2
  <2> QED
    BY <1>1, <1>2, <2>3, <2>4
<1> QED
  BY <1>8, <1>9, <1>10

\* Removing a client removes its row and keeps the other rows.
LEMMA RemoveRows ==
  ASSUME NEW c, NEW rows \in Seq(RowType), Single(c, rows),
         NEW client \in RowType, client.id # c
  PROVE  LET rest == RemoveClient(rows, client)
         IN  /\ \A i \in DOMAIN rest :
                  \E j \in DOMAIN rows :
                    rest[i] = rows[j] /\ rows[j].id # client.id
             /\ \A j \in DOMAIN rows : rows[j].id # client.id =>
                  \E i \in DOMAIN rest : rest[i] = rows[j]
             /\ Single(c, rest)
<1> DEFINE rest == RemoveClient(rows, client)
           found == IndexOf(rows, client)
<1>1. found = {i \in DOMAIN rows : rows[i].id = client.id}
  BY IndexOfOther
<1> HIDE DEF found
<1>2. CASE found = {}
  <2>1. rest = rows
    BY <1>2 DEF RemoveClient, found
  <2> QED
    BY <1>1, <1>2, <2>1
<1>3. CASE found # {}
  <2> DEFINE k == CHOOSE i \in found : TRUE
             n == Len(rows)
  <2>1. k \in DOMAIN rows /\ rows[k].id = client.id
    BY <1>1, <1>3
  <2>2. rest = RemoveAt(rows, k)
    BY <1>3 DEF RemoveClient, found
  <2> HIDE DEF k, rest
  <2>3. n \in Nat /\ DOMAIN rows = 1..n
    BY LenProperties
  <2>4. /\ DOMAIN rest = 1..(n - 1)
        /\ \A i \in 1..(n - 1) :
             rest[i] = IF i < k THEN rows[i] ELSE rows[i + 1]
    BY <2>1, <2>2, RemoveAtRows
  <2> DEFINE from(i) == IF i < k THEN i ELSE i + 1
  <2>5. ASSUME NEW i \in DOMAIN rest
        PROVE  from(i) \in DOMAIN rows /\ from(i) # k /\ rest[i] = rows[from(i)]
    BY <2>1, <2>3, <2>4
  <2>6. \A i, j \in DOMAIN rest : from(i) = from(j) => i = j
    BY <2>1, <2>3, <2>4
  <2>7. ASSUME NEW j \in DOMAIN rows, j # k
        PROVE  \E i \in DOMAIN rest : rest[i] = rows[j]
    <3>1. CASE j < k
      <4>1. j \in DOMAIN rest /\ rest[j] = rows[j]
        BY <2>1, <2>3, <2>4, <3>1
      <4> QED
        BY <4>1
    <3>2. CASE j > k
      <4>1. j - 1 \in DOMAIN rest /\ rest[j - 1] = rows[j]
        BY <2>1, <2>3, <2>4, <3>2
      <4> QED
        BY <4>1
    <3> QED
      BY <2>1, <2>3, <2>7, <3>1, <3>2
  <2> HIDE DEF from
  <2>8. \A j \in DOMAIN rows : rows[j].id = client.id => j = k
    BY <2>1 DEF Single
  <2>9. Single(c, rest)
    BY <2>5, <2>6 DEF Single
  <2> QED
    BY <2>1, <2>5, <2>7, <2>8, <2>9 DEF rest
<1> QED
  BY <1>2, <1>3

(* Types *)

LEMMA RowTypeFinite == IsFiniteSet(RowType)
<1> DEFINE pairs == ClientId \X BOOLEAN
           f == [x \in pairs |-> [id |-> x[1], video |-> x[2]]]
<1>1. IsFiniteSet(ClientId) /\ IsFiniteSet(BOOLEAN)
  <2>1. BOOLEAN = {TRUE} \cup {FALSE}
    OBVIOUS
  <2>2. IsFiniteSet({TRUE}) /\ IsFiniteSet({FALSE})
    BY FS_Singleton
  <2>3. IsFiniteSet(BOOLEAN)
    BY <2>1, <2>2, FS_Union
  <2>4. IsFiniteSet(1..MaxClientId)
    BY FS_Interval, BoundsAssumption
  <2> QED
    BY <2>3, <2>4 DEF ClientId
<1>2. IsFiniteSet(pairs)
  BY <1>1, FS_Product
<1>3. f \in [pairs -> RowType]
  BY DEF RowType
<1>4. ASSUME NEW r \in RowType
      PROVE  \E x \in pairs : f[x] = r
  <2>1. <<r.id, r.video>> \in pairs /\ f[<<r.id, r.video>>] = r
    BY DEF RowType
  <2> QED
    BY <2>1
<1> HIDE DEF f, pairs
<1>5. f \in Surjection(pairs, RowType)
  BY <1>3, <1>4 DEF Surjection
<1> QED
  BY <1>2, <1>5, FS_Surjection

LEMMA MembersType ==
  ASSUME NEW members \in SUBSET RowType
  PROVE  /\ SetToSeq(members) \in Seq(RowType)
         /\ \A r \in members :
              \E i \in DOMAIN SetToSeq(members) : SetToSeq(members)[i] = r
         /\ \A i, j \in DOMAIN SetToSeq(members) :
              SetToSeq(members)[i] = SetToSeq(members)[j] => i = j
         /\ \A i \in DOMAIN SetToSeq(members) : SetToSeq(members)[i] \in members
<1>1. IsFiniteSet(members)
  BY RowTypeFinite, FS_Subset
<1>2. SetToSeq(members) \in Seq(members)
  BY <1>1, SetToSeqLists
<1> DEFINE f == SetToSeq(members)
<1> HIDE DEF f
<1>3. \A i \in DOMAIN f : f[i] \in members
  BY <1>2, LenProperties DEF f
<1>4. f \in Seq(RowType)
  BY <1>2, SeqMonotonic DEF f
<1> QED
  BY <1>1, <1>3, <1>4, SetToSeqLists DEF f

LEMMA HandleType ==
  ASSUME NEW rows \in Seq(RowType), NEW packet \in PacketType
  PROVE  Handle(rows, packet) \in Seq(RowType)
<1> DEFINE result == Handle(rows, packet)
<1>1. packet.client \in RowType /\ packet.participants \in SUBSET RowType
  BY DEF PacketType
<1>2. OnJoinChannelFinished(rows, packet.participants) \in Seq(RowType)
  BY <1>1, MembersType, ConcatProperties DEF OnJoinChannelFinished
<1>3. AddClient(rows, packet.client) \in Seq(RowType)
  BY <1>1, AppendProperties DEF AddClient
<1>4. RemoveClient(rows, packet.client) \in Seq(RowType)
  <2>1. IndexOf(rows, packet.client) \subseteq DOMAIN rows
    BY DEF IndexOf
  <2> DEFINE k == CHOOSE i \in IndexOf(rows, packet.client) : TRUE
  <2>2. IndexOf(rows, packet.client) # {} => k \in DOMAIN rows
    BY <2>1
  <2> HIDE DEF k
  <2>3. IndexOf(rows, packet.client) # {} => RemoveAt(rows, k) \in Seq(RowType)
    BY <2>2, RemoveAtRows
  <2> QED
    BY <2>3 DEF RemoveClient, k
<1>5. UpdateClient(rows, packet.client) \in Seq(RowType)
  <2> DEFINE n == Len(rows)
             u == UpdateClient(rows, packet.client)
  <2>1. n \in Nat /\ rows \in [1..n -> RowType] /\ DOMAIN rows = 1..n
    BY LenProperties
  <2>2. u \in [1..n -> RowType]
    BY <1>1, <2>1 DEF UpdateClient
  <2> HIDE DEF u
  <2> QED
    BY <2>1, <2>2, SeqDef DEF u
<1> QED
  BY <1>2, <1>3, <1>4, <1>5 DEF Handle

\* A step of the server hands at most one message to each client.
LEMMA OneEach ==
  ASSUME Next
  PROVE  \A m, n \in sent' : m.to = n.to => m = n
<1> DEFINE Once(messages) == \A m, n \in messages : m.to = n.to => m = n
           Done == Once(sent')
<1>1. ASSUME sent' = {} PROVE Done
  BY <1>1
<1>2. ASSUME NEW kind, NEW c, NEW ids, NEW messages,
             messages = Deliver({Message(kind, p, c) : p \in ids})
      PROVE  Once(messages) /\ \A m \in messages : m.to \in ids
  BY <1>2 DEF Deliver, Message
<1>3. ASSUME NEW kind, NEW to, NEW c, sent' = Deliver({Message(kind, to, c)})
      PROVE  Done
  BY <1>3 DEF Deliver, Message
<1>4. ASSUME NEW c, SocketUnconnected(c)
      PROVE  Done
  BY <1>4 DEF SocketUnconnected, Deliver, Message
<1>5. ASSUME NEW c, NEW kind
      PROVE  /\ Once(BroadcastNotificationToSiblingClients(c, kind))
             /\ Once(BroadcastNotificationToSiblingClients(c, kind)')
             /\ \A m \in BroadcastNotificationToSiblingClients(c, kind)' : m.to # c
  BY DEF BroadcastNotificationToSiblingClients, Deliver, Message
<1>6. ASSUME NEW c, NEW e, NEW kind, SetMedia(c, e, kind)
      PROVE  Done
  BY <1>5, <1>6 DEF SetMedia
<1>7. ASSUME NEW c, NEW t, NEW pw, JoinChannel(c, t[1], t[2], pw)
      PROVE  Done
  <2>1. ASSUME NEW id, NEW m \in JoinMessages(c, id), NEW n \in JoinMessages(c, id),
               m.to = n.to
        PROVE  m = n
    <3> DEFINE all == BroadcastNotificationToSiblingClients(c, "notify.clientjoinedchannel")'
               reply == [kind |-> "joined", to |-> c, about |-> c,
                         roster |-> {p \in participants'[id] :
                                       p \in sessions /\ IsAllowedToSee(c, p)}]
    <3>1. /\ m \in all \/ m = reply
          /\ n \in all \/ n = reply
      BY <2>1 DEF JoinMessages, Deliver
    <3>2. Once(all) /\ \A x \in all : x.to # c
      BY <1>5
    <3> HIDE DEF all
    <3>3. reply.to = c
      OBVIOUS
    <3> HIDE DEF reply
    <3> QED
      BY <2>1, <3>1, <3>2, <3>3
  <2>2. \E id : sent' = JoinMessages(c, id)
    BY <1>7 DEF JoinChannel
  <2> QED BY <2>1, <2>2
<1>8. ASSUME NEW c, NEW id, NEW ban, KickClient(c, id, ban)
      PROVE  Done
  BY <1>1, <1>3, <1>8 DEF KickClient
<1> HIDE DEF Done
<1>9. ASSUME NEW c \in ClientId,
             \/ DeleteHandler(c)
             \/ \E b \in BOOLEAN : Authentication(c, b)
             \/ AuthenticationRefused(c) \/ Goodbye(c) \/ AdminAuth(c)
             \/ \E pw \in Passwords \cup {NoPassword} : CreateChannel(c, pw)
             \/ \E level \in VisibilityLevels : UpdateVisibilityLevel(c, level)
             \/ \E s, r \in ClientId :
                  \/ AddDirectStreamingRelation(c, s, r)
                  \/ RemoveDirectStreamingRelation(c, s, r)
      PROVE  Done
  BY <1>1, <1>9 DEF DeleteHandler, Authentication, AuthenticationRefused, Goodbye,
     AdminAuth, CreateChannel, UpdateVisibilityLevel, AddDirectStreamingRelation,
     RemoveDirectStreamingRelation
<1>10. ASSUME NEW c \in ClientId,
              \/ PeerDisconnects(c) \/ DisconnectFromHost(c) \/ Timeout(c)
              \/ \E second \in Seconds : AuthenticationGranted(c, second)
       PROVE  Done
  BY <1>1, <1>3, <1>4, <1>10 DEF PeerDisconnects, DisconnectFromHost, Timeout,
     AuthenticationGranted
<1>11. ASSUME NEW c \in ClientId,
              \/ EnableVideo(c) \/ DisableVideo(c)
              \/ EnableAudioInput(c) \/ DisableAudioInput(c)
       PROVE  Done
  BY <1>6, <1>11 DEF EnableVideo, DisableVideo, EnableAudioInput, DisableAudioInput
<1>12. ASSUME NEW token, NEW e, MediaSocketTokenAuthentication(token, e)
       PROVE  Done
  BY <1>1, <1>3, <1>12 DEF MediaSocketTokenAuthentication
<1>13. ASSUME \/ \E a \in Addresses : NewConnection(a)
              \/ \E x \in Readings : MediaSocketNetworkUsageUpdated(x)
       PROVE  Done
  BY <1>1, <1>13 DEF NewConnection, MediaSocketNetworkUsageUpdated
<1>14. Done
  BY <1>7, <1>8, <1>9, <1>10, <1>11, <1>12, <1>13 DEF Next
<1> QED BY <1>14 DEF Done

\* What a step adds to the connection of a client: nothing or one packet.
LEMMA DeliveredCases ==
  ASSUME Next, NEW c
  PROVE  \/ Delivered(c) = <<>> /\ \A m \in sent' : m.to # c
         \/ \E m \in sent' : m.to = c /\ Delivered(c) = <<Packet(m)'>>
<1> DEFINE mine == {x \in sent' : x.to = c}
<1>1. Delivered(c) = SetToSeq({Packet(m)' : m \in mine})
  BY DEF Delivered
<1>2. CASE mine = {}
  <2>1. {Packet(m)' : m \in mine} = {}
    BY <1>2
  <2>2. \A m \in sent' : m.to # c
    BY <1>2
  <2> QED
    BY <1>1, <2>1, <2>2, SetToSeqSmall
<1>3. ASSUME NEW m \in sent', m.to = c
      PROVE  Delivered(c) = <<Packet(m)'>>
  <2>1. \A x \in mine : x = m
    BY <1>3, OneEach
  <2>2. m \in mine
    BY <1>3
  <2>3. {Packet(x)' : x \in mine} = {Packet(m)'}
    BY <2>1, <2>2
  <2> QED
    BY <1>1, <2>3, SetToSeqSmall
<1> QED
  BY <1>2, <1>3

LEMMA PacketIsTyped ==
  ASSUME MapsType', NEW m \in MessageType
  PROVE  Packet(m)' \in PacketType
<1>1. m.kind \in MessageKind /\ m.about \in ClientId /\ m.roster \subseteq ClientId
  BY DEF MessageType
<1>2. \A p \in ClientId : Row(p)' \in RowType
  <2>1. \A p \in ClientId : entity'[p].videoEnabled \in BOOLEAN
    BY DEF MapsType, ClientEntity
  <2> QED
    BY <2>1 DEF Row, RowType
<1>3. {Row(p)' : p \in m.roster} \subseteq RowType
  BY <1>1, <1>2
<1>4. Row(m.about)' \in RowType
  BY <1>1, <1>2
<1> QED
  BY <1>1, <1>3, <1>4 DEF Packet, PacketType

LEMMA InboxType ==
  ASSUME Next, TypeOK', NEW c, NEW q \in Seq(PacketType)
  PROVE  q \o Delivered(c) \in Seq(PacketType)
<1>1. sent' \subseteq MessageType /\ MapsType'
  BY DEF TypeOK, MapsType
<1>2. CASE Delivered(c) = <<>>
  BY <1>2, ConcatEmptySeq
<1>3. CASE \E m \in sent' : Delivered(c) = <<Packet(m)'>>
  <2>1. PICK m \in sent' : Delivered(c) = <<Packet(m)'>>
    BY <1>3
  <2>2. Packet(m)' \in PacketType
    BY <1>1, PacketIsTyped
  <2> DEFINE x == Packet(m)'
  <2> HIDE DEF x
  <2>3. <<x>> \in Seq(PacketType)
    BY <2>2 DEF x
  <2> QED
    BY <2>1, <2>3, ConcatProperties DEF x
<1> QED
  BY <1>2, <1>3, DeliveredCases

LEMMA InitViewType == ViewInit => ViewTypeOK
<1>1. <<>> \in Seq(PacketType) /\ <<>> \in Seq(RowType)
  BY EmptySeq
<1> QED
  BY <1>1 DEF ViewInit, ViewTypeOK

LEMMA ServerStepType ==
  ASSUME TypeOK', ViewTypeOK, ServerStep
  PROVE  ViewTypeOK'
<1>1. \A c \in Viewers : inbox[c] \o Delivered(c) \in Seq(PacketType)
  BY InboxType DEF ServerStep, ViewTypeOK
<1>2. <<>> \in Seq(PacketType)
  BY EmptySeq
<1> DEFINE after(c) == inbox[c] \o Delivered(c)
<1> HIDE DEF after
<1>3. inbox' = [c \in Viewers |-> IF c \in Connected' THEN after(c) ELSE <<>>]
  BY DEF ServerStep, after
<1>4. inbox' \in [Viewers -> Seq(PacketType)]
  BY <1>1, <1>2, <1>3 DEF after
<1> QED
  BY <1>4 DEF ServerStep, ViewTypeOK

LEMMA HandleTilesType ==
  ASSUME NEW c, NEW shown \in SUBSET ClientId, NEW packet \in PacketType
  PROVE  HandleTiles(c, shown, packet) \in SUBSET ClientId
BY DEF HandleTiles, AddTile, RemoveTile, PacketType, RowType

LEMMA ReceiveType ==
  ASSUME ViewTypeOK, NEW c \in Viewers, Receive(c)
  PROVE  ViewTypeOK'
<1> DEFINE packet == Head(inbox[c])
           rest == Tail(inbox[c])
<1>1. inbox[c] \in Seq(PacketType) /\ inbox[c] # <<>>
  BY DEF ViewTypeOK, Receive
<1>2. packet \in PacketType /\ rest \in Seq(PacketType)
  BY <1>1, HeadTailProperties
<1>3. /\ inbox' = [inbox EXCEPT ![c] = rest]
      /\ view' = [view EXCEPT ![c] = Handle(view[c], packet)]
      /\ screen' = [screen EXCEPT ![c] =
                      IF packet.kind = "joined" /\ screen[c] = "startup"
                        THEN "dialog" ELSE screen[c]]
      /\ tiles' = [tiles EXCEPT ![c] =
                     IF screen[c] = "window"
                       THEN HandleTiles(c, tiles[c], packet) ELSE tiles[c]]
  BY DEF Receive
<1> HIDE DEF packet, rest
<1>4. view[c] \in Seq(RowType) /\ tiles[c] \in SUBSET ClientId
  BY DEF ViewTypeOK
<1>5. Handle(view[c], packet) \in Seq(RowType)
  BY <1>2, <1>4, HandleType
<1>6. HandleTiles(c, tiles[c], packet) \in SUBSET ClientId
  BY <1>2, <1>4, HandleTilesType
<1> QED
  BY <1>2, <1>3, <1>4, <1>5, <1>6 DEF ViewTypeOK

LEMMA TilesOfType ==
  ASSUME NEW c, NEW rows \in Seq(RowType)
  PROVE  TilesOf(c, rows) \in SUBSET ClientId
<1>1. \A i \in DOMAIN rows : rows[i] \in RowType
  BY LenProperties
<1> QED
  BY <1>1 DEF TilesOf, ToSet, RowType

LEMMA ViewStepType ==
  ASSUME TypeOK', ViewTypeOK, [ViewNext]_allVars
  PROVE  ViewTypeOK'
<1>1. CASE ServerStep
  BY <1>1, ServerStepType
<1>2. ASSUME NEW c \in Viewers, Receive(c)
      PROVE  ViewTypeOK'
  BY <1>2, ReceiveType
<1>3. ASSUME NEW c \in Viewers, OpenWindow(c)
      PROVE  ViewTypeOK'
  <2>1. TilesOf(c, view[c]) \in SUBSET ClientId
    BY TilesOfType DEF ViewTypeOK
  <2> QED
    BY <1>3, <2>1 DEF OpenWindow, ViewTypeOK
<1>4. CASE UNCHANGED allVars
  BY <1>4 DEF allVars, viewVars, ViewTypeOK
<1> QED
  BY <1>1, <1>2, <1>3, <1>4 DEF ViewNext

\* The composition runs the server: a step of a client leaves it alone.
LEMMA ServerRuns == ViewSpec => Spec
<1>1. ViewInit => Init
  BY DEF ViewInit
<1>2. [ViewNext]_allVars => [Next]_vars
  BY DEF ViewNext, ServerStep, Receive, OpenWindow, allVars
<1> QED
  BY <1>1, <1>2, PTL DEF ViewSpec, Spec

\* What travels to a client and what it shows are values of their types, in
\* every reachable state and whatever the instance asks of the server: a step
\* hands a client at most one packet, and each slot of ClientListModel turns
\* rows into rows.
THEOREM ViewTypeTheorem == ViewSpec => []ViewTypeOK
<1>1. TypeOK' /\ ViewTypeOK /\ [ViewNext]_allVars => ViewTypeOK'
  BY ViewStepType
<1> QED
  BY <1>1, InitViewType, ServerRuns, TypeCorrect, PTL DEF ViewSpec

(* What a step of the server means for one client *)

\* The messages the list and the window act on.
ViewKinds ==
  {"joined", "notify.clientjoinedchannel", "notify.clientdisconnected",
   "notify.clientvideoenabled", "notify.clientvideodisabled"}

VideoKinds == {"notify.clientvideoenabled", "notify.clientvideodisabled"}

\* A client joins once, as the start-up logic of the video client does; no
\* client hides behind a visibility level (nothing in the client library sends
\* updatevisibilitylevel); and the instance records the messages the list reads.
JoinsOnce ==
  /\ ~Rejoin
  /\ "updatevisibilitylevel" \notin Requests
  /\ ViewKinds \subseteq Observed

LevelsDefault == \A x \in ClientId : entity[x].visibilityLevel = VL_Default

LEMMA LevelsInit == Init => LevelsDefault
BY DEF Init, LevelsDefault, NoEntity, NewClientEntity

LEMMA LevelsStep ==
  ASSUME JoinsOnce, SafetyInv, SafetyInv', LevelsDefault, [Next]_vars
  PROVE  LevelsDefault'
<1>1. \A x \in sessions' : entity'[x].visibilityLevel = entity[x].visibilityLevel
  BY LevelStep DEF JoinsOnce
<1>2. \A x \in ClientId \ sessions' : entity'[x].visibilityLevel = VL_Default
  BY DEF SafetyInv, GoneLeaveNothing, NoEntity, NewClientEntity
<1> QED
  BY <1>1, <1>2 DEF LevelsDefault

\* Ids are handed out once, and a new connection is silent.
LEMMA IdStep ==
  ASSUME TypeOK, Next
  PROVE  \/ /\ nextClientId' = nextClientId
            /\ sessions' \subseteq sessions
            /\ Connected' \subseteq Connected
         \/ /\ nextClientId' = nextClientId + 1
            /\ sessions' = sessions \cup {nextClientId + 1}
            /\ Connected' = Connected \cup {nextClientId + 1}
            /\ sent' = {}
            /\ UNCHANGED channelVars
            /\ \A p \in Connected : entity'[p] = entity[p]
<1> DEFINE Same == /\ nextClientId' = nextClientId
                   /\ sessions' \subseteq sessions
                   /\ Connected' \subseteq Connected
<1>1. ASSUME NEW a \in Addresses, NewConnection(a)
      PROVE  /\ nextClientId' = nextClientId + 1
             /\ sessions' = sessions \cup {nextClientId + 1}
             /\ Connected' = Connected \cup {nextClientId + 1}
             /\ sent' = {}
             /\ UNCHANGED channelVars
             /\ \A p \in Connected : entity'[p] = entity[p]
  <2>1. nextClientId + 1 \notin sessions /\ closed \subseteq sessions
    BY DEF TypeOK
  <2>2. \A p \in sessions : p \in ClientId /\ p # nextClientId + 1
    BY <2>1, TypeOKSplits, SessionIds
  <2> QED
    BY <1>1, <2>1, <2>2 DEF NewConnection, Connected, TypeOK
<1>2. ASSUME UNCHANGED <<nextClientId, sessions>>, closed \subseteq closed'
      PROVE  Same
  BY <1>2 DEF Connected
<1>3. ASSUME NEW c \in ClientId,
             \/ PeerDisconnects(c) \/ DisconnectFromHost(c) \/ Timeout(c)
             \/ \E b \in BOOLEAN : Authentication(c, b)
             \/ AuthenticationRefused(c)
             \/ \E second \in Seconds : AuthenticationGranted(c, second)
             \/ Goodbye(c)
             \/ EnableVideo(c) \/ DisableVideo(c)
             \/ EnableAudioInput(c) \/ DisableAudioInput(c)
      PROVE  Same
  <2> HIDE DEF Same
  <2> QED
    BY <1>2, <1>3 DEF PeerDisconnects, DisconnectFromHost, SocketUnconnected, Timeout,
       Authentication, AuthenticationRefused, AuthenticationGranted, Goodbye,
       EnableVideo, DisableVideo, EnableAudioInput, DisableAudioInput, SetMedia,
       connectionVars
<1>4. ASSUME NEW c \in ClientId,
             \/ \E pw \in Passwords \cup {NoPassword} : CreateChannel(c, pw)
             \/ \E t \in JoinTargets, pw \in Passwords \cup {NoPassword} :
                  JoinChannel(c, t[1], t[2], pw)
             \/ AdminAuth(c)
             \/ \E id \in ClientId, ban \in BOOLEAN : KickClient(c, id, ban)
             \/ \E level \in VisibilityLevels : UpdateVisibilityLevel(c, level)
             \/ \E s, r \in ClientId :
                  \/ AddDirectStreamingRelation(c, s, r)
                  \/ RemoveDirectStreamingRelation(c, s, r)
      PROVE  Same
  <2> HIDE DEF Same
  <2> QED
    BY <1>2, <1>4 DEF CreateChannel, JoinChannel, AdminAuth, KickClient,
       UpdateVisibilityLevel, AddDirectStreamingRelation,
       RemoveDirectStreamingRelation, connectionVars
<1>5. ASSUME \/ \E token \in tokens, e \in Endpoint :
                  MediaSocketTokenAuthentication(token, e)
             \/ \E x \in Readings : MediaSocketNetworkUsageUpdated(x)
      PROVE  Same
  <2> HIDE DEF Same
  <2> QED
    BY <1>2, <1>5 DEF MediaSocketTokenAuthentication, MediaSocketNetworkUsageUpdated,
       connectionVars
<1>6. ASSUME NEW c \in ClientId, DeleteHandler(c)
      PROVE  Same
  BY <1>6 DEF DeleteHandler, Connected
<1> HIDE DEF Same
<1>7. Same \/ \E a \in Addresses : NewConnection(a)
  BY <1>3, <1>4, <1>5, <1>6 DEF Next
<1> QED
  BY <1>1, <1>7 DEF Same

\* A membership outlives every step but the deletion of one of the two.
LEMMA SiblingsKept ==
  ASSUME TypeOK, [Next]_vars, NEW c \in ClientId, c \in sessions'
  PROVE  /\ \A q \in SiblingClientIds(c) : q \in sessions' => q \in SiblingClientIds(c)'
         /\ client2channels[c] # {} => client2channels'[c] # {}
<1>0. /\ participants \in [ChannelId -> SUBSET ClientId]
      /\ client2channels \in [ClientId -> SUBSET ChannelId]
      /\ nextChannelId \in Nat /\ sessions \subseteq ClientId
      /\ channels \subseteq ChannelId
  <2>1. channels \subseteq 1..nextChannelId /\ nextChannelId \in 0..MaxChannelId
    BY DEF TypeOK
  <2>2. channels \subseteq ChannelId
    BY <2>1, BoundsAssumption DEF ChannelId
  <2> QED
    BY <2>1, <2>2, TypeOKSplits, SessionIds DEF TypeOK
<1>1. CASE UNCHANGED channelVars
  BY <1>1 DEF channelVars, SiblingClientIds
<1>2. ASSUME NEW d \in sessions, NEW id \in ChannelId,
             participants' = [participants EXCEPT ![id] = @ \cup {d}],
             client2channels' = [client2channels EXCEPT ![d] = @ \cup {id}]
      PROVE  /\ SiblingClientIds(c) \subseteq SiblingClientIds(c)'
             /\ client2channels[c] \subseteq client2channels'[c]
  <2>1. \A ch \in ChannelId : participants[ch] \subseteq participants'[ch]
    BY <1>0, <1>2
  <2>2. client2channels[c] \subseteq client2channels'[c]
    BY <1>0, <1>2
  <2>3. client2channels[c] \subseteq ChannelId
    BY <1>0
  <2> QED
    BY <2>1, <2>2, <2>3 DEF SiblingClientIds
<1>3. ASSUME NEW d \in sessions, NEW i, NEW pw, CreateAndJoin(d, i, pw)
      PROVE  /\ SiblingClientIds(c) \subseteq SiblingClientIds(c)'
             /\ client2channels[c] \subseteq client2channels'[c]
  <2>1. NewChannelId \in ChannelId
    BY <1>0, <1>3, BoundsAssumption DEF CreateAndJoin, NewChannelId, ChannelId
  <2> QED
    BY <1>2, <1>3, <2>1 DEF CreateAndJoin
<1>4. ASSUME NEW d \in sessions, NEW ch \in channels, AddClientToChannel(d, ch)
      PROVE  /\ SiblingClientIds(c) \subseteq SiblingClientIds(c)'
             /\ client2channels[c] \subseteq client2channels'[c]
  BY <1>0, <1>2, <1>4 DEF AddClientToChannel
<1>5. ASSUME NEW d \in sessions, RemoveClientFromChannels(d),
             sessions' = sessions \ {d}
      PROVE  /\ \A q \in SiblingClientIds(c) :
                  q \in sessions' => q \in SiblingClientIds(c)'
             /\ client2channels[c] = client2channels'[c]
  <2>1. c # d
    BY <1>5
  <2>2. client2channels'[c] = client2channels[c]
    BY <1>0, <1>5, <2>1 DEF RemoveClientFromChannels
  <2>3. ASSUME NEW ch \in ChannelId, NEW q \in participants[ch], q \in sessions'
        PROVE  q \in participants'[ch]
    BY <1>5, <2>3 DEF RemoveClientFromChannels
  <2>4. client2channels[c] \subseteq ChannelId
    BY <1>0
  <2> QED
    BY <2>2, <2>3, <2>4 DEF SiblingClientIds
<1> QED
  BY <1>1, <1>3, <1>4, <1>5, ChannelSteps

\* Whoever c shares a conference with after a step it did before, with the
\* same video state.
Calm(c) ==
  \A p \in Present(c)' : /\ p \in Present(c)
                         /\ entity'[p].videoEnabled = entity[p].videoEnabled

\* The five things a step may mean for the list of a connected client: nothing,
\* its own join, and another client that joins, disconnects or switches video.
Quiet(c) ==
  /\ Calm(c)
  /\ \A m \in sent' : m.to = c => m.kind \notin ViewKinds

Enters(c) ==
  /\ client2channels[c] = {} /\ client2channels'[c] # {}
  /\ \E m \in sent' :
       /\ m.kind = "joined" /\ m.to = c
       /\ Present(c)' \subseteq m.roster
       /\ m.roster \subseteq sessions'
       /\ m.roster \ {c} \subseteq SiblingClientIds(c)'

Meets(c, d) ==
  /\ d # c /\ d \in sessions'
  /\ d \notin SiblingClientIds(c) /\ d \in SiblingClientIds(c)'
  /\ Message("notify.clientjoinedchannel", c, d) \in sent'
  /\ \A p \in Present(c)' :
       \/ p = d
       \/ p \in Present(c) /\ entity'[p].videoEnabled = entity[p].videoEnabled

Loses(c, d) ==
  /\ d # c
  /\ Message("notify.clientdisconnected", c, d) \in sent'
  /\ d \notin Present(c)'
  /\ Calm(c)

Sees(c, d, kind) ==
  /\ d \in Present(c)
  /\ kind \in VideoKinds
  /\ Message(kind, c, d) \in sent'
  /\ entity'[d].videoEnabled = (kind = "notify.clientvideoenabled")
  /\ \A p \in Present(c)' :
       /\ p \in Present(c)
       /\ p # d => entity'[p].videoEnabled = entity[p].videoEnabled

Effect(c) ==
  \/ Quiet(c)
  \/ Enters(c)
  \/ \E d \in ClientId :
       Meets(c, d) \/ Loses(c, d) \/ \E kind \in VideoKinds : Sees(c, d, kind)

LEMMA ClientMaps ==
  ASSUME SafetyInv
  PROVE  /\ participants \in [ChannelId -> SUBSET ClientId]
         /\ client2channels \in [ClientId -> SUBSET ChannelId]
         /\ entity \in [ClientId -> ClientEntity]
         /\ sessions \subseteq ClientId /\ Connected \subseteq sessions
         /\ closed \subseteq sessions
         /\ channels \subseteq ChannelId
         /\ nextChannelId \in Nat /\ nextClientId \in Nat
         /\ sessions \subseteq 1..nextClientId
         /\ \A x \in ClientId, ch \in ChannelId :
              x \in participants[ch] <=> ch \in client2channels[x]
         /\ \A ch \in ChannelId : ch \in channels <=> participants[ch] # {}
<1>1. /\ channels \subseteq 1..nextChannelId /\ nextChannelId \in 0..MaxChannelId
      /\ nextClientId \in 0..MaxClientId
  BY DEF SafetyInv, TypeOK
<1>2. channels \subseteq ChannelId
  BY <1>1, BoundsAssumption DEF ChannelId
<1> QED
  BY <1>1, <1>2, TypeOKSplits, SessionIds
     DEF SafetyInv, TypeOK, MembershipConsistent, Connected

\* Siblings are live, and being siblings is mutual.
LEMMA SiblingsMutual ==
  ASSUME SafetyInv, NEW c \in ClientId, NEW p \in SiblingClientIds(c)
  PROVE  p \in ClientId /\ c \in SiblingClientIds(p)
BY ClientMaps DEF SiblingClientIds

LEMMA PresentIs ==
  ASSUME SafetyInv, LevelsDefault, NEW c \in Connected,
         NEW p \in SiblingClientIds(c), p \in Connected, p # c
  PROVE  p \in Present(c)
<1>1. c \in sessions /\ p \in sessions /\ p \in ClientId
  BY ClientMaps
<1> QED
  BY <1>1 DEF Present, VisibleSiblingClientIds, IsAllowedToSee,
     VisibilityLevelAllowed, LevelsDefault, VL_Default

LEMMA CalmFrame ==
  ASSUME SafetyInv, LevelsDefault, NEW c \in Connected,
         \A p \in SiblingClientIds(c)' : p \in Connected' /\ p # c =>
            /\ p \in SiblingClientIds(c) /\ p \in Connected
            /\ entity'[p].videoEnabled = entity[p].videoEnabled
  PROVE  Calm(c)
<1> SUFFICES ASSUME NEW p \in Present(c)'
             PROVE  /\ p \in Present(c)
                    /\ entity'[p].videoEnabled = entity[p].videoEnabled
  BY DEF Calm
<1>1. p \in SiblingClientIds(c)' /\ p \in Connected' /\ p # c
  BY DEF Present, VisibleSiblingClientIds
<1> QED
  BY <1>1, PresentIs

\* Steps that leave the channels and the video flags alone.
LEMMA CalmStep ==
  ASSUME SafetyInv, LevelsDefault, NEW c \in Connected, UNCHANGED channelVars,
         Connected' \subseteq Connected,
         \A p \in Connected' : entity'[p].videoEnabled = entity[p].videoEnabled
  PROVE  Calm(c)
<1>1. SiblingClientIds(c)' = SiblingClientIds(c)
  BY DEF channelVars, SiblingClientIds
<1> QED
  BY <1>1, CalmFrame

\* A client disconnects.
LEMMA EffectOfUnconnected ==
  ASSUME SafetyInv, LevelsDefault, JoinsOnce, NEW c \in Connected, c \in Connected',
         NEW d \in Connected, SocketUnconnected(d)
  PROVE  Effect(c)
<1>1. /\ UNCHANGED <<channelVars, sessions, entity>>
      /\ Connected' = Connected \ {d}
      /\ sent' = Deliver({Message("notify.clientdisconnected", p, d) :
                            p \in VisibleSiblingClientIds(d) \ {d}})
  BY DEF SocketUnconnected, Connected
<1>2. c # d /\ c \in ClientId /\ d \in ClientId
  BY <1>1, ClientMaps
<1>3. Calm(c)
  BY <1>1, CalmStep
<1>4. CASE c \in SiblingClientIds(d)
  <2>1. c \in VisibleSiblingClientIds(d)
    BY <1>2, <1>4, PresentIs DEF Present
  <2>2. Message("notify.clientdisconnected", c, d) \in sent'
    <3>1. "notify.clientdisconnected" \in Observed
      BY DEF JoinsOnce, ViewKinds
    <3> QED
      BY <1>1, <1>2, <2>1, <3>1 DEF Deliver, Message
  <2>3. d \notin Present(c)'
    BY <1>1 DEF Present
  <2> QED
    BY <1>2, <1>3, <2>2, <2>3 DEF Effect, Loses
<1>5. CASE c \notin SiblingClientIds(d)
  <2>1. \A m \in sent' : m.to # c
    BY <1>1, <1>5 DEF Deliver, Message, VisibleSiblingClientIds
  <2> QED
    BY <1>3, <2>1 DEF Effect, Quiet
<1> QED
  BY <1>4, <1>5

\* A client switches its video or its microphone.
LEMMA EffectOfMedia ==
  ASSUME SafetyInv, LevelsDefault, JoinsOnce, NEW c \in Connected, c \in Connected',
         NEW d \in Connected, NEW kind, NEW e, SetMedia(d, e, kind),
         \/ kind \in VideoKinds /\ e.videoEnabled = (kind = "notify.clientvideoenabled")
         \/ kind \notin ViewKinds /\ e.videoEnabled = entity[d].videoEnabled
  PROVE  Effect(c)
<1>1. /\ UNCHANGED <<channelVars, sessions, closed>>
      /\ Connected' = Connected
      /\ entity' = [entity EXCEPT ![d] = e]
      /\ sent' = BroadcastNotificationToSiblingClients(d, kind)
  BY DEF SetMedia, connectionVars, Connected
<1>2. c \in ClientId /\ d \in ClientId /\ c \in sessions
  BY ClientMaps
<1>3. /\ entity'[d] = e
      /\ \A p \in Connected : p # d => entity'[p] = entity[p]
  BY <1>1, <1>2, ClientMaps
<1>4. \A p \in Present(c)' : p \in Present(c)
  <2>1. SiblingClientIds(c)' = SiblingClientIds(c)
    BY <1>1 DEF channelVars, SiblingClientIds
  <2>2. \A p \in Present(c)' : p \in SiblingClientIds(c)' /\ p \in Connected' /\ p # c
    BY DEF Present, VisibleSiblingClientIds
  <2> QED
    BY <1>1, <2>1, <2>2, PresentIs
<1>5. \A p \in Present(c)' : p # d => entity'[p].videoEnabled = entity[p].videoEnabled
  BY <1>3, <1>4 DEF Present
<1>6. \A m \in sent' : m.kind = kind /\ m.to \in SiblingClientIds(d) \ {d}
  BY <1>1 DEF BroadcastNotificationToSiblingClients, Deliver, Message
<1>7. CASE kind \in VideoKinds /\ c \in SiblingClientIds(d) /\ c # d
  <2>1. d \in Present(c)
    BY <1>2, <1>7, SiblingsMutual, PresentIs
  <2>2. Message(kind, c, d) \in sent'
    <3>1. kind \in Observed
      BY <1>7 DEF JoinsOnce, ViewKinds, VideoKinds
    <3>2. IsAllowedToSee(c, d)
      BY <1>2 DEF IsAllowedToSee, VisibilityLevelAllowed, LevelsDefault, VL_Default
    <3> QED
      BY <1>1, <1>2, <1>7, <3>1, <3>2
         DEF BroadcastNotificationToSiblingClients, Deliver, Message
  <2>3. e.videoEnabled = (kind = "notify.clientvideoenabled")
    BY <1>7 DEF ViewKinds, VideoKinds
  <2>4. Sees(c, d, kind)
    BY <1>3, <1>4, <1>5, <1>7, <2>1, <2>2, <2>3 DEF Sees
  <2> QED
    BY <1>2, <1>7, <2>4 DEF Effect
<1>8. CASE c \notin SiblingClientIds(d) \ {d}
  <2>1. d \notin Present(c)'
    <3>1. SiblingClientIds(c)' = SiblingClientIds(c)
      BY <1>1 DEF channelVars, SiblingClientIds
    <3>2. d \in Present(c)' => d \in SiblingClientIds(c) /\ d # c
      BY <3>1 DEF Present, VisibleSiblingClientIds
    <3> QED
      BY <1>2, <1>8, <3>2, SiblingsMutual
  <2>2. Quiet(c)
    BY <1>4, <1>5, <1>6, <1>8, <2>1 DEF Quiet, Calm
  <2> QED
    BY <2>2 DEF Effect
<1>9. CASE kind \notin VideoKinds
  <2>1. kind \notin ViewKinds /\ entity'[d].videoEnabled = entity[d].videoEnabled
    BY <1>3, <1>9
  <2>2. Quiet(c)
    BY <1>4, <1>5, <1>6, <2>1 DEF Quiet, Calm
  <2> QED
    BY <2>2 DEF Effect
<1> QED
  BY <1>7, <1>8, <1>9

\* What a join does, whether it creates the channel or finds it.
LEMMA JoinShape ==
  ASSUME SafetyInv, NEW d \in ClientId, NEW t, NEW pw, JoinChannel(d, t[1], t[2], pw)
  PROVE  /\ d \in Connected
         /\ UNCHANGED <<connectionVars, entity>>
         /\ \E id \in ChannelId :
              /\ participants' = [participants EXCEPT ![id] = @ \cup {d}]
              /\ client2channels' = [client2channels EXCEPT ![d] = @ \cup {id}]
              /\ sent' = JoinMessages(d, id)
<1>1. d \in Connected /\ UNCHANGED <<connectionVars, entity>>
  BY DEF JoinChannel, Request
<1>2. \/ \E id \in channels : AddClientToChannel(d, id) /\ sent' = JoinMessages(d, id)
      \/ \E i, p : CreateAndJoin(d, i, p) /\ sent' = JoinMessages(d, NewChannelId)
  BY DEF JoinChannel
<1>3. ASSUME NEW i, NEW p, CreateAndJoin(d, i, p)
      PROVE  NewChannelId \in ChannelId
  BY <1>3, ClientMaps, BoundsAssumption DEF CreateAndJoin, NewChannelId, ChannelId
<1> QED
  BY <1>1, <1>2, <1>3, ClientMaps DEF AddClientToChannel, CreateAndJoin

\* A client that was in no conference joins one.
LEMMA EffectOfJoin ==
  ASSUME SafetyInv, LevelsDefault, JoinsOnce, NEW c \in Connected, c \in Connected',
         NEW d \in ClientId, NEW t, NEW pw, JoinChannel(d, t[1], t[2], pw),
         \A m \in sent' : m.kind = "joined" => client2channels[m.to] = {}
  PROVE  Effect(c)
<1>1. d \in Connected /\ UNCHANGED <<connectionVars, entity>>
  BY JoinShape
<1>2. PICK id \in ChannelId :
        /\ participants' = [participants EXCEPT ![id] = @ \cup {d}]
        /\ client2channels' = [client2channels EXCEPT ![d] = @ \cup {id}]
        /\ sent' = JoinMessages(d, id)
  BY JoinShape
<1> DEFINE roster == {p \in participants'[id] : p \in sessions /\ IsAllowedToSee(d, p)}
           reply == [kind |-> "joined", to |-> d, about |-> d, roster |-> roster]
           others == BroadcastNotificationToSiblingClients(
                       d, "notify.clientjoinedchannel")'
<1>3. ViewKinds \subseteq Observed /\ Connected' = Connected
  BY <1>1 DEF JoinsOnce, Connected, connectionVars
<1>4. sent' = {reply} \cup others
  <2>1. Deliver({reply}) = {reply}
    BY <1>1, <1>3 DEF Deliver, ViewKinds
  <2> HIDE DEF reply
  <2>2. sent' = Deliver({reply}) \cup others
    BY <1>2 DEF JoinMessages, reply
  <2> HIDE DEF others
  <2> QED
    BY <2>1, <2>2
<1>5. client2channels[d] = {}
  <2>1. reply \in sent' /\ reply.kind = "joined" /\ reply.to = d
    BY <1>4
  <2> QED
    BY <2>1
<1>6. /\ participants'[id] = participants[id] \cup {d}
      /\ \A ch \in ChannelId : ch # id => participants'[ch] = participants[ch]
      /\ client2channels'[d] = {id}
      /\ \A x \in ClientId : x # d => client2channels'[x] = client2channels[x]
  BY <1>2, <1>5, ClientMaps
<1>7. \A ch \in ChannelId : d \notin participants[ch]
  BY <1>5, ClientMaps
<1>8. SiblingClientIds(d)' = participants[id] \cup {d}
  BY <1>6 DEF SiblingClientIds
<1>9. \A x \in participants[id] \cup {d} : x \in ClientId
  BY ClientMaps
<1>10. \A x \in sessions : IsAllowedToSee(d, x) /\ IsAllowedToSee(d, x)'
                           /\ IsAllowedToSee(x, d) /\ IsAllowedToSee(x, d)'
  BY <1>1, ClientMaps DEF IsAllowedToSee, VisibilityLevelAllowed, LevelsDefault, VL_Default
<1>11. c \in ClientId /\ c \in sessions /\ sessions' = sessions
  BY <1>1, ClientMaps DEF connectionVars
<1>12. \A p \in Present(c)' : p \in SiblingClientIds(c)' /\ p \in Connected /\ p # c
  BY <1>3 DEF Present, VisibleSiblingClientIds
<1>13. others = {m \in {Message("notify.clientjoinedchannel", p, d) :
                          p \in {q \in SiblingClientIds(d)' \ {d} :
                                   q \in sessions' /\ IsAllowedToSee(q, d)'}} :
                   m.to \in Connected' /\ m.kind \in Observed}
  BY DEF BroadcastNotificationToSiblingClients, Deliver
<1>14. CASE c = d
  <2>1. Present(c)' \subseteq roster
    BY <1>6, <1>8, <1>10, <1>12, <1>14, ClientMaps
  <2>2. roster \subseteq sessions' /\ roster \ {c} \subseteq SiblingClientIds(c)'
    BY <1>6, <1>8, <1>11, <1>14
  <2>3. client2channels'[c] # {} /\ client2channels[c] = {}
    BY <1>5, <1>6, <1>14
  <2>4. reply \in sent' /\ reply.kind = "joined" /\ reply.to = c /\ reply.roster = roster
    BY <1>4, <1>14
  <2> HIDE DEF reply, roster
  <2> QED
    BY <2>1, <2>2, <2>3, <2>4 DEF Effect, Enters
<1>15. ASSUME c # d
       PROVE  /\ d \notin SiblingClientIds(c)
              /\ SiblingClientIds(c)' \subseteq SiblingClientIds(c) \cup {d}
  <2>1. d \notin SiblingClientIds(c)
    BY <1>7, <1>11, ClientMaps DEF SiblingClientIds
  <2>2. client2channels'[c] = client2channels[c] /\ client2channels[c] \subseteq ChannelId
    BY <1>6, <1>11, <1>15, ClientMaps
  <2>3. \A ch \in ChannelId : participants'[ch] \subseteq participants[ch] \cup {d}
    BY <1>6
  <2> QED
    BY <2>1, <2>2, <2>3 DEF SiblingClientIds
<1>16. CASE c # d /\ c \in participants[id]
  <2>1. Message("notify.clientjoinedchannel", c, d) \in sent'
    <3>1. "notify.clientjoinedchannel" \in Observed
      BY <1>3 DEF ViewKinds
    <3>2. Message("notify.clientjoinedchannel", c, d) \in others
      BY <1>3, <1>8, <1>10, <1>11, <1>13, <1>16, <3>1 DEF Message
    <3> QED
      BY <1>4, <3>2
  <2>2. d \in SiblingClientIds(c)'
    <3>1. id \in client2channels'[c]
      BY <1>6, <1>11, <1>16, ClientMaps
    <3>2. d \in participants'[id]
      BY <1>6
    <3> QED
      BY <3>1, <3>2 DEF SiblingClientIds
  <2>3. d \in sessions'
    BY <1>1, <1>11, ClientMaps
  <2>4. \A p \in Present(c)' :
          \/ p = d
          \/ p \in Present(c) /\ entity'[p].videoEnabled = entity[p].videoEnabled
    BY <1>1, <1>12, <1>15, <1>16, PresentIs
  <2> QED
    BY <1>15, <1>16, <2>1, <2>2, <2>3, <2>4 DEF Effect, Meets
<1>17. CASE c # d /\ c \notin participants[id]
  <2>1. \A m \in sent' : m.to # c
    <3>1. reply.to # c
      BY <1>17
    <3>2. \A m \in others : m.to \in SiblingClientIds(d)'
      BY <1>13 DEF Message
    <3> HIDE DEF others, reply
    <3> QED
      BY <1>4, <1>8, <1>17, <3>1, <3>2
  <2>2. d \notin SiblingClientIds(c)'
    <3>1. client2channels'[c] = client2channels[c] /\ id \notin client2channels[c]
      BY <1>2, <1>6, <1>11, <1>17, ClientMaps
    <3>2. client2channels[c] \subseteq ChannelId
      BY <1>11, ClientMaps
    <3>3. \A ch \in client2channels[c] : d \notin participants'[ch]
      BY <1>6, <1>7, <3>1, <3>2
    <3> QED
      BY <3>1, <3>3 DEF SiblingClientIds
  <2>3. \A p \in Present(c)' :
          p \in Present(c) /\ entity'[p].videoEnabled = entity[p].videoEnabled
    BY <1>1, <1>12, <1>15, <1>17, <2>2, PresentIs
  <2> QED
    BY <2>1, <2>3 DEF Effect, Quiet, Calm
<1> QED
  BY <1>14, <1>16, <1>17

\* A client creates a channel: nobody is told, and it is alone in it.
LEMMA EffectOfCreation ==
  ASSUME SafetyInv, LevelsDefault, NEW c \in Connected, c \in Connected',
         NEW d \in ClientId, NEW pw, CreateChannel(d, pw)
  PROVE  Effect(c)
<1> DEFINE id == NewChannelId
<1>1. /\ UNCHANGED <<connectionVars, entity>> /\ sent' = {}
      /\ participants' = [participants EXCEPT ![id] = @ \cup {d}]
      /\ client2channels' = [client2channels EXCEPT ![d] = @ \cup {id}]
      /\ nextChannelId < MaxChannelId
  BY DEF CreateChannel, CreateAndJoin
<1>2. id \in ChannelId /\ id \notin channels
  <2>1. nextChannelId \in Nat /\ channels \subseteq 1..nextChannelId
    BY ClientMaps DEF SafetyInv, TypeOK
  <2> QED
    BY <1>1, <2>1, BoundsAssumption DEF NewChannelId, ChannelId
<1>3. participants[id] = {} /\ \A x \in ClientId : id \notin client2channels[x]
  BY <1>2, ClientMaps
<1> HIDE DEF id
<1>4. c \in ClientId /\ Connected' = Connected /\ client2channels[c] \subseteq ChannelId
  BY <1>1, ClientMaps DEF Connected, connectionVars
<1>5. ASSUME NEW p \in SiblingClientIds(c)', p # c
      PROVE  p \in SiblingClientIds(c)
  <2>1. PICK ch \in client2channels'[c] : p \in participants'[ch]
    BY <1>5 DEF SiblingClientIds
  <2>2. CASE ch = id
    <3>1. p = d /\ participants'[id] = {d}
      BY <1>1, <1>2, <1>3, <2>1, <2>2, ClientMaps
    <3>2. c = d
      BY <1>1, <1>3, <1>4, <2>1, <2>2, ClientMaps
    <3> QED
      BY <1>5, <3>1, <3>2
  <2>3. CASE ch # id
    <3>1. ch \in client2channels[c]
      BY <1>1, <1>4, <2>1, <2>3, ClientMaps
    <3>2. p \in participants[ch]
      BY <1>1, <1>4, <2>1, <2>3, <3>1, ClientMaps
    <3> QED
      BY <3>1, <3>2 DEF SiblingClientIds
  <2> QED
    BY <2>2, <2>3
<1>6. Calm(c)
  BY <1>1, <1>4, <1>5, CalmFrame
<1> QED
  BY <1>1, <1>6 DEF Effect, Quiet

\* The destructor of a handler: whoever it belonged to was not connected.
LEMMA EffectOfDeletion ==
  ASSUME SafetyInv, LevelsDefault, NEW c \in Connected, c \in Connected',
         NEW d \in ClientId, DeleteHandler(d)
  PROVE  Effect(c)
<1>1. /\ d \in closed /\ RemoveClientFromChannels(d)
      /\ entity' = [entity EXCEPT ![d] = NoEntity] /\ sent' = {}
      /\ sessions' = sessions \ {d} /\ closed' = closed \ {d}
  BY DEF DeleteHandler
<1>2. c # d /\ Connected' = Connected /\ d \notin Connected
  BY <1>1 DEF Connected
<1>3. c \in ClientId /\ client2channels[c] \subseteq ChannelId
  BY ClientMaps
<1>4. client2channels'[c] = client2channels[c]
  BY <1>1, <1>2, <1>3, ClientMaps DEF RemoveClientFromChannels
<1>5. \A ch \in ChannelId : participants'[ch] \subseteq participants[ch]
  BY <1>1 DEF RemoveClientFromChannels
<1>6. SiblingClientIds(c)' \subseteq SiblingClientIds(c)
  BY <1>3, <1>4, <1>5 DEF SiblingClientIds
<1>7. \A p \in Connected : entity'[p] = entity[p]
  BY <1>1, <1>2, ClientMaps
<1>8. Calm(c)
  BY <1>2, <1>6, <1>7, CalmFrame
<1> QED
  BY <1>1, <1>8 DEF Effect, Quiet

\* Steps that change no membership, no video flag and send nothing the list is
\* concerned with.
LEMMA EffectOfOthers ==
  ASSUME SafetyInv, LevelsDefault, NEW c \in Connected, c \in Connected',
         UNCHANGED <<connectionVars, channelVars>>,
         \A p \in sessions : entity'[p].videoEnabled = entity[p].videoEnabled,
         \A m \in sent' : m.kind \notin ViewKinds
  PROVE  Effect(c)
<1>1. Connected' = Connected
  BY DEF Connected, connectionVars
<1>2. Calm(c)
  BY <1>1, CalmStep, ClientMaps
<1> QED
  BY <1>2 DEF Effect, Quiet

\* A change of the other fields of a client's entity keeps its video flag.
LEMMA VideoKept ==
  ASSUME SafetyInv, NEW d \in ClientId,
         \/ UNCHANGED entity
         \/ entity' = [entity EXCEPT ![d].authenticated = TRUE]
         \/ entity' = [entity EXCEPT ![d].admin = TRUE]
         \/ \E e : entity' = [entity EXCEPT ![d].media = e]
  PROVE  \A p \in sessions : entity'[p].videoEnabled = entity[p].videoEnabled
<1> SUFFICES ASSUME NEW p \in sessions
             PROVE  entity'[p].videoEnabled = entity[p].videoEnabled
  OBVIOUS
<1>1. p \in ClientId /\ entity \in [ClientId -> ClientEntity]
  BY ClientMaps
<1>2. entity[p] \in ClientEntity /\ entity[d] \in ClientEntity
  BY <1>1
<1>3. CASE UNCHANGED entity
  BY <1>3
<1>4. CASE entity' = [entity EXCEPT ![d].authenticated = TRUE]
  BY <1>1, <1>2, <1>4 DEF ClientEntity
<1>5. CASE entity' = [entity EXCEPT ![d].admin = TRUE]
  BY <1>1, <1>2, <1>5 DEF ClientEntity
<1>6. ASSUME NEW e, entity' = [entity EXCEPT ![d].media = e]
      PROVE  entity'[p].videoEnabled = entity[p].videoEnabled
  BY <1>1, <1>2, <1>6 DEF ClientEntity
<1> QED
  BY <1>3, <1>4, <1>5, <1>6

\* Every step of the server means one of the five things to a client that is
\* connected before and after it.
LEMMA EffectStep ==
  ASSUME SafetyInv, LevelsDefault, JoinsOnce, NEW c \in Connected, c \in Connected',
         ServerStep
  PROVE  Effect(c)
<1>0. /\ Next
      /\ \A m \in sent' : m.kind = "joined" => client2channels[m.to] = {}
  BY DEF ServerStep, JoinsOnce
<1>1. ASSUME NEW a \in Addresses, NewConnection(a)
      PROVE  Effect(c)
  <2>1. /\ sent' = {} /\ UNCHANGED channelVars
        /\ Connected' = Connected \cup {nextClientId + 1}
        /\ \A p \in Connected : entity'[p] = entity[p]
    <3>1. \A p \in Connected : p \in ClientId /\ p # nextClientId + 1
      BY ClientMaps
    <3>2. nextClientId + 1 \notin closed
      BY ClientMaps
    <3>3. \A p \in Connected : entity'[p] = entity[p]
      BY <1>1, <3>1, ClientMaps DEF NewConnection
    <3> QED
      BY <1>1, <3>2, <3>3 DEF NewConnection, Connected
  <2>2. SiblingClientIds(c)' = SiblingClientIds(c)
    BY <2>1 DEF channelVars, SiblingClientIds
  <2>3. SiblingClientIds(c) \subseteq sessions
    <3>1. c \in ClientId
      BY ClientMaps
    <3>2. ASSUME NEW p \in SiblingClientIds(c) PROVE p \in sessions
      <4>1. p \in ClientId /\ c \in SiblingClientIds(p)
        BY <3>1, SiblingsMutual
      <4>2. client2channels[p] # {}
        BY <4>1 DEF SiblingClientIds
      <4>3. entity[p].authenticated
        BY <4>1, <4>2 DEF SafetyInv, OnlyAuthenticatedAct
      <4> QED
        BY <4>1, <4>3 DEF SafetyInv, GoneLeaveNothing, NoEntity, NewClientEntity
    <3> QED
      BY <3>2
  <2>4. nextClientId + 1 \notin sessions
    BY ClientMaps
  <2>5. Calm(c)
    BY <2>1, <2>2, <2>3, <2>4, CalmFrame
  <2> QED
    BY <2>1, <2>5 DEF Effect, Quiet
<1>2. ASSUME NEW d \in ClientId, PeerDisconnects(d) \/ DisconnectFromHost(d)
      PROVE  Effect(c)
  BY <1>2, EffectOfUnconnected DEF PeerDisconnects, DisconnectFromHost
<1>3. ASSUME NEW d \in ClientId, DeleteHandler(d)
      PROVE  Effect(c)
  BY <1>3, EffectOfDeletion
<1>4. ASSUME NEW d \in ClientId,
             \/ Timeout(d)
             \/ \E b \in BOOLEAN : Authentication(d, b)
             \/ AuthenticationRefused(d)
             \/ \E second \in Seconds : AuthenticationGranted(d, second)
             \/ Goodbye(d) \/ AdminAuth(d)
      PROVE  Effect(c)
  <2>1. UNCHANGED <<connectionVars, channelVars>>
    BY <1>4 DEF Timeout, Authentication, AuthenticationRefused, AuthenticationGranted,
       Goodbye, AdminAuth
  <2>2. \A p \in sessions : entity'[p].videoEnabled = entity[p].videoEnabled
    BY <1>4, VideoKept DEF Timeout, Authentication, AuthenticationRefused,
       AuthenticationGranted, Goodbye, AdminAuth
  <2>3. \A m \in sent' : m.kind \in {"error", "authenticated"}
    BY <1>4 DEF Timeout, Authentication, AuthenticationRefused,
       AuthenticationGranted, Goodbye, AdminAuth, Deliver, Message
  <2> QED
    BY <2>1, <2>2, <2>3, EffectOfOthers DEF ViewKinds
<1>5. ASSUME NEW d \in ClientId, EnableVideo(d)
      PROVE  Effect(c)
  <2>1. d \in Connected /\ entity[d] \in ClientEntity
    BY <1>5, ClientMaps DEF EnableVideo, Request
  <2> DEFINE e == [entity[d] EXCEPT !.videoEnabled = TRUE]
  <2>2. SetMedia(d, e, "notify.clientvideoenabled") /\ e.videoEnabled = TRUE
    BY <1>5, <2>1 DEF EnableVideo, ClientEntity
  <2> HIDE DEF e
  <2> QED
    BY <2>1, <2>2, EffectOfMedia DEF VideoKinds
<1>6. ASSUME NEW d \in ClientId, DisableVideo(d)
      PROVE  Effect(c)
  <2>1. d \in Connected /\ entity[d] \in ClientEntity
    BY <1>6, ClientMaps DEF DisableVideo, Request
  <2> DEFINE e == [entity[d] EXCEPT !.videoEnabled = FALSE]
  <2>2. SetMedia(d, e, "notify.clientvideodisabled") /\ e.videoEnabled = FALSE
    BY <1>6, <2>1 DEF DisableVideo, ClientEntity
  <2> HIDE DEF e
  <2> QED
    BY <2>1, <2>2, EffectOfMedia DEF VideoKinds
<1>7. ASSUME NEW d \in ClientId, EnableAudioInput(d) \/ DisableAudioInput(d)
      PROVE  Effect(c)
  <2>1. d \in Connected /\ entity[d] \in ClientEntity
    BY <1>7, ClientMaps DEF EnableAudioInput, DisableAudioInput, Request
  <2>2. \E kind \in {"notify.clientaudioinputenabled",
                     "notify.clientaudioinputdisabled"}, b \in BOOLEAN :
          SetMedia(d, [entity[d] EXCEPT !.audioInputEnabled = b], kind)
    BY <1>7 DEF EnableAudioInput, DisableAudioInput
  <2>3. PICK kind \in {"notify.clientaudioinputenabled",
                       "notify.clientaudioinputdisabled"}, b \in BOOLEAN :
          SetMedia(d, [entity[d] EXCEPT !.audioInputEnabled = b], kind)
    BY <2>2
  <2> DEFINE e == [entity[d] EXCEPT !.audioInputEnabled = b]
  <2>4. e.videoEnabled = entity[d].videoEnabled /\ kind \notin ViewKinds
    BY <2>1 DEF ClientEntity, ViewKinds
  <2>5. SetMedia(d, e, kind)
    BY <2>3
  <2> HIDE DEF e
  <2> QED
    BY <2>1, <2>4, <2>5, EffectOfMedia
<1>8. ASSUME NEW d \in ClientId, NEW pw, CreateChannel(d, pw)
      PROVE  Effect(c)
  BY <1>8, EffectOfCreation
<1>9. ASSUME NEW d \in ClientId, NEW t, NEW pw, JoinChannel(d, t[1], t[2], pw)
      PROVE  Effect(c)
  BY <1>0, <1>9, EffectOfJoin
<1>10. ASSUME NEW d \in ClientId, NEW id, NEW ban, KickClient(d, id, ban)
       PROVE  Effect(c)
  <2>1. UNCHANGED <<connectionVars, channelVars, entity>>
    BY <1>10 DEF KickClient
  <2>2. \A m \in sent' : m.kind = "notify.kicked"
    BY <1>10 DEF KickClient, Deliver, Message
  <2> QED
    BY <2>1, <2>2, EffectOfOthers DEF ViewKinds
<1>11. ASSUME NEW d \in ClientId, NEW level, UpdateVisibilityLevel(d, level)
       PROVE  FALSE
  BY <1>11 DEF UpdateVisibilityLevel, Request, JoinsOnce
<1>12. ASSUME NEW d \in ClientId, NEW s \in ClientId, NEW r \in ClientId,
              \/ AddDirectStreamingRelation(d, s, r)
              \/ RemoveDirectStreamingRelation(d, s, r)
       PROVE  Effect(c)
  <2>1. UNCHANGED <<connectionVars, channelVars, entity>> /\ sent' = {}
    BY <1>12 DEF AddDirectStreamingRelation, RemoveDirectStreamingRelation
  <2> QED
    BY <2>1, EffectOfOthers
<1>13. ASSUME NEW token \in tokens, NEW e \in Endpoint,
              MediaSocketTokenAuthentication(token, e)
       PROVE  Effect(c)
  <2>1. token[1] \in ClientId
    BY DEF SafetyInv, TypeOK
  <2>2. UNCHANGED <<connectionVars, channelVars>>
    BY <1>13 DEF MediaSocketTokenAuthentication
  <2>3. \A p \in sessions : entity'[p].videoEnabled = entity[p].videoEnabled
    BY <1>13, <2>1, VideoKept DEF MediaSocketTokenAuthentication
  <2>4. \A m \in sent' : m.kind = "notify.mediaauthsuccess"
    BY <1>13 DEF MediaSocketTokenAuthentication, Deliver, Message
  <2> QED
    BY <2>2, <2>3, <2>4, EffectOfOthers DEF ViewKinds
<1>14. ASSUME NEW x \in Readings, MediaSocketNetworkUsageUpdated(x)
       PROVE  Effect(c)
  <2>1. UNCHANGED <<connectionVars, channelVars, entity>> /\ sent' = {}
    BY <1>14 DEF MediaSocketNetworkUsageUpdated
  <2> QED
    BY <2>1, EffectOfOthers
<1>15. CASE \E d \in ClientId :
              \/ PeerDisconnects(d) \/ DisconnectFromHost(d) \/ DeleteHandler(d)
              \/ Timeout(d)
              \/ \E b \in BOOLEAN : Authentication(d, b)
              \/ AuthenticationRefused(d)
              \/ \E second \in Seconds : AuthenticationGranted(d, second)
              \/ Goodbye(d)
              \/ EnableVideo(d) \/ DisableVideo(d)
              \/ EnableAudioInput(d) \/ DisableAudioInput(d)
              \/ AdminAuth(d)
  <2> QED
    BY <1>2, <1>3, <1>4, <1>5, <1>6, <1>7, <1>15
<1>16. CASE \E d \in ClientId :
              \/ \E pw \in Passwords \cup {NoPassword} : CreateChannel(d, pw)
              \/ \E t \in JoinTargets, pw \in Passwords \cup {NoPassword} :
                   JoinChannel(d, t[1], t[2], pw)
              \/ \E id \in ClientId, ban \in BOOLEAN : KickClient(d, id, ban)
              \/ \E level \in VisibilityLevels : UpdateVisibilityLevel(d, level)
              \/ \E s, r \in ClientId :
                   \/ AddDirectStreamingRelation(d, s, r)
                   \/ RemoveDirectStreamingRelation(d, s, r)
  BY <1>8, <1>9, <1>10, <1>11, <1>12, <1>16
<1> QED
  BY <1>0, <1>1, <1>13, <1>14, <1>15, <1>16 DEF Next

(* What the five things do to the rows *)

\* A row of another client is about an id that was handed out; if that client
\* is still there, it shares a conference with c.
KnownId(c, q) ==
  /\ q <= nextClientId
  /\ q \in sessions => q \in SiblingClientIds(c)

Known(c, rows) ==
  \A i \in DOMAIN rows : rows[i].id # c => KnownId(c, rows[i].id)

\* Every connected sibling has a row with its video state.
Complete(c, rows) ==
  \A p \in Present(c) : \E i \in DOMAIN rows : rows[i] = Row(p)

\* A packet about another client's video finds a row of that client, and
\* carries the state it announces; a disconnect is about another client.
Orderly(c, rows, packet) ==
  /\ packet.kind \in VideoKinds =>
       /\ packet.client.id # c
       /\ \E i \in DOMAIN rows : rows[i].id = packet.client.id
       /\ packet.client.video = (packet.kind = "notify.clientvideoenabled")
  /\ packet.kind = "notify.clientdisconnected" => packet.client.id # c

\* The rows after a packet are as good as the rows before it.
Follows(c, rows, packet) ==
  /\ Orderly(c, rows, packet)
  /\ Single(c, Handle(rows, packet))
  /\ \A i \in DOMAIN Handle(rows, packet) :
       Handle(rows, packet)[i].id # c => KnownId(c, Handle(rows, packet)[i].id)'
  /\ \A p \in Present(c)' :
       \E i \in DOMAIN Handle(rows, packet) : Handle(rows, packet)[i] = Row(p)'

LEMMA KnownStep ==
  ASSUME SafetyInv, SafetyInv', Next, NEW c \in sessions', NEW q, q \in ClientId,
         KnownId(c, q)
  PROVE  KnownId(c, q)'
<1>1. TypeOK /\ c \in ClientId
  <2>1. sessions' \subseteq 1..nextClientId' /\ nextClientId' \in 0..MaxClientId
    BY DEF SafetyInv, TypeOK
  <2> QED
    BY <2>1, BoundsAssumption DEF SafetyInv, ClientId
<1>2. nextClientId \in Nat /\ q \in Nat
  BY ClientMaps DEF ClientId
<1>3. q <= nextClientId' /\ (q \in sessions' => q \in sessions)
  BY <1>1, <1>2, IdStep DEF KnownId
<1> QED
  BY <1>1, <1>3, SiblingsKept DEF KnownId

\* An id that is known and live names a sibling, so a client that shares no
\* conference with c before the step has no row.
LEMMA NoRowOfStranger ==
  ASSUME SafetyInv, Next, NEW c, NEW rows, Known(c, rows),
         NEW d \in sessions', d # c, d \notin SiblingClientIds(c)
  PROVE  \A i \in DOMAIN rows : rows[i].id # d
<1> SUFFICES ASSUME NEW i \in DOMAIN rows, rows[i].id = d PROVE FALSE
  OBVIOUS
<1>1. d <= nextClientId /\ (d \in sessions => d \in SiblingClientIds(c))
  BY DEF Known, KnownId
<1>2. d \in sessions
  BY <1>1, IdStep, ClientMaps DEF SafetyInv
<1> QED
  BY <1>1, <1>2

LEMMA FollowsQuiet ==
  ASSUME SafetyInv, SafetyInv', Next, NEW c \in sessions', Quiet(c),
         NEW rows \in Seq(RowType), Single(c, rows), Known(c, rows),
         Complete(c, rows)
  PROVE  /\ \A i \in DOMAIN rows : rows[i].id # c => KnownId(c, rows[i].id)'
         /\ \A p \in Present(c)' : \E i \in DOMAIN rows : rows[i] = Row(p)'
         /\ \A packet : packet.kind \notin ViewKinds => Follows(c, rows, packet)
<1>1. \A i \in DOMAIN rows : rows[i].id \in ClientId
  <2>1. \A i \in DOMAIN rows : rows[i] \in RowType
    BY LenProperties
  <2> QED
    BY <2>1 DEF RowType
<1>2. \A i \in DOMAIN rows : rows[i].id # c => KnownId(c, rows[i].id)'
  BY <1>1, KnownStep DEF Known
<1>3. \A p \in Present(c)' : \E i \in DOMAIN rows : rows[i] = Row(p)'
  <2> SUFFICES ASSUME NEW p \in Present(c)'
               PROVE  \E i \in DOMAIN rows : rows[i] = Row(p)'
    OBVIOUS
  <2>1. p \in Present(c) /\ entity'[p].videoEnabled = entity[p].videoEnabled
    BY DEF Quiet, Calm
  <2>2. Row(p)' = Row(p)
    BY <2>1 DEF Row
  <2> QED
    BY <2>1, <2>2 DEF Complete
<1>4. ASSUME NEW packet, packet.kind \notin ViewKinds
      PROVE  Handle(rows, packet) = rows /\ Orderly(c, rows, packet)
  BY <1>4 DEF Handle, Orderly, ViewKinds, VideoKinds
<1> QED
  BY <1>2, <1>3, <1>4 DEF Follows

LEMMA FollowsMeets ==
  ASSUME SafetyInv, SafetyInv', Next, NEW c \in sessions', NEW d \in ClientId,
         Meets(c, d), NEW rows \in Seq(RowType), Single(c, rows), Known(c, rows),
         Complete(c, rows), NEW packet \in PacketType,
         packet.kind = "notify.clientjoinedchannel", packet.client = Row(d)'
  PROVE  Follows(c, rows, packet)
<1>0. PICK row : row = Row(d)'
  OBVIOUS
<1> DEFINE after == Append(rows, row)
           n == Len(rows)
<1>1. row.id = d /\ row \in RowType
  BY <1>0 DEF Row, PacketType
<1>2. n \in Nat /\ DOMAIN rows = 1..n /\ \A i \in 1..n : rows[i] \in RowType
  BY LenProperties
<1>3. /\ after \in Seq(RowType) /\ Len(after) = n + 1
      /\ \A i \in 1..n : after[i] = rows[i]
      /\ after[n + 1] = row
  BY <1>1, AppendProperties
<1>4. Handle(rows, packet) = after
  BY <1>0 DEF Handle, AddClient
<1> HIDE DEF after
<1>5. DOMAIN after = 1..(n + 1)
  BY <1>3, LenProperties
<1>6. \A i \in 1..n : rows[i].id # d
  BY <1>2, NoRowOfStranger DEF Meets
<1>7. Single(c, after)
  <2> SUFFICES ASSUME NEW i \in 1..(n + 1), NEW j \in 1..(n + 1),
                      after[i].id = after[j].id, after[i].id # c
               PROVE  i = j
    BY <1>5 DEF Single
  <2>1. CASE i \in 1..n /\ j \in 1..n
    BY <1>2, <1>3, <2>1 DEF Single
  <2>2. CASE i = n + 1 /\ j = n + 1
    BY <2>2
  <2>3. CASE (i = n + 1 /\ j \in 1..n) \/ (i \in 1..n /\ j = n + 1)
    BY <1>1, <1>3, <1>6, <2>3
  <2> QED
    BY <1>2, <2>1, <2>2, <2>3
<1>8. ASSUME NEW i \in 1..(n + 1), after[i].id # c
      PROVE  KnownId(c, after[i].id)'
  <2>1. CASE i \in 1..n
    <3>1. rows[i].id \in ClientId /\ after[i] = rows[i]
      BY <1>2, <1>3, <2>1 DEF RowType
    <3>2. KnownId(c, rows[i].id)
      BY <1>2, <1>8, <2>1, <3>1 DEF Known
    <3> QED
      BY <3>1, <3>2, KnownStep
  <2>2. CASE i = n + 1
    <3>1. after[i].id = d
      BY <1>1, <1>3, <2>2
    <3>2. d <= nextClientId'
      BY DEF Meets, SafetyInv, TypeOK
    <3> QED
      BY <3>1, <3>2 DEF KnownId, Meets
  <2> QED
    BY <1>2, <2>1, <2>2
<1>9. ASSUME NEW p \in Present(c)'
      PROVE  \E i \in 1..(n + 1) : after[i] = Row(p)'
  <2>1. CASE p = d
    BY <1>0, <1>2, <1>3, <2>1
  <2>2. CASE p \in Present(c) /\ entity'[p].videoEnabled = entity[p].videoEnabled
    <3>1. Row(p)' = Row(p)
      BY <2>2 DEF Row
    <3>2. PICK i \in 1..n : rows[i] = Row(p)
      BY <1>2, <2>2 DEF Complete
    <3> QED
      BY <1>2, <1>3, <3>1, <3>2
  <2> QED
    BY <2>1, <2>2 DEF Meets
<1>10. Orderly(c, rows, packet)
  BY DEF Orderly, VideoKinds
<1> QED
  BY <1>4, <1>5, <1>7, <1>8, <1>9, <1>10 DEF Follows

LEMMA FollowsLoses ==
  ASSUME SafetyInv, SafetyInv', Next, NEW c \in sessions', NEW d \in ClientId,
         Loses(c, d), NEW rows \in Seq(RowType), Single(c, rows), Known(c, rows),
         Complete(c, rows), NEW packet \in PacketType,
         packet.kind = "notify.clientdisconnected", packet.client = Row(d)'
  PROVE  Follows(c, rows, packet)
<1>0. PICK row : row = Row(d)'
  OBVIOUS
<1> DEFINE after == RemoveClient(rows, row)
<1>1. row.id = d /\ row \in RowType /\ d # c
  BY <1>0 DEF Row, PacketType, Loses
<1>2. Handle(rows, packet) = after
  BY <1>0 DEF Handle
<1>3. /\ \A i \in DOMAIN after :
           \E j \in DOMAIN rows : after[i] = rows[j] /\ rows[j].id # d
      /\ \A j \in DOMAIN rows : rows[j].id # d =>
           \E i \in DOMAIN after : after[i] = rows[j]
      /\ Single(c, after)
  BY <1>1, RemoveRows
<1> HIDE DEF after
<1>4. ASSUME NEW i \in DOMAIN after, after[i].id # c
      PROVE  KnownId(c, after[i].id)'
  <2>1. PICK j \in DOMAIN rows : after[i] = rows[j]
    BY <1>3
  <2>2. rows[j].id \in ClientId
    <3>1. \A k \in DOMAIN rows : rows[k] \in RowType
      BY LenProperties
    <3> QED
      BY <3>1 DEF RowType
  <2>3. KnownId(c, rows[j].id)
    BY <1>4, <2>1 DEF Known
  <2> QED
    BY <2>1, <2>2, <2>3, KnownStep
<1>5. ASSUME NEW p \in Present(c)'
      PROVE  \E i \in DOMAIN after : after[i] = Row(p)'
  <2>1. /\ p # d /\ p \in Present(c)
        /\ entity'[p].videoEnabled = entity[p].videoEnabled
    BY DEF Loses, Calm
  <2>2. Row(p)' = Row(p) /\ Row(p).id = p
    BY <2>1 DEF Row
  <2>3. PICK j \in DOMAIN rows : rows[j] = Row(p)
    BY <2>1 DEF Complete
  <2> QED
    BY <1>3, <2>1, <2>2, <2>3
<1>6. Orderly(c, rows, packet)
  BY <1>0, <1>1 DEF Orderly, VideoKinds
<1> QED
  BY <1>2, <1>3, <1>4, <1>5, <1>6 DEF Follows

LEMMA FollowsSees ==
  ASSUME SafetyInv, SafetyInv', Next, NEW c \in sessions', NEW d \in ClientId,
         NEW kind \in VideoKinds, Sees(c, d, kind), NEW rows \in Seq(RowType),
         Single(c, rows), Known(c, rows), Complete(c, rows),
         NEW packet \in PacketType, packet.kind = kind, packet.client = Row(d)'
  PROVE  Follows(c, rows, packet)
<1>0. PICK row : row = Row(d)'
  OBVIOUS
<1> DEFINE after == UpdateClient(rows, row)
<1>1. /\ row.id = d /\ row \in RowType /\ d # c
      /\ row.video = (kind = "notify.clientvideoenabled")
  BY <1>0 DEF Row, PacketType, Sees, Present
<1>2. Handle(rows, packet) = after
  BY <1>0 DEF Handle, VideoKinds
<1>3. /\ DOMAIN after = DOMAIN rows
      /\ \A i \in DOMAIN rows :
           after[i] = IF rows[i].id = d THEN row ELSE rows[i]
  BY <1>1, UpdateRows
<1> HIDE DEF after
<1>4. \A i \in DOMAIN rows : rows[i].id \in ClientId /\ after[i].id = rows[i].id
  <2>1. \A i \in DOMAIN rows : rows[i] \in RowType
    BY LenProperties
  <2> QED
    BY <1>1, <1>3, <2>1 DEF RowType
<1>5. Single(c, after)
  BY <1>3, <1>4 DEF Single
<1>6. ASSUME NEW i \in DOMAIN after, after[i].id # c
      PROVE  KnownId(c, after[i].id)'
  <2>1. after[i].id = rows[i].id /\ rows[i].id \in ClientId /\ i \in DOMAIN rows
    BY <1>3, <1>4
  <2>2. KnownId(c, rows[i].id)
    BY <1>6, <2>1 DEF Known
  <2> QED
    BY <2>1, <2>2, KnownStep
<1>7. ASSUME NEW p \in Present(c)'
      PROVE  \E i \in DOMAIN after : after[i] = Row(p)'
  <2>1. p \in Present(c)
    BY DEF Sees
  <2>2. PICK j \in DOMAIN rows : rows[j] = Row(p)
    BY <2>1 DEF Complete
  <2>3. rows[j].id = p
    BY <2>2 DEF Row
  <2>4. CASE p = d
    <3>1. after[j] = row
      BY <1>3, <2>2, <2>3, <2>4
    <3> QED
      BY <1>0, <1>3, <2>2, <2>4, <3>1
  <2>5. CASE p # d
    <3>1. Row(p)' = Row(p)
      BY <2>5 DEF Sees, Row
    <3>2. after[j] = rows[j]
      BY <1>3, <2>2, <2>3, <2>5
    <3> QED
      BY <1>3, <2>2, <3>1, <3>2
  <2> QED
    BY <2>4, <2>5
<1>8. \E i \in DOMAIN rows : rows[i].id = d
  <2>1. PICK j \in DOMAIN rows : rows[j] = Row(d)
    BY DEF Complete, Sees
  <2> QED
    BY <2>1 DEF Row
<1>9. Orderly(c, rows, packet)
  BY <1>0, <1>1, <1>8 DEF Orderly, VideoKinds
<1> QED
  BY <1>2, <1>5, <1>6, <1>7, <1>9 DEF Follows

\* The client's own join: the rows so far can only be about clients that left.
LEMMA FollowsEnters ==
  ASSUME SafetyInv, SafetyInv', Next, NEW c \in sessions',
         client2channels[c] = {}, NEW roster \in SUBSET ClientId,
         Present(c)' \subseteq roster, roster \subseteq sessions',
         roster \ {c} \subseteq SiblingClientIds(c)',
         NEW rows \in Seq(RowType), Single(c, rows), Known(c, rows),
         NEW packet \in PacketType, packet.kind = "joined",
         packet.participants = {Row(p)' : p \in roster}
  PROVE  Follows(c, rows, packet)
<1>0. PICK members : members = {Row(p)' : p \in roster}
  OBVIOUS
<1> DEFINE new == SetToSeq(members)
           n == Len(rows)
           after == rows \o new
<1>1. members \in SUBSET RowType
  BY <1>0 DEF PacketType
<1>2. /\ new \in Seq(RowType)
      /\ \A r \in members : \E i \in DOMAIN new : new[i] = r
      /\ \A i, j \in DOMAIN new : new[i] = new[j] => i = j
      /\ \A i \in DOMAIN new : new[i] \in members
  BY <1>1, MembersType
<1>3. Handle(rows, packet) = after
  BY <1>0 DEF Handle, OnJoinChannelFinished
<1> HIDE DEF new
<1> DEFINE k == Len(new)
<1>4. /\ n \in Nat /\ DOMAIN rows = 1..n /\ \A i \in 1..n : rows[i] \in RowType
      /\ k \in Nat /\ DOMAIN new = 1..k
  BY <1>2, LenProperties
<1>5. /\ after \in Seq(RowType) /\ Len(after) = n + k
      /\ \A i \in 1..(n + k) : after[i] = IF i <= n THEN rows[i] ELSE new[i - n]
  BY <1>2, ConcatProperties
<1> HIDE DEF after
<1>6. DOMAIN after = 1..(n + k)
  BY <1>5, LenProperties
<1> HIDE DEF n, k
<1>7. \A i \in 1..k : \E p \in roster : new[i] = Row(p)' /\ new[i].id = p
  <2> SUFFICES ASSUME NEW i \in 1..k
               PROVE  \E p \in roster : new[i] = Row(p)' /\ new[i].id = p
    OBVIOUS
  <2>1. new[i] \in members
    BY <1>2, <1>4
  <2>2. PICK p \in roster : new[i] = Row(p)'
    BY <1>0, <2>1
  <2> QED
    BY <2>2 DEF Row
<1>8. \A i \in 1..n : rows[i].id = c \/ rows[i].id \notin roster
  <2>1. SiblingClientIds(c) = {}
    BY DEF SiblingClientIds
  <2> SUFFICES ASSUME NEW i \in 1..n, rows[i].id # c, rows[i].id \in roster
               PROVE  FALSE
    OBVIOUS
  <2>2. PICK d : d = rows[i].id
    OBVIOUS
  <2>3. d \in sessions' /\ d # c /\ d \notin SiblingClientIds(c)
    BY <2>1, <2>2
  <2> QED
    BY <1>4, <2>2, <2>3, NoRowOfStranger
<1>9. \A i \in 1..(n + k) :
        \/ i \in 1..n /\ after[i] = rows[i]
        \/ i - n \in 1..k /\ after[i] = new[i - n]
  BY <1>4, <1>5
<1>10. Single(c, after)
  <2> SUFFICES ASSUME NEW i \in 1..(n + k), NEW j \in 1..(n + k),
                      after[i].id = after[j].id, after[i].id # c
               PROVE  i = j
    BY <1>6 DEF Single
  <2>1. CASE i \in 1..n /\ after[i] = rows[i] /\ j \in 1..n /\ after[j] = rows[j]
    BY <1>4, <2>1 DEF Single
  <2>2. CASE i - n \in 1..k /\ after[i] = new[i - n] /\ j - n \in 1..k /\ after[j] = new[j - n]
    <3>1. new[i - n] = new[j - n]
      BY <1>7, <2>2
    <3>2. i - n = j - n
      BY <1>2, <1>4, <2>2, <3>1
    <3> QED
      BY <1>4, <3>2
  <2>3. CASE i \in 1..n /\ after[i] = rows[i] /\ j - n \in 1..k /\ after[j] = new[j - n]
    BY <1>7, <1>8, <2>3
  <2>4. CASE i - n \in 1..k /\ after[i] = new[i - n] /\ j \in 1..n /\ after[j] = rows[j]
    BY <1>7, <1>8, <2>4
  <2> QED
    BY <1>9, <2>1, <2>2, <2>3, <2>4
<1>11. ASSUME NEW i \in 1..(n + k), after[i].id # c
       PROVE  KnownId(c, after[i].id)'
  <2>1. CASE i \in 1..n /\ after[i] = rows[i]
    <3>1. rows[i].id \in ClientId /\ i \in DOMAIN rows
      BY <1>4, <2>1 DEF RowType
    <3>2. KnownId(c, rows[i].id)
      BY <1>11, <2>1, <3>1 DEF Known
    <3> QED
      BY <2>1, <3>1, <3>2, KnownStep
  <2>2. CASE i - n \in 1..k /\ after[i] = new[i - n]
    <3>1. PICK q : q = after[i].id
      OBVIOUS
    <3>2. q \in roster
      BY <1>7, <2>2, <3>1
    <3>3. q \in sessions' /\ q \in SiblingClientIds(c)'
      BY <1>11, <3>1, <3>2
    <3>4. q <= nextClientId'
      BY <3>3 DEF SafetyInv, TypeOK
    <3>5. KnownId(c, q)'
      BY <3>3, <3>4 DEF KnownId
    <3> QED
      BY <3>1, <3>5
  <2> QED
    BY <1>9, <2>1, <2>2
<1>12. ASSUME NEW p \in Present(c)'
       PROVE  \E i \in 1..(n + k) : after[i] = Row(p)'
  <2>1. Row(p)' \in members
    BY <1>0
  <2>2. PICK i \in 1..k : new[i] = Row(p)'
    BY <1>2, <1>4, <2>1
  <2>3. i + n \in 1..(n + k) /\ ~(i + n <= n) /\ (i + n) - n = i
    BY <1>4
  <2> QED
    BY <1>5, <2>2, <2>3 DEF n, k
<1>13. Orderly(c, rows, packet)
  BY DEF Orderly, VideoKinds
<1> QED
  BY <1>3, <1>6, <1>10, <1>11, <1>12, <1>13 DEF Follows

\* What a step puts on the connection of a client that stays connected leads
\* from good rows to good rows.
LEMMA RowsStep ==
  ASSUME SafetyInv, SafetyInv', LevelsDefault, JoinsOnce, ServerStep,
         NEW c \in Connected, c \in Connected',
         NEW rows \in Seq(RowType), Single(c, rows), Known(c, rows),
         Complete(c, rows)
  PROVE  \/ /\ Delivered(c) = <<>>
            /\ \A i \in DOMAIN rows : rows[i].id # c => KnownId(c, rows[i].id)'
            /\ \A p \in Present(c)' : \E i \in DOMAIN rows : rows[i] = Row(p)'
         \/ \E packet \in PacketType :
              /\ Delivered(c) = <<packet>>
              /\ Follows(c, rows, packet)
              /\ packet.kind = "joined" =>
                   client2channels[c] = {} /\ client2channels'[c] # {}
<1>1. /\ Next /\ c \in sessions' /\ MapsType' /\ sent' \subseteq MessageType
      /\ TypeOK'
  BY DEF ServerStep, Connected, SafetyInv, TypeOK, MapsType
<1>2. \/ Delivered(c) = <<>> /\ \A m \in sent' : m.to # c
      \/ \E m \in sent' : m.to = c /\ Delivered(c) = <<Packet(m)'>>
  BY <1>1, DeliveredCases
<1>3. ASSUME NEW m \in sent', m.to = c
      PROVE  \E packet \in PacketType :
               /\ Delivered(c) = <<packet>>
               /\ packet.kind = m.kind
               /\ packet.client = Row(m.about)'
               /\ packet.participants = {Row(p)' : p \in m.roster}
  <2>1. PICK x \in sent' : x.to = c /\ Delivered(c) = <<Packet(x)'>>
    BY <1>2, <1>3
  <2>2. x = m
    BY <1>1, <1>3, <2>1, OneEach
  <2>3. PICK packet : packet = Packet(m)'
    OBVIOUS
  <2>4. packet \in PacketType
    BY <1>1, <2>3, PacketIsTyped
  <2>5. packet = [kind |-> m.kind, client |-> Row(m.about)',
                  participants |-> {Row(p)' : p \in m.roster}]
    BY <2>3 DEF Packet
  <2>6. Delivered(c) = <<packet>>
    BY <2>1, <2>2, <2>3
  <2> QED
    BY <2>4, <2>5, <2>6
<1>4. CASE Quiet(c)
  <2>1. CASE Delivered(c) = <<>>
    BY <1>1, <1>4, <2>1, FollowsQuiet
  <2>2. CASE \E m \in sent' : m.to = c
    <3>1. PICK m \in sent' : m.to = c
      BY <2>2
    <3>2. PICK packet \in PacketType :
            Delivered(c) = <<packet>> /\ packet.kind = m.kind
      BY <1>3, <3>1
    <3>3. packet.kind \notin ViewKinds /\ packet.kind # "joined"
      BY <1>4, <3>1, <3>2 DEF Quiet, ViewKinds
    <3>4. Follows(c, rows, packet)
      BY <1>1, <1>4, <3>3, FollowsQuiet
    <3> QED
      BY <3>2, <3>3, <3>4
  <2> QED
    BY <1>2, <2>1, <2>2
<1>5. CASE Enters(c)
  <2>1. PICK m \in sent' :
          /\ m.kind = "joined" /\ m.to = c
          /\ Present(c)' \subseteq m.roster
          /\ m.roster \subseteq sessions'
          /\ m.roster \ {c} \subseteq SiblingClientIds(c)'
    BY <1>5 DEF Enters
  <2>2. PICK packet \in PacketType :
          /\ Delivered(c) = <<packet>>
          /\ packet.kind = "joined"
          /\ packet.participants = {Row(p)' : p \in m.roster}
    BY <1>3, <2>1
  <2>3. PICK roster : roster = m.roster
    OBVIOUS
  <2>4. roster \in SUBSET ClientId
    BY <1>1, <2>3 DEF MessageType
  <2>5. Follows(c, rows, packet)
    BY <1>1, <1>5, <2>1, <2>2, <2>3, <2>4, FollowsEnters DEF Enters
  <2> QED
    BY <1>5, <2>2, <2>5 DEF Enters
<1>6. ASSUME NEW d \in ClientId, NEW kind, Message(kind, c, d) \in sent'
      PROVE  \E packet \in PacketType :
               /\ Delivered(c) = <<packet>>
               /\ packet.kind = kind
               /\ packet.client = Row(d)'
  <2>1. PICK m \in sent' : m = Message(kind, c, d)
    BY <1>6
  <2>2. m.to = c /\ m.kind = kind /\ m.about = d
    BY <2>1 DEF Message
  <2> QED
    BY <1>3, <2>2
<1>7. ASSUME NEW d \in ClientId, Meets(c, d)
      PROVE  \E packet \in PacketType :
               /\ Delivered(c) = <<packet>>
               /\ Follows(c, rows, packet) /\ packet.kind # "joined"
  BY <1>1, <1>6, <1>7, FollowsMeets DEF Meets
<1>8. ASSUME NEW d \in ClientId, Loses(c, d)
      PROVE  \E packet \in PacketType :
               /\ Delivered(c) = <<packet>>
               /\ Follows(c, rows, packet) /\ packet.kind # "joined"
  BY <1>1, <1>6, <1>8, FollowsLoses DEF Loses
<1>9. ASSUME NEW d \in ClientId, NEW kind \in VideoKinds, Sees(c, d, kind)
      PROVE  \E packet \in PacketType :
               /\ Delivered(c) = <<packet>>
               /\ Follows(c, rows, packet) /\ packet.kind # "joined"
  <2>1. Message(kind, c, d) \in sent' /\ kind # "joined"
    BY <1>9 DEF Sees, VideoKinds
  <2> QED
    BY <1>1, <1>6, <1>9, <2>1, FollowsSees
<1>10. Effect(c)
  BY EffectStep
<1> QED
  BY <1>4, <1>5, <1>7, <1>8, <1>9, <1>10 DEF Effect

(* Reading an inbox *)

\* g lists the rows of a client that shows v and reads q message by message.
Reads(q, v, g) ==
  /\ g \in [0..Len(q) -> Seq(RowType)]
  /\ g[0] = v
  /\ \A k \in 1..Len(q) : g[k] = Handle(g[k - 1], q[k])

\* At no moment of it a client is listed twice or a message finds no row.
Fine(c, q, g) ==
  /\ \A k \in 0..Len(q) : Single(c, g[k])
  /\ \A k \in 1..Len(q) : Orderly(c, g[k - 1], q[k])

LEMMA ReadsEmpty ==
  ASSUME NEW c, NEW v \in Seq(RowType), Single(c, v)
  PROVE  \E g : Reads(<<>>, v, g) /\ Fine(c, <<>>, g) /\ g[Len(<<>>)] = v
<1> DEFINE g == [k \in 0..0 |-> v]
<1>1. Len(<<>>) = 0
  BY EmptySeq
<1>2. Reads(<<>>, v, g) /\ Fine(c, <<>>, g) /\ g[0] = v
  BY <1>1 DEF Reads, Fine
<1> QED
  BY <1>1, <1>2

LEMMA ReadsAppend ==
  ASSUME NEW c, NEW q \in Seq(PacketType), NEW v, NEW g, Reads(q, v, g),
         Fine(c, q, g), NEW packet \in PacketType,
         Orderly(c, g[Len(q)], packet), Single(c, Handle(g[Len(q)], packet))
  PROVE  LET longer == q \o <<packet>>
         IN  \E h : /\ Reads(longer, v, h) /\ Fine(c, longer, h)
                    /\ h[Len(longer)] = Handle(g[Len(q)], packet)
<1> DEFINE longer == q \o <<packet>>
           one == <<packet>>
           n == Len(q)
           last == Handle(g[n], packet)
           h == [k \in 0..(n + 1) |-> IF k <= n THEN g[k] ELSE last]
<1>1. one \in Seq(PacketType) /\ Len(one) = 1 /\ one[1] = packet
  OBVIOUS
<1> HIDE DEF one
<1>2. /\ q \o one \in Seq(PacketType) /\ Len(q \o one) = Len(q) + Len(one)
      /\ \A i \in 1..(Len(q) + Len(one)) :
           (q \o one)[i] = IF i <= Len(q) THEN q[i] ELSE one[i - Len(q)]
  BY <1>1, ConcatProperties
<1>3. n \in Nat
  BY LenProperties
<1>4. /\ Len(longer) = n + 1
      /\ \A i \in 1..n : longer[i] = q[i]
      /\ longer[n + 1] = packet
  <2>1. longer = q \o one
    BY DEF one
  <2> HIDE DEF longer
  <2> QED
    BY <1>1, <1>2, <1>3, <2>1
<1> HIDE DEF longer
<1>5. /\ g \in [0..n -> Seq(RowType)] /\ g[0] = v
      /\ \A k \in 1..n : g[k] = Handle(g[k - 1], q[k])
      /\ \A k \in 0..n : Single(c, g[k])
      /\ \A k \in 1..n : Orderly(c, g[k - 1], q[k])
  BY DEF Reads, Fine
<1> HIDE DEF n
<1>6. last \in Seq(RowType)
  <2>1. g[n] \in Seq(RowType)
    BY <1>3, <1>5
  <2> QED
    BY <2>1, HandleType
<1>7. Single(c, last) /\ Orderly(c, g[n], packet)
  BY DEF n
<1> HIDE DEF last
<1>8. /\ h \in [0..(n + 1) -> Seq(RowType)]
      /\ \A k \in 0..n : h[k] = g[k]
      /\ h[n + 1] = last
  BY <1>3, <1>5, <1>6
<1> HIDE DEF h
<1>9. ASSUME NEW k \in 1..(n + 1)
      PROVE  h[k] = Handle(h[k - 1], longer[k]) /\ Orderly(c, h[k - 1], longer[k])
  <2>1. CASE k \in 1..n
    <3>1. k \in 0..n /\ k - 1 \in 0..n
      BY <1>3, <2>1
    <3>2. h[k] = g[k] /\ h[k - 1] = g[k - 1] /\ longer[k] = q[k]
      BY <1>4, <1>8, <2>1, <3>1
    <3> QED
      BY <1>5, <2>1, <3>2
  <2>2. CASE k = n + 1
    <3>1. h[k] = last /\ h[k - 1] = g[n] /\ longer[k] = packet
      BY <1>3, <1>4, <1>8, <2>2
    <3> QED
      BY <1>7, <3>1 DEF last
  <2> QED
    BY <1>3, <2>1, <2>2
<1>10. ASSUME NEW k \in 0..(n + 1)
       PROVE  Single(c, h[k])
  <2>1. CASE k \in 0..n
    BY <1>5, <1>8, <2>1
  <2>2. CASE k = n + 1
    BY <1>7, <1>8, <2>2
  <2> QED
    BY <1>3, <2>1, <2>2
<1>11. h[0] = v
  BY <1>3, <1>5, <1>8
<1>12. Reads(longer, v, h) /\ Fine(c, longer, h)
  BY <1>4, <1>8, <1>9, <1>10, <1>11 DEF Reads, Fine
<1>13. h[Len(longer)] = Handle(g[Len(q)], packet)
  BY <1>4, <1>8 DEF last, n
<1> QED
  BY <1>12, <1>13 DEF longer

LEMMA ReadsTail ==
  ASSUME NEW c, NEW q \in Seq(PacketType), q # <<>>, NEW v, NEW g, Reads(q, v, g),
         Fine(c, q, g)
  PROVE  \E h : /\ Reads(Tail(q), Handle(v, Head(q)), h)
                /\ Fine(c, Tail(q), h)
                /\ h[Len(Tail(q))] = g[Len(q)]
<1> DEFINE n == Len(q)
           rest == Tail(q)
           h == [k \in 0..(n - 1) |-> g[k + 1]]
<1>1. n \in Nat /\ n # 0
  BY EmptySeq, LenProperties
<1>2. Len(rest) = n - 1 /\ \A i \in 1..(n - 1) : rest[i] = q[i + 1]
  BY HeadTailProperties
<1>3. Head(q) = q[1]
  OBVIOUS
<1> HIDE DEF rest
<1>4. /\ g \in [0..n -> Seq(RowType)] /\ g[0] = v
      /\ \A k \in 1..n : g[k] = Handle(g[k - 1], q[k])
      /\ \A k \in 0..n : Single(c, g[k])
      /\ \A k \in 1..n : Orderly(c, g[k - 1], q[k])
  BY DEF Reads, Fine
<1>5. h \in [0..(n - 1) -> Seq(RowType)] /\ \A k \in 0..(n - 1) : h[k] = g[k + 1]
  BY <1>1, <1>4
<1> HIDE DEF n, h
<1>6. h[0] = Handle(v, Head(q))
  <2>1. 1 \in 1..n /\ 0 \in 0..(n - 1) /\ 1 - 1 = 0 /\ 0 + 1 = 1
    BY <1>1
  <2> QED
    BY <1>3, <1>4, <1>5, <2>1
<1>7. ASSUME NEW k \in 1..(n - 1)
      PROVE  h[k] = Handle(h[k - 1], rest[k]) /\ Orderly(c, h[k - 1], rest[k])
  <2>1. k + 1 \in 1..n /\ (k + 1) - 1 = k /\ k - 1 \in 0..(n - 1) /\ (k - 1) + 1 = k
        /\ k \in 0..(n - 1)
    BY <1>1
  <2>2. h[k] = g[k + 1] /\ h[k - 1] = g[k] /\ rest[k] = q[k + 1]
    BY <1>2, <1>5, <2>1
  <2> QED
    BY <1>4, <2>1, <2>2
<1>8. ASSUME NEW k \in 0..(n - 1)
      PROVE  Single(c, h[k])
  BY <1>1, <1>4, <1>5
<1>9. Reads(rest, Handle(v, Head(q)), h) /\ Fine(c, rest, h)
  BY <1>2, <1>5, <1>6, <1>7, <1>8 DEF Reads, Fine
<1>10. h[Len(rest)] = g[n]
  BY <1>1, <1>2, <1>5
<1> QED
  BY <1>9, <1>10 DEF rest, n

\* A nonempty finite set of numbers has a least one.
LEMMA LeastElement ==
  ASSUME NEW D, IsFiniteSet(D), D \subseteq Nat, D # {}
  PROVE  \E x \in D : \A y \in D : x <= y
<1> DEFINE Below(x) == {y \in D : y < x}
           Belows == {Below(x) : x \in D}
<1>1. IsWellFoundedOn(StrictSubsetOrdering(D), FiniteSubsetsOf(D))
  BY FS_StrictSubsetOrderingWellFounded
<1>2. Belows \subseteq FiniteSubsetsOf(D) /\ Belows # {}
  <2>1. Belows \subseteq FiniteSubsetsOf(D)
    BY FS_Subset DEF FiniteSubsetsOf
  <2>2. Belows # {}
    OBVIOUS
  <2> QED
    BY <2>1, <2>2
<1>3. PICK B \in Belows : \A C \in Belows : <<C, B>> \notin StrictSubsetOrdering(D)
  <2> HIDE DEF Belows
  <2> QED
    BY <1>1, <1>2, WFMin
<1>4. PICK x \in D : B = Below(x)
  OBVIOUS
<1>5. ASSUME NEW y \in D, y < x PROVE FALSE
  <2>1. y \in Below(x) /\ y \notin Below(y)
    BY <1>5
  <2>2. ASSUME NEW z \in D, z < y PROVE z < x
    BY <1>5, <2>2
  <2>3. Below(y) \subseteq Below(x) /\ Below(y) # Below(x)
    BY <2>1, <2>2, Zenon
  <2>4. Below(y) \subseteq D /\ Below(x) \subseteq D /\ Below(y) \in Belows
    OBVIOUS
  <2>5. <<Below(y), Below(x)>> \in StrictSubsetOrdering(D)
    <3> HIDE DEF Below
    <3> QED
      BY <2>3, <2>4 DEF StrictSubsetOrdering
  <2> QED
    BY <1>3, <1>4, <2>4, <2>5
<1> QED
  BY <1>5

\* Reading an inbox has one outcome: Settled names the last rows of any list of
\* the rows in between.
LEMMA SettledIs ==
  ASSUME NEW c \in Viewers, inbox[c] \in Seq(PacketType), NEW g,
         Reads(inbox[c], view[c], g)
  PROVE  Settled(c) = g[Len(inbox[c])]
<1> DEFINE n == Len(inbox[c])
           Next1(f) == [k \in 0..n |-> IF k = 0 THEN view[c]
                                                ELSE Handle(f[k - 1], inbox[c][k])]
           rows == CHOOSE f : f = Next1(f)
<1>1. n \in Nat
  BY LenProperties
<1>2. Reading(c) = rows
  BY DEF Reading
<1>3. g = Next1(g)
  <2>1. g = [k \in 0..n |-> g[k]]
    BY DEF Reads
  <2>2. \A k \in 0..n : g[k] = IF k = 0 THEN view[c] ELSE Handle(g[k - 1], inbox[c][k])
    BY <1>1 DEF Reads
  <2> QED
    BY <2>1, <2>2
<1>4. rows = Next1(rows)
  BY <1>3
<1> HIDE DEF rows
<1>5. \A k \in 0..n : rows[k] = IF k = 0 THEN view[c] ELSE Handle(rows[k - 1], inbox[c][k])
  BY <1>4
<1>6. \A k \in 0..n : g[k] = IF k = 0 THEN view[c] ELSE Handle(g[k - 1], inbox[c][k])
  BY <1>3
<1> HIDE DEF n
<1> DEFINE D == {k \in 0..n : rows[k] # g[k]}
<1>7. D = {}
  <2> SUFFICES ASSUME D # {} PROVE FALSE
    OBVIOUS
  <2>1. IsFiniteSet(D) /\ D \subseteq Nat
    <3>1. IsFiniteSet(0..n)
      BY <1>1, FS_Interval
    <3>2. D \subseteq 0..n
      OBVIOUS
    <3> QED
      BY <1>1, <3>1, <3>2, FS_Subset
  <2>2. PICK k \in D : \A y \in D : k <= y
    <3> HIDE DEF D
    <3> QED
      BY <2>1, LeastElement
  <2>3. k \in 0..n /\ rows[k] # g[k]
    OBVIOUS
  <2>4. k # 0
    BY <1>5, <1>6, <2>3
  <2>5. k - 1 \in 0..n /\ k - 1 \notin D
    BY <1>1, <2>2, <2>3, <2>4
  <2>6. rows[k - 1] = g[k - 1]
    BY <2>5
  <2>7. rows[k] = Handle(rows[k - 1], inbox[c][k])
    BY <1>5, <2>3, <2>4
  <2>8. g[k] = Handle(g[k - 1], inbox[c][k])
    BY <1>6, <2>3, <2>4
  <2> QED
    BY <2>3, <2>6, <2>7, <2>8
<1>8. rows[n] = g[n]
  <2>1. n \in 0..n
    BY <1>1
  <2> QED
    BY <1>7, <2>1
<1> QED
  BY <1>2, <1>8 DEF Settled, n

\* An open window does to its tiles what the list does to its rows.
LEMMA TilesFollow ==
  ASSUME NEW c, NEW rows \in Seq(RowType), Single(c, rows),
         NEW packet \in PacketType, Orderly(c, rows, packet),
         packet.kind # "joined"
  PROVE  HandleTiles(c, TilesOf(c, rows), packet) = TilesOf(c, Handle(rows, packet))
<1> DEFINE Shown(s) == {x \in ClientId : x # c /\ \E i \in DOMAIN s :
                                            s[i].id = x /\ s[i].video}
           d == packet.client.id
           after == Handle(rows, packet)
<1>1. ASSUME NEW s \in Seq(RowType) PROVE TilesOf(c, s) = Shown(s)
  <2>1. \A i \in DOMAIN s : s[i].id \in ClientId
    <3>1. \A i \in DOMAIN s : s[i] \in RowType
      BY LenProperties
    <3> QED
      BY <3>1 DEF RowType
  <2> QED
    BY <2>1 DEF TilesOf, ToSet
<1>2. packet.client \in RowType /\ d \in ClientId /\ packet.client.video \in BOOLEAN
  BY DEF PacketType, RowType
<1>3. after \in Seq(RowType)
  BY HandleType
<1>4. TilesOf(c, rows) = Shown(rows) /\ TilesOf(c, after) = Shown(after)
  BY <1>1, <1>3
<1>5. CASE packet.kind = "notify.clientjoinedchannel"
  <2> DEFINE n == Len(rows)
  <2>1. n \in Nat /\ DOMAIN rows = 1..n
    BY LenProperties
  <2>2. after = Append(rows, packet.client)
    BY <1>5 DEF Handle, AddClient
  <2>3. /\ Len(after) = n + 1
        /\ \A i \in 1..n : after[i] = rows[i]
        /\ after[n + 1] = packet.client
    BY <1>2, <2>2, AppendProperties
  <2> HIDE DEF after
  <2>4. DOMAIN after = 1..(n + 1)
    BY <1>3, <2>3, LenProperties
  <2>5. \A x \in ClientId :
          (\E i \in 1..(n + 1) : after[i].id = x /\ after[i].video)
            <=> (\/ \E i \in 1..n : rows[i].id = x /\ rows[i].video
                 \/ d = x /\ packet.client.video)
    <3>1. \A i \in 1..(n + 1) : i \in 1..n \/ i = n + 1
      BY <2>1
    <3>2. \A i \in 1..n : i \in 1..(n + 1)
      BY <2>1
    <3>3. n + 1 \in 1..(n + 1)
      BY <2>1
    <3> QED
      BY <2>3, <3>1, <3>2, <3>3
  <2>6. Shown(after) = IF d # c THEN AddTile(Shown(rows), packet.client)
                                ELSE Shown(rows)
    BY <1>2, <2>1, <2>4, <2>5 DEF AddTile
  <2>7. HandleTiles(c, Shown(rows), packet) =
          IF d # c THEN AddTile(Shown(rows), packet.client) ELSE Shown(rows)
    BY <1>5 DEF HandleTiles
  <2> QED
    BY <1>4, <2>6, <2>7 DEF after
<1>6. CASE packet.kind = "notify.clientdisconnected"
  <2>1. d # c /\ after = RemoveClient(rows, packet.client)
    BY <1>6 DEF Handle, Orderly
  <2>2. /\ \A i \in DOMAIN after :
             \E j \in DOMAIN rows : after[i] = rows[j] /\ rows[j].id # d
        /\ \A j \in DOMAIN rows : rows[j].id # d =>
             \E i \in DOMAIN after : after[i] = rows[j]
    BY <1>2, <2>1, RemoveRows
  <2> HIDE DEF after
  <2>3. Shown(after) = Shown(rows) \ {d}
    BY <2>2
  <2>4. HandleTiles(c, Shown(rows), packet) = Shown(rows) \ {d}
    BY <1>6 DEF HandleTiles, RemoveTile
  <2> QED
    BY <1>4, <2>3, <2>4 DEF after
<1>7. CASE packet.kind \in VideoKinds
  <2>1. /\ d # c /\ after = UpdateClient(rows, packet.client)
        /\ packet.client.video = (packet.kind = "notify.clientvideoenabled")
        /\ \E i \in DOMAIN rows : rows[i].id = d
    BY <1>7 DEF Handle, Orderly, VideoKinds
  <2>2. /\ DOMAIN after = DOMAIN rows
        /\ \A i \in DOMAIN rows :
             after[i] = IF rows[i].id = d THEN packet.client ELSE rows[i]
    BY <1>2, <2>1, UpdateRows
  <2> HIDE DEF after
  <2>3. PICK k \in DOMAIN rows : rows[k].id = d
    BY <2>1
  <2>4. \A x \in ClientId : x # d =>
          ((\E i \in DOMAIN after : after[i].id = x /\ after[i].video)
             <=> (\E i \in DOMAIN rows : rows[i].id = x /\ rows[i].video))
    BY <2>2
  <2>5. (\E i \in DOMAIN after : after[i].id = d /\ after[i].video)
          <=> packet.client.video
    BY <2>2, <2>3
  <2>6. CASE packet.kind = "notify.clientvideoenabled"
    <3>1. packet.client.video
      BY <2>1, <2>6
    <3>2. Shown(after) = Shown(rows) \cup {d}
      BY <1>2, <2>1, <2>4, <2>5, <3>1
    <3>3. HandleTiles(c, Shown(rows), packet) = Shown(rows) \cup {d}
      BY <2>6, <3>1 DEF HandleTiles, AddTile
    <3> QED
      BY <1>4, <3>2, <3>3 DEF after
  <2>7. CASE packet.kind = "notify.clientvideodisabled"
    <3>1. ~packet.client.video
      BY <2>1, <2>7
    <3>2. Shown(after) = Shown(rows) \ {d}
      BY <1>2, <2>1, <2>4, <2>5, <3>1
    <3>3. HandleTiles(c, Shown(rows), packet) = Shown(rows) \ {d}
      BY <2>7 DEF HandleTiles, RemoveTile
    <3> QED
      BY <1>4, <3>2, <3>3 DEF after
  <2> QED
    BY <1>7, <2>6, <2>7 DEF VideoKinds
<1>8. CASE packet.kind \notin ViewKinds
  BY <1>8 DEF Handle, HandleTiles, ViewKinds
<1> QED
  BY <1>5, <1>6, <1>7, <1>8 DEF ViewKinds, VideoKinds

-----------------------------------------------------------------------------
(* The inductive invariant *)

\* Before a client connects, nothing is on its way to it and it shows nothing;
\* nothing is on its way to one that is not connected any more.
Untouched(c) ==
  /\ c > nextClientId => view[c] = <<>> /\ screen[c] = "startup"
  /\ c \notin Connected => inbox[c] = <<>>

\* The reply to the join comes once: before the start-up is left it is the only
\* one under way, after that none is, and by then the client is in a channel.
JoinedOnce(c) ==
  /\ \A k, l \in DOMAIN inbox[c] :
       inbox[c][k].kind = "joined" /\ inbox[c][l].kind = "joined" => k = l
  /\ screen[c] # "startup" =>
       \A k \in DOMAIN inbox[c] : inbox[c][k].kind # "joined"
  /\ c \in Connected =>
       ((screen[c] # "startup" \/ \E k \in DOMAIN inbox[c] : inbox[c][k].kind = "joined")
          => client2channels[c] # {})

WindowMatches(c) == screen[c] = "window" => tiles[c] = TilesOf(c, view[c])

\* Reading what is under way never finds a client twice nor a message without
\* its row, and ends with the siblings of this very moment.
RowsInv(c) ==
  \E g, rows :
    /\ Reads(inbox[c], view[c], g)
    /\ Fine(c, inbox[c], g)
    /\ rows = g[Len(inbox[c])]
    /\ c \in Connected => Known(c, rows) /\ Complete(c, rows)

ClientInv(c) == Untouched(c) /\ JoinedOnce(c) /\ WindowMatches(c) /\ RowsInv(c)

ViewInv == LevelsDefault /\ \A c \in Viewers : ClientInv(c)

LEMMA InitInv == ViewInit => ViewInv
<1> SUFFICES ASSUME ViewInit, NEW c \in Viewers PROVE ClientInv(c)
  BY LevelsInit DEF ViewInit, ViewInv
<1>1. /\ inbox[c] = <<>> /\ view[c] = <<>> /\ screen[c] = "startup"
      /\ Connected = {}
  BY DEF ViewInit, Init, Connected
<1>2. Untouched(c) /\ WindowMatches(c)
  BY <1>1 DEF Untouched, WindowMatches
<1>3. JoinedOnce(c)
  BY <1>1 DEF JoinedOnce
<1>4. <<>> \in Seq(RowType) /\ Single(c, <<>>)
  BY EmptySeq DEF Single
<1>5. RowsInv(c)
  BY <1>1, <1>4, ReadsEmpty DEF RowsInv
<1> QED
  BY <1>2, <1>3, <1>5 DEF ClientInv

\* A message longer.
LEMMA LongerInbox ==
  ASSUME NEW q \in Seq(PacketType), NEW packet \in PacketType
  PROVE  /\ DOMAIN (q \o <<packet>>) = 1..(Len(q) + 1)
         /\ \A k \in 1..Len(q) : (q \o <<packet>>)[k] = q[k]
         /\ (q \o <<packet>>)[Len(q) + 1] = packet
<1> DEFINE one == <<packet>>
           longer == q \o one
<1>1. one \in Seq(PacketType) /\ Len(one) = 1 /\ one[1] = packet
  OBVIOUS
<1> HIDE DEF one
<1>2. /\ longer \in Seq(PacketType) /\ Len(longer) = Len(q) + Len(one)
      /\ \A i \in 1..(Len(q) + Len(one)) :
           longer[i] = IF i <= Len(q) THEN q[i] ELSE one[i - Len(q)]
  BY <1>1, ConcatProperties
<1>3. Len(q) \in Nat
  BY LenProperties
<1> HIDE DEF longer
<1>4. DOMAIN longer = 1..(Len(q) + 1)
  BY <1>1, <1>2, LenProperties
<1>5. \A k \in 1..Len(q) : longer[k] = q[k]
  BY <1>1, <1>2, <1>3
<1>6. longer[Len(q) + 1] = packet
  BY <1>1, <1>2, <1>3
<1> QED
  BY <1>4, <1>5, <1>6 DEF longer, one

\* A step of the server that ends the connection of c, or finds it ended.
LEMMA StepOffline ==
  ASSUME SafetyInv, SafetyInv', ViewTypeOK, NEW c \in Viewers, ClientInv(c),
         ServerStep, c \notin Connected'
  PROVE  ClientInv(c)'
<1>1. /\ inbox'[c] = <<>> /\ view' = view /\ screen' = screen /\ tiles' = tiles
      /\ Next /\ TypeOK /\ c \in ClientId
  BY ViewAssumption DEF ServerStep, SafetyInv
<1>2. nextClientId \in Nat /\ nextClientId' \in Nat /\ c \in Nat
      /\ nextClientId <= nextClientId'
  BY <1>1, IdStep, ClientMaps DEF ClientId
<1>3. Untouched(c)'
  BY <1>1, <1>2 DEF ClientInv, Untouched
<1>4. JoinedOnce(c)'
  BY <1>1 DEF JoinedOnce
<1>5. WindowMatches(c)'
  BY <1>1 DEF ClientInv, WindowMatches
<1>6. PICK g : Reads(inbox[c], view[c], g) /\ Fine(c, inbox[c], g)
  BY DEF ClientInv, RowsInv
<1>7. Single(c, view[c])
  <2>1. Len(inbox[c]) \in Nat
    BY LenProperties DEF ViewTypeOK
  <2> QED
    BY <1>6, <2>1 DEF Reads, Fine
<1>8. PICK v : v = view[c]
  OBVIOUS
<1>9. v \in Seq(RowType) /\ Single(c, v)
  BY <1>7, <1>8 DEF ViewTypeOK
<1>10. PICK h : Reads(<<>>, v, h) /\ Fine(c, <<>>, h) /\ h[Len(<<>>)] = v
  BY <1>9, ReadsEmpty
<1>11. RowsInv(c)'
  BY <1>1, <1>8, <1>10 DEF RowsInv
<1> QED
  BY <1>3, <1>4, <1>5, <1>11 DEF ClientInv

\* The step that accepts the connection of c.
LEMMA StepConnects ==
  ASSUME SafetyInv, SafetyInv', ViewTypeOK, NEW c \in Viewers, ClientInv(c),
         ServerStep, c \in Connected', c \notin Connected
  PROVE  ClientInv(c)'
<1>1. /\ Next /\ TypeOK /\ c \in ClientId
      /\ inbox'[c] = inbox[c] \o Delivered(c)
      /\ view' = view /\ screen' = screen /\ tiles' = tiles
  BY ViewAssumption DEF ServerStep, SafetyInv
<1>2. /\ c = nextClientId + 1 /\ nextClientId' = nextClientId + 1
      /\ sent' = {} /\ UNCHANGED channelVars
  BY <1>1, IdStep
<1>3. nextClientId \in Nat
  BY ClientMaps
<1>4. inbox[c] = <<>> /\ view[c] = <<>> /\ screen[c] = "startup"
  BY <1>2, <1>3 DEF ClientInv, Untouched
<1>5. Delivered(c) = <<>>
  BY <1>1, <1>2, DeliveredCases
<1>6. inbox'[c] = <<>>
  <2>1. <<>> \in Seq(PacketType)
    BY EmptySeq
  <2> QED
    BY <1>1, <1>4, <1>5, <2>1, ConcatEmptySeq
<1>7. Untouched(c)'
  BY <1>1, <1>2, <1>4, <1>6 DEF Untouched
<1>8. JoinedOnce(c)'
  BY <1>1, <1>4, <1>6 DEF JoinedOnce
<1>9. WindowMatches(c)'
  BY <1>1, <1>4 DEF WindowMatches
<1>10. client2channels'[c] = {}
  <2>1. c \notin sessions
    BY <1>2, <1>3, ClientMaps
  <2>2. ~entity[c].authenticated
    BY <1>1, <2>1 DEF SafetyInv, GoneLeaveNothing, NoEntity, NewClientEntity
  <2>3. client2channels[c] = {}
    BY <1>1, <2>2 DEF SafetyInv, OnlyAuthenticatedAct
  <2> QED
    BY <1>2, <2>3 DEF channelVars
<1>11. Present(c)' = {}
  BY <1>10 DEF Present, VisibleSiblingClientIds, SiblingClientIds
<1>12. PICK v : v = <<>>
  OBVIOUS
<1>13. v \in Seq(RowType) /\ Single(c, v) /\ DOMAIN v = {}
  BY <1>12, EmptySeq DEF Single
<1>14. PICK h : Reads(<<>>, v, h) /\ Fine(c, <<>>, h) /\ h[Len(<<>>)] = v
  BY <1>13, ReadsEmpty
<1>15. Known(c, v)' /\ Complete(c, v)'
  BY <1>11, <1>13 DEF Known, Complete
<1>16. RowsInv(c)'
  BY <1>1, <1>4, <1>6, <1>12, <1>14, <1>15 DEF RowsInv
<1> QED
  BY <1>7, <1>8, <1>9, <1>16 DEF ClientInv

\* A step of the server while c is connected.
LEMMA StepOnline ==
  ASSUME JoinsOnce, SafetyInv, SafetyInv', LevelsDefault, ViewTypeOK,
         NEW c \in Viewers, ClientInv(c), ServerStep, c \in Connected, c \in Connected'
  PROVE  ClientInv(c)'
<1>1. /\ Next /\ TypeOK /\ c \in ClientId /\ c \in sessions /\ c \in sessions'
      /\ inbox'[c] = inbox[c] \o Delivered(c)
      /\ view' = view /\ screen' = screen /\ tiles' = tiles
  BY ViewAssumption DEF ServerStep, SafetyInv, Connected
<1>2. PICK q : q = inbox[c]
  OBVIOUS
<1>3. PICK v : v = view[c]
  OBVIOUS
<1>4. q \in Seq(PacketType) /\ v \in Seq(RowType) /\ Len(q) \in Nat
      /\ DOMAIN q = 1..Len(q)
  BY <1>2, <1>3, LenProperties DEF ViewTypeOK
<1>5. PICK g, rows : /\ Reads(q, v, g) /\ Fine(c, q, g) /\ rows = g[Len(q)]
                     /\ Known(c, rows) /\ Complete(c, rows)
  BY <1>2, <1>3 DEF ClientInv, RowsInv
<1>6. rows \in Seq(RowType) /\ Single(c, rows)
  BY <1>4, <1>5 DEF Reads, Fine
<1>7. Untouched(c)'
  <2>1. c <= nextClientId'
    BY <1>1 DEF SafetyInv, TypeOK
  <2>2. c \in Nat /\ nextClientId' \in Nat
    BY <1>1 DEF ClientId, SafetyInv, TypeOK
  <2> QED
    BY <2>1, <2>2 DEF Untouched
<1>8. WindowMatches(c)'
  BY <1>1 DEF ClientInv, WindowMatches
<1>9. client2channels[c] # {} => client2channels'[c] # {}
  BY <1>1, SiblingsKept
<1>10. JoinedOnce(c)
  BY DEF ClientInv
<1>11. ASSUME Delivered(c) = <<>>,
              \A i \in DOMAIN rows : rows[i].id # c => KnownId(c, rows[i].id)',
              \A p \in Present(c)' : \E i \in DOMAIN rows : rows[i] = Row(p)'
       PROVE  JoinedOnce(c)' /\ RowsInv(c)'
  <2>1. inbox'[c] = q
    BY <1>1, <1>2, <1>4, <1>11, ConcatEmptySeq
  <2>2. JoinedOnce(c)'
    BY <1>1, <1>2, <1>9, <1>10, <2>1 DEF JoinedOnce
  <2>3. Known(c, rows)' /\ Complete(c, rows)'
    BY <1>11 DEF Known, Complete
  <2>4. RowsInv(c)'
    BY <1>1, <1>3, <1>5, <2>1, <2>3 DEF RowsInv
  <2> QED
    BY <2>2, <2>4
<1>12. ASSUME NEW packet \in PacketType, Delivered(c) = <<packet>>,
              Follows(c, rows, packet),
              packet.kind = "joined" =>
                client2channels[c] = {} /\ client2channels'[c] # {}
       PROVE  JoinedOnce(c)' /\ RowsInv(c)'
  <2>1. PICK longer : longer = q \o <<packet>>
    OBVIOUS
  <2>2. inbox'[c] = longer
    BY <1>1, <1>2, <1>12, <2>1
  <2>3. /\ DOMAIN longer = 1..(Len(q) + 1)
        /\ \A k \in 1..Len(q) : longer[k] = q[k]
        /\ longer[Len(q) + 1] = packet
    BY <1>4, <2>1, LongerInbox
  <2>4. \A k \in DOMAIN longer :
          \/ k \in DOMAIN q /\ longer[k] = q[k]
          \/ k = Len(q) + 1 /\ longer[k] = packet
    BY <1>4, <2>3
  <2>5. packet.kind = "joined" =>
          screen[c] = "startup" /\ \A k \in DOMAIN q : q[k].kind # "joined"
    BY <1>2, <1>10, <1>12 DEF JoinedOnce
  <2>6. JoinedOnce(c)'
    <3>1. \A k, l \in DOMAIN longer :
            longer[k].kind = "joined" /\ longer[l].kind = "joined" => k = l
      BY <1>2, <1>10, <2>4, <2>5 DEF JoinedOnce
    <3>2. screen[c] # "startup" => \A k \in DOMAIN longer : longer[k].kind # "joined"
      BY <1>2, <1>10, <2>4, <2>5 DEF JoinedOnce
    <3>3. (screen[c] # "startup" \/ \E k \in DOMAIN longer : longer[k].kind = "joined")
            => client2channels'[c] # {}
      BY <1>2, <1>9, <1>10, <1>12, <2>4 DEF JoinedOnce
    <3> QED
      BY <1>1, <2>2, <3>1, <3>2, <3>3 DEF JoinedOnce
  <2>7. PICK after : after = Handle(rows, packet)
    OBVIOUS
  <2>8. /\ Orderly(c, rows, packet) /\ Single(c, after)
        /\ \A i \in DOMAIN after : after[i].id # c => KnownId(c, after[i].id)'
        /\ \A p \in Present(c)' : \E i \in DOMAIN after : after[i] = Row(p)'
    BY <1>12, <2>7 DEF Follows
  <2>9. PICK h : Reads(longer, v, h) /\ Fine(c, longer, h) /\ h[Len(longer)] = after
    BY <1>4, <1>5, <2>1, <2>7, <2>8, ReadsAppend
  <2>10. Known(c, after)' /\ Complete(c, after)'
    BY <2>8 DEF Known, Complete
  <2>11. RowsInv(c)'
    BY <1>1, <1>3, <2>2, <2>9, <2>10 DEF RowsInv
  <2> QED
    BY <2>6, <2>11
<1>13. JoinedOnce(c)' /\ RowsInv(c)'
  BY <1>5, <1>6, <1>11, <1>12, RowsStep
<1> QED
  BY <1>7, <1>8, <1>13 DEF ClientInv

\* The client reads a message.
LEMMA StepReceive ==
  ASSUME SafetyInv, ViewTypeOK, NEW c \in Viewers, ClientInv(c), Receive(c)
  PROVE  ClientInv(c)'
<1>1. PICK q, v : q = inbox[c] /\ v = view[c]
  OBVIOUS
<1>2. /\ q \in Seq(PacketType) /\ q # <<>> /\ v \in Seq(RowType)
      /\ Len(q) \in Nat /\ DOMAIN q = 1..Len(q)
  BY <1>1, LenProperties DEF ViewTypeOK, Receive
<1>3. PICK packet, rest : packet = Head(q) /\ rest = Tail(q)
  OBVIOUS
<1>4. /\ packet \in PacketType /\ rest \in Seq(PacketType)
      /\ Len(rest) = Len(q) - 1
      /\ \A i \in 1..Len(rest) : rest[i] = q[i + 1]
      /\ packet = q[1]
  BY <1>2, <1>3, HeadTailProperties
<1>5. Len(q) # 0 /\ DOMAIN rest = 1..(Len(q) - 1)
  BY <1>2, <1>4, EmptySeq, LenProperties
<1>6. /\ UNCHANGED vars
      /\ inbox'[c] = rest
      /\ view'[c] = Handle(v, packet)
      /\ screen'[c] = IF packet.kind = "joined" /\ screen[c] = "startup"
                        THEN "dialog" ELSE screen[c]
      /\ tiles'[c] = IF screen[c] = "window"
                       THEN HandleTiles(c, tiles[c], packet) ELSE tiles[c]
  BY <1>1, <1>3 DEF Receive, ViewTypeOK
<1>7. PICK g, rows :
        /\ Reads(q, v, g) /\ Fine(c, q, g) /\ rows = g[Len(q)]
        /\ c \in Connected => Known(c, rows) /\ Complete(c, rows)
  BY <1>1 DEF ClientInv, RowsInv
<1>8. Single(c, v) /\ Orderly(c, v, packet)
  <2>1. 0 \in 0..Len(q) /\ 1 \in 1..Len(q) /\ 1 - 1 = 0
    BY <1>2, <1>5
  <2>2. g[0] = v
    BY <1>7 DEF Reads
  <2> QED
    BY <1>4, <1>7, <2>1, <2>2 DEF Fine
<1>9. \A k \in DOMAIN rest : k + 1 \in DOMAIN q /\ rest[k] = q[k + 1] /\ k + 1 # 1
  BY <1>2, <1>4, <1>5
<1>10. 1 \in DOMAIN q /\ JoinedOnce(c)
  BY <1>2, <1>5 DEF ClientInv
<1>11. c \in Connected /\ c <= nextClientId /\ c \in Nat /\ nextClientId \in Nat
  <2>1. c \in Connected
    BY <1>1, <1>2 DEF ClientInv, Untouched
  <2> QED
    BY <2>1, ClientMaps
<1>12. /\ nextClientId' = nextClientId /\ Connected' = Connected
       /\ client2channels' = client2channels
  BY <1>6 DEF vars, connectionVars, channelVars, Connected
<1>13. Untouched(c)'
  BY <1>11, <1>12 DEF Untouched
<1>14. JoinedOnce(c)'
  <2>1. \A k, l \in DOMAIN rest :
          rest[k].kind = "joined" /\ rest[l].kind = "joined" => k = l
    <3> SUFFICES ASSUME NEW k \in DOMAIN rest, NEW l \in DOMAIN rest,
                        rest[k].kind = "joined", rest[l].kind = "joined"
                 PROVE  k = l
      OBVIOUS
    <3>1. k + 1 = l + 1
      BY <1>1, <1>9, <1>10 DEF JoinedOnce
    <3> QED
      BY <1>5, <3>1
  <2>2. packet.kind = "joined" => \A k \in DOMAIN rest : rest[k].kind # "joined"
    BY <1>1, <1>4, <1>9, <1>10 DEF JoinedOnce
  <2>3. screen[c] # "startup" =>
          packet.kind # "joined" /\ \A k \in DOMAIN rest : rest[k].kind # "joined"
    BY <1>1, <1>4, <1>9, <1>10 DEF JoinedOnce
  <2>4. (screen'[c] # "startup" \/ \E k \in DOMAIN rest : rest[k].kind = "joined")
          => client2channels[c] # {}
    <3>1. screen'[c] # "startup" => screen[c] # "startup" \/ packet.kind = "joined"
      BY <1>6
    <3>2. (screen[c] # "startup" \/ \E k \in DOMAIN q : q[k].kind = "joined")
            => client2channels[c] # {}
      BY <1>1, <1>10, <1>11 DEF JoinedOnce
    <3> QED
      BY <1>4, <1>9, <1>10, <3>1, <3>2
  <2>5. screen'[c] # "startup" => \A k \in DOMAIN rest : rest[k].kind # "joined"
    BY <1>6, <2>2, <2>3
  <2> QED
    BY <1>6, <1>12, <2>1, <2>4, <2>5 DEF JoinedOnce
<1>15. WindowMatches(c)'
  <2> SUFFICES ASSUME screen'[c] = "window"
               PROVE  tiles'[c] = TilesOf(c, view'[c])
    BY DEF WindowMatches
  <2>1. screen[c] = "window"
    BY <1>6
  <2>2. packet.kind # "joined"
    BY <1>1, <1>4, <1>10, <2>1 DEF JoinedOnce
  <2>3. tiles[c] = TilesOf(c, v)
    BY <1>1, <2>1 DEF ClientInv, WindowMatches
  <2>4. HandleTiles(c, TilesOf(c, v), packet) = TilesOf(c, Handle(v, packet))
    BY <1>2, <1>4, <1>8, <2>2, TilesFollow
  <2> QED
    BY <1>6, <2>1, <2>3, <2>4
<1>16. RowsInv(c)'
  <2>1. PICK h : /\ Reads(rest, Handle(v, packet), h) /\ Fine(c, rest, h)
                 /\ h[Len(rest)] = rows
    BY <1>2, <1>3, <1>7, ReadsTail
  <2>2. Known(c, rows)' <=> Known(c, rows)
    BY <1>6 DEF vars, connectionVars, channelVars, Known, KnownId, SiblingClientIds
  <2>3. Complete(c, rows)' <=> Complete(c, rows)
    BY <1>6 DEF vars, connectionVars, channelVars, Complete, Present,
       VisibleSiblingClientIds, SiblingClientIds, IsAllowedToSee, Connected, Row,
       VisibilityLevelAllowed
  <2> QED
    BY <1>6, <1>7, <1>12, <2>1, <2>2, <2>3 DEF RowsInv
<1> QED
  BY <1>13, <1>14, <1>15, <1>16 DEF ClientInv

\* What a client is told about is unaffected by what another client does.
LEMMA StepFrame ==
  ASSUME NEW c \in Viewers, ClientInv(c), UNCHANGED vars,
         inbox'[c] = inbox[c], view'[c] = view[c],
         \/ screen'[c] = screen[c] /\ tiles'[c] = tiles[c]
         \/ /\ screen[c] = "dialog" /\ screen'[c] = "window"
            /\ tiles'[c] = TilesOf(c, view[c])
  PROVE  ClientInv(c)'
<1>1. /\ nextClientId' = nextClientId /\ Connected' = Connected
      /\ client2channels' = client2channels
  BY DEF vars, connectionVars, channelVars, Connected
<1>2. Untouched(c)'
  BY <1>1 DEF ClientInv, Untouched
<1>3. JoinedOnce(c)'
  BY <1>1 DEF ClientInv, JoinedOnce
<1>4. WindowMatches(c)'
  BY DEF ClientInv, WindowMatches
<1>5. PICK g, rows :
        /\ Reads(inbox[c], view[c], g) /\ Fine(c, inbox[c], g)
        /\ rows = g[Len(inbox[c])]
        /\ c \in Connected => Known(c, rows) /\ Complete(c, rows)
  BY DEF ClientInv, RowsInv
<1>6. Known(c, rows)' <=> Known(c, rows)
  BY DEF vars, connectionVars, channelVars, Known, KnownId, SiblingClientIds
<1>7. Complete(c, rows)' <=> Complete(c, rows)
  BY DEF vars, connectionVars, channelVars, Complete, Present,
     VisibleSiblingClientIds, SiblingClientIds, IsAllowedToSee, Connected, Row,
     VisibilityLevelAllowed
<1>8. RowsInv(c)'
  BY <1>1, <1>5, <1>6, <1>7 DEF RowsInv
<1> QED
  BY <1>2, <1>3, <1>4, <1>8 DEF ClientInv

LEMMA ViewInvStep ==
  ASSUME JoinsOnce, SafetyInv, SafetyInv', ViewTypeOK, ViewInv, [ViewNext]_allVars
  PROVE  ViewInv'
<1>1. [Next]_vars
  BY DEF ViewNext, ServerStep, Receive, OpenWindow, allVars
<1>2. LevelsDefault'
  BY <1>1, LevelsStep DEF ViewInv
<1> SUFFICES ASSUME NEW c \in Viewers PROVE ClientInv(c)'
  BY <1>2 DEF ViewInv
<1>3. ClientInv(c)
  BY DEF ViewInv
<1>4. CASE ServerStep
  BY <1>3, <1>4, StepOffline, StepConnects, StepOnline DEF ViewInv
<1>5. CASE Receive(c)
  BY <1>3, <1>5, StepReceive
<1>6. ASSUME NEW d \in Viewers, d # c, Receive(d) \/ OpenWindow(d)
      PROVE  ClientInv(c)'
  <2>1. /\ UNCHANGED vars
        /\ inbox'[c] = inbox[c] /\ view'[c] = view[c]
        /\ screen'[c] = screen[c] /\ tiles'[c] = tiles[c]
    BY <1>6 DEF Receive, OpenWindow, ViewTypeOK
  <2> QED
    BY <1>3, <2>1, StepFrame
<1>7. CASE OpenWindow(c)
  <2>1. /\ UNCHANGED vars
        /\ inbox'[c] = inbox[c] /\ view'[c] = view[c]
        /\ screen[c] = "dialog" /\ screen'[c] = "window"
        /\ tiles'[c] = TilesOf(c, view[c])
    BY <1>7 DEF OpenWindow, ViewTypeOK
  <2> QED
    BY <1>3, <2>1, StepFrame
<1>8. CASE UNCHANGED allVars
  BY <1>3, <1>8, StepFrame DEF allVars, viewVars
<1> QED
  BY <1>4, <1>5, <1>6, <1>7, <1>8 DEF ViewNext

LEMMA ViewInvHolds == ASSUME JoinsOnce PROVE ViewSpec => []ViewInv
<1>1. SafetyInv /\ SafetyInv' /\ ViewTypeOK /\ ViewInv /\ [ViewNext]_allVars
        => ViewInv'
  BY ViewInvStep
<1> QED
  BY <1>1, InitInv, ServerRuns, SafetyIsInductive, ViewTypeTheorem, PTL DEF ViewSpec

\* The list a client shows, plus what is on its way to it, has exactly one row
\* for every connected client it shares a conference with, with that client's
\* current video state, however joins, disconnects and video switches of any
\* number of clients interleave with the reading.
THEOREM ViewCompleteTheorem ==
  ASSUME JoinsOnce
  PROVE  ViewSpec => []ViewComplete
<1>1. ASSUME ViewTypeOK, ViewInv PROVE ViewComplete
  <2> SUFFICES ASSUME NEW c \in Viewers \cap Connected, NEW p \in Present(c)
               PROVE  \E i \in 1..Len(Settled(c)) :
                        RowsOf(c, p) = {i} /\ Settled(c)[i] = Row(p)
    BY DEF ViewComplete
  <2>1. inbox[c] \in Seq(PacketType) /\ Len(inbox[c]) \in Nat
    BY <1>1, LenProperties DEF ViewTypeOK
  <2>2. PICK g, rows :
          /\ Reads(inbox[c], view[c], g) /\ Fine(c, inbox[c], g)
          /\ rows = g[Len(inbox[c])]
          /\ Complete(c, rows)
    BY <1>1 DEF ViewInv, ClientInv, RowsInv
  <2>3. Settled(c) = rows
    BY <2>1, <2>2, SettledIs
  <2>4. rows \in Seq(RowType) /\ Single(c, rows)
    BY <2>1, <2>2 DEF Reads, Fine
  <2>5. DOMAIN rows = 1..Len(rows)
    BY <2>4, LenProperties
  <2>6. PICK i \in DOMAIN rows : rows[i] = Row(p)
    BY <2>2 DEF Complete
  <2>7. rows[i].id = p /\ p # c
    BY <2>6 DEF Row, Present
  <2>8. {j \in DOMAIN rows : rows[j].id = p} = {i}
    BY <2>4, <2>6, <2>7 DEF Single
  <2> QED
    BY <2>3, <2>5, <2>6, <2>8 DEF RowsOf
<1> QED
  BY <1>1, ViewTypeTheorem, ViewInvHolds, PTL

\* The tiles of an open window are those of the streaming participants in the
\* rows, although other slots feed it and it opens long after the rows began.
THEOREM TilesTheorem ==
  ASSUME JoinsOnce
  PROVE  ViewSpec => []TilesMatchRows
<1>1. ViewInv => TilesMatchRows
  BY DEF ViewInv, ClientInv, WindowMatches, TilesMatchRows
<1> QED
  BY <1>1, ViewInvHolds, PTL
================================================================================
