---------------------------- MODULE FrameChannel ----------------------------
(***************************************************************************)
(* What QCorConnection promises its users: each of the two ends of a         *)
(* connection posts frames, and the other end takes them in the order they   *)
(* were posted, each once.  A channel that is cut keeps what was on its way   *)
(* up to some point, loses the rest, and accepts nothing any more.           *)
(***************************************************************************)
EXTENDS Naturals, Sequences

CONSTANTS
  Ends,         \* the two ends of the connection
  Frame         \* the frames an end may post

VARIABLES
  line,         \* frames posted by an end and not yet taken, oldest first
  cut           \* ends whose frames are accepted no more

channelVars == <<line, cut>>

Init ==
  /\ line = [p \in Ends |-> <<>>]
  /\ cut = {}

Post(p, f) ==
  /\ p \notin cut
  /\ line' = [line EXCEPT ![p] = Append(@, f)]
  /\ UNCHANGED cut

\* The other end takes the oldest k frames.
Take(p, k) ==
  /\ k \in 1..Len(line[p])
  /\ line' = [line EXCEPT ![p] = SubSeq(@, k + 1, Len(@))]
  /\ UNCHANGED cut

\* The channels of a set of ends are cut at once.
Cut(S) ==
  /\ cut' = cut \cup S
  /\ \A p \in Ends \ S : line'[p] = line[p]
  /\ \A p \in S : \E k \in 0..Len(line[p]) : line'[p] = SubSeq(line[p], 1, k)
  /\ line' = [p \in Ends |-> line'[p]]

Next ==
  \/ \E p \in Ends, f \in Frame : Post(p, f)
  \/ \E p \in Ends : \E k \in 1..Len(line[p]) : Take(p, k)
  \/ \E S \in SUBSET Ends : Cut(S)

Spec == Init /\ [][Next]_channelVars
=============================================================================
