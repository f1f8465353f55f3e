---------------------------- MODULE Ts3CheckProofs ----------------------------
(***************************************************************************)
(* The TeamSpeak 3 check admits nobody who was not there, whatever the         *)
(* TeamSpeak server holds, refuses, greets with and changes meanwhile.  The    *)
(* invariant follows the one entry the check finds: from the list it comes     *)
(* from, through the lines that are still to be read, to the groups.  With a   *)
(* greeting of two lines every line that is read answers what was asked.       *)
(***************************************************************************)
EXTENDS Ts3Check, TLAPS

Line == [kind : {"TS3", "welcome", "items", "error"}, id : Nat,
         items : SUBSET (Visitors \cup Groups)]

\* Places of the thread before it has read a list.
Early == {"idle", "hello", "welcome", "login", "use", "clientupdate", "clientlist"}

Shapes ==
  /\ step \in Steps
  /\ wanted \in Wanted
  /\ commands \in Seq(Commands)
  /\ lines \in Seq(Line)
  /\ online \subseteq Visitors
  /\ member \subseteq Memberships

\* What is true now was true during the check.
SeenNow == online \subseteq seen.clients /\ member \subseteq seen.groups

\* The entry that was found is one the list had.
FoundWasListed ==
  found # 0 => \E v \in seen.clients : Matches(v) /\ v.dbid = found

\* Only the list has items, and before it is asked for nothing is found.
NoListYet ==
  step \in Early =>
    /\ found = 0
    /\ \A i \in DOMAIN commands :
         /\ commands[i] # "servergroups"
         /\ commands[i] = "clientlist" => step = "clientlist" /\ i = Len(commands)

\* The list is the last answer: behind its items comes at most one error line.
ListIsLast ==
  step \in Early =>
    \A i \in DOMAIN lines : lines[i].kind = "items" =>
      /\ step = "clientlist"
      /\ commands = <<>>
      /\ lines[i].items \subseteq seen.clients
      /\ i >= Len(lines) - 1
      /\ i + 1 \in DOMAIN lines => lines[i + 1].kind = "error"

\* When an entry was found, the thread is in step with the server.
AfterFound ==
  /\ step = "clientlistend" /\ found # 0 =>
       /\ commands = <<>>
       /\ Len(lines) <= 1
       /\ lines # <<>> => lines[1].kind = "error"
  /\ step = "servergroups" =>
       /\ found # 0
       /\ \A i \in DOMAIN commands : commands[i] = "servergroups"
       /\ \A i \in DOMAIN lines : lines[i].kind = "items" =>
            \A g \in lines[i].items : <<found, g>> \in seen.groups

\* Lines other than items have none.
ItemsInItems == \A i \in DOMAIN lines : lines[i].items # {} => lines[i].kind = "items"

GroupsSeen ==
  step \in {"servergroupsend", "granted"} /\ found # 0 /\ AllowedGroups # {} =>
    \E g \in AllowedGroups : <<found, g>> \in seen.groups

GrantedFound == step = "granted" => found # 0

CheckInv ==
  /\ Shapes
  /\ SeenNow
  /\ FoundWasListed
  /\ NoListYet
  /\ ListIsLast
  /\ AfterFound
  /\ ItemsInItems
  /\ GroupsSeen
  /\ GrantedFound

(* Lines and commands *)

LEMMA TailIndexes ==
  ASSUME NEW S, NEW q \in Seq(S), q # <<>>
  PROVE  /\ Tail(q) \in Seq(S) /\ Head(q) \in S
         /\ Len(q) \in Nat /\ Len(Tail(q)) = Len(q) - 1
         /\ Head(q) = q[1] /\ 1 \in DOMAIN q
         /\ \A i \in DOMAIN Tail(q) :
              i \in Nat /\ i + 1 \in DOMAIN q /\ Tail(q)[i] = q[i + 1]
OBVIOUS

\* A refusal or another error line, or items with an error line behind them.
LEMMA AnswerLines ==
  ASSUME Shapes, NEW command \in Commands, NEW answer \in Answer(command)
  PROVE  \/ \E n \in Nat : answer = <<ErrorLine(n)>>
         \/ /\ command = "clientlist"
            /\ answer = <<Items(online), ErrorLine(0)>>
         \/ /\ command = "servergroups"
            /\ answer = <<Items({m[2] : m \in {p \in member : p[1] = found}}),
                          ErrorLine(0)>>
BY DEF Answer

LEMMA LineShapes ==
  ASSUME Shapes
  PROVE  /\ \A n \in Nat : ErrorLine(n) \in Line
         /\ Items(online) \in Line
         /\ Items({m[2] : m \in {p \in member : p[1] = found}}) \in Line
         /\ \A t \in {"TS3", "welcome"} : Text(t) \in Line
BY DEF Shapes, Line, ErrorLine, Items, Text, Memberships

(* The parts that no step of the thread can disturb on its own *)

LEMMA ShapesKept ==
  ASSUME Shapes, [CheckNext]_checkVars
  PROVE  Shapes'
<1>1. ASSUME NEW verdict \in {"granted", "denied"}, Finish(verdict)
      PROVE  /\ step' \in Steps /\ commands' \in Seq(Commands) /\ lines' \in Seq(Line)
  BY <1>1 DEF Finish, Steps
<1>2. ASSUME NEW s \in Steps, Goto(s), lines # <<>>
      PROVE  /\ step' \in Steps /\ commands' \in Seq(Commands) /\ lines' \in Seq(Line)
  BY <1>2, TailIndexes DEF Goto, Shapes
<1>3. ASSUME NEW c \in Commands, Ask(c), lines # <<>>
      PROVE  /\ step' \in Steps /\ commands' \in Seq(Commands) /\ lines' \in Seq(Line)
  BY <1>3, TailIndexes DEF Ask, Shapes, Steps
<1>4. ASSUME ThreadStep
      PROVE  Shapes'
  <2>1. UNCHANGED <<wanted, online, member>>
    BY <1>4 DEF ThreadStep, Start, ReadHello, ReadWelcome, ReadResult,
       ReadClientList, ReadClientListEnd, ReadServerGroups, ReadServerGroupsEnd,
       ts3Vars
  <2>2. CASE Start
    <3>1. ASSUME NEW n \in Greetings,
                 lines' = [i \in 1..n |-> Text(IF i = 1 THEN "TS3" ELSE "welcome")]
          PROVE  lines' \in Seq(Line)
      BY <3>1, LineShapes, Ts3Assumption
    <3> QED BY <1>1, <2>1, <2>2, <3>1 DEF Start, Shapes, Steps
  <2>3. CASE ~Start
    <3>1. \/ \E verdict \in {"granted", "denied"} : Finish(verdict)
          \/ lines # <<>> /\ \E s \in {"welcome", "clientlistend", "servergroupsend"} : Goto(s)
          \/ lines # <<>> /\ \E c \in Commands : Ask(c)
      BY <1>4, <2>3 DEF ThreadStep, ReadHello, ReadWelcome, ReadResult, ReadClientList,
         ReadClientListEnd, ReadServerGroups, ReadServerGroupsEnd, ReadsAt, AfterList,
         Following, Commands
    <3> QED BY <1>1, <1>2, <1>3, <2>1, <3>1 DEF Shapes, Steps
  <2> QED BY <2>2, <2>3
<1>5. CASE Ts3Answers
  <2>1. Head(commands) \in Commands /\ commands' \in Seq(Commands)
    BY <1>5, TailIndexes DEF Ts3Answers, Shapes
  <2>2. PICK answer \in Answer(Head(commands)) : lines' = lines \o answer
    BY <1>5 DEF Ts3Answers
  <2>3. answer \in Seq(Line)
    <3>1. \A x \in Line : <<x>> \in Seq(Line)
      OBVIOUS
    <3>2. \A x, y \in Line : <<x, y>> \in Seq(Line)
      OBVIOUS
    <3> QED BY <2>1, <3>1, <3>2, AnswerLines, LineShapes
  <2> QED BY <1>5, <2>1, <2>2, <2>3 DEF Ts3Answers, Shapes, threadVars, ts3Vars
<1>6. CASE Ts3ClientMoves
  BY <1>6 DEF Ts3ClientMoves, Shapes, threadVars, wireVars
<1>7. CASE Ts3GroupChanges
  BY <1>7 DEF Ts3GroupChanges, Shapes, threadVars, wireVars
<1>8. CASE Break
  <2>1. PICK n \in 0..Len(lines) : lines' = SubSeq(lines, 1, n)
    BY <1>8 DEF Break
  <2>2. lines' \in Seq(Line)
    BY <2>1 DEF Shapes
  <2> QED BY <1>8, <2>2 DEF Break, Shapes, threadVars, ts3Vars
<1>9. CASE UNCHANGED checkVars
  BY <1>9 DEF checkVars, threadVars, wireVars, ts3Vars, Shapes
<1> QED BY <1>4, <1>5, <1>6, <1>7, <1>8, <1>9 DEF CheckNext

\* What was seen stays seen, and what is there now is seen.
LEMMA SeenKept ==
  ASSUME SeenNow, [CheckNext]_checkVars
  PROVE  /\ SeenNow'
         /\ seen.clients \subseteq seen'.clients
         /\ seen.groups \subseteq seen'.groups
         /\ wanted' = wanted
<1>1. CASE ThreadStep \/ Ts3Answers \/ Break \/ UNCHANGED checkVars
  BY <1>1 DEF ThreadStep, Start, ReadHello, ReadWelcome, ReadResult, ReadClientList,
     ReadClientListEnd, ReadServerGroups, ReadServerGroupsEnd, Ts3Answers, Break,
     checkVars, threadVars, ts3Vars, SeenNow
<1>2. CASE Ts3ClientMoves
  BY <1>2 DEF Ts3ClientMoves, SeenNow, threadVars
<1>3. CASE Ts3GroupChanges
  BY <1>3 DEF Ts3GroupChanges, SeenNow, threadVars
<1> QED BY <1>1, <1>2, <1>3 DEF CheckNext

\* A client or a group that changes, and time that passes, disturb nothing: all
\* parts of the invariant speak of what was seen.
LEMMA OutsideKeeps ==
  ASSUME CheckInv,
         \/ Ts3ClientMoves \/ Ts3GroupChanges \/ UNCHANGED checkVars
  PROVE  CheckInv'
<1>1. /\ UNCHANGED <<threadVars, wireVars>>
      /\ [CheckNext]_checkVars
  BY DEF Ts3ClientMoves, Ts3GroupChanges, checkVars, CheckNext
<1>2. /\ Shapes' /\ SeenNow'
      /\ seen.clients \subseteq seen'.clients
      /\ seen.groups \subseteq seen'.groups
  BY <1>1, ShapesKept, SeenKept DEF CheckInv
<1>3. UNCHANGED <<step, wanted, found, commands, lines>>
  BY <1>1 DEF threadVars, wireVars
<1>4. FoundWasListed'
  BY <1>2, <1>3 DEF CheckInv, FoundWasListed, Matches
<1>5. NoListYet' /\ ItemsInItems' /\ GrantedFound'
  BY <1>3 DEF CheckInv, NoListYet, ItemsInItems, GrantedFound
<1>6. ListIsLast'
  BY <1>2, <1>3 DEF CheckInv, ListIsLast
<1>7. AfterFound' /\ GroupsSeen'
  BY <1>2, <1>3 DEF CheckInv, AfterFound, GroupsSeen
<1> QED BY <1>2, <1>4, <1>5, <1>6, <1>7 DEF CheckInv

(* The TeamSpeak server *)

\* The connection breaks: what is left of the lines is a beginning of them.
LEMMA BreakKeeps ==
  ASSUME CheckInv, Break
  PROVE  CheckInv'
<1>1. /\ Shapes' /\ SeenNow'
      /\ UNCHANGED <<step, wanted, found, seen>>
      /\ commands' = <<>>
  BY ShapesKept, SeenKept DEF CheckInv, Break, CheckNext, threadVars, ts3Vars
<1>2. /\ Len(lines') \in Nat /\ Len(lines) \in Nat /\ Len(lines') <= Len(lines)
      /\ DOMAIN lines' = 1..Len(lines') /\ DOMAIN lines = 1..Len(lines)
      /\ \A i \in DOMAIN lines' : i \in DOMAIN lines /\ lines'[i] = lines[i]
  BY DEF Break, CheckInv, Shapes
<1>3. FoundWasListed' /\ GroupsSeen' /\ GrantedFound' /\ NoListYet'
  BY <1>1 DEF CheckInv, FoundWasListed, Matches, GroupsSeen, GrantedFound, NoListYet
<1>4. ListIsLast'
  BY <1>1, <1>2 DEF CheckInv, ListIsLast
<1>5. ItemsInItems'
  BY <1>2 DEF CheckInv, ItemsInItems
<1>6. AfterFound'
  <2>1. lines' # <<>> => lines # <<>> /\ lines'[1] = lines[1]
    <3>1. lines' # <<>> => 1 \in DOMAIN lines'
      BY <1>1, <1>2 DEF Shapes
    <3>2. 1 \in DOMAIN lines => lines # <<>>
      BY <1>2
    <3> QED BY <1>2, <3>1, <3>2
  <2> QED BY <1>1, <1>2, <2>1 DEF CheckInv, AfterFound
<1> QED BY <1>1, <1>3, <1>4, <1>5, <1>6 DEF CheckInv

LEMMA AnswerKeeps ==
  ASSUME CheckInv, Ts3Answers
  PROVE  CheckInv'
<1> DEFINE command == Head(commands)
<1>1. /\ Shapes' /\ SeenNow'
      /\ UNCHANGED <<step, wanted, found, seen, online, member>>
      /\ commands # <<>> /\ commands' = Tail(commands)
  BY ShapesKept, SeenKept DEF CheckInv, Ts3Answers, CheckNext, threadVars, ts3Vars
<1>2. /\ commands \in Seq(Commands) /\ command \in Commands
      /\ Len(commands) \in Nat /\ Len(commands') = Len(commands) - 1
      /\ command = commands[1] /\ 1 \in DOMAIN commands
      /\ \A i \in DOMAIN commands' :
           i \in Nat /\ i + 1 \in DOMAIN commands /\ commands'[i] = commands[i + 1]
  BY <1>1, TailIndexes DEF CheckInv, Shapes
<1>3. PICK answer \in Answer(command) : lines' = lines \o answer
  BY DEF Ts3Answers
<1>4. PICK n \in Nat : n = Len(lines) /\ lines \in Seq(Line)
  BY DEF CheckInv, Shapes
<1>5. PICK items :
        \/ items = {} /\ Len(answer) = 1 /\ answer[1].kind = "error"
             /\ answer[1].items = {} /\ answer \in Seq(Line)
        \/ /\ \/ command = "clientlist" /\ items = online
              \/ command = "servergroups"
                   /\ items = {m[2] : m \in {p \in member : p[1] = found}}
           /\ Len(answer) = 2 /\ answer \in Seq(Line)
           /\ answer[1].kind = "items" /\ answer[1].items = items
           /\ answer[2].kind = "error" /\ answer[2].items = {}
  <2>1. CASE \E k \in Nat : answer = <<ErrorLine(k)>>
    <3>1. PICK k \in Nat : answer = <<ErrorLine(k)>>
      BY <2>1
    <3>2. /\ ErrorLine(k) \in Line /\ ErrorLine(k).kind = "error"
          /\ ErrorLine(k).items = {}
      BY LineShapes DEF ErrorLine, CheckInv
    <3> QED BY <3>1, <3>2
  <2>2. ASSUME NEW s, Items(s) \in Line, answer = <<Items(s), ErrorLine(0)>>
        PROVE  /\ Len(answer) = 2 /\ answer \in Seq(Line)
               /\ answer[1].kind = "items" /\ answer[1].items = s
               /\ answer[2].kind = "error" /\ answer[2].items = {}
    <3>1. ErrorLine(0) \in Line
      BY LineShapes DEF CheckInv
    <3>2. answer[1] = Items(s) /\ answer[2] = ErrorLine(0)
      BY <2>2
    <3> QED BY <2>2, <3>1, <3>2 DEF Items, ErrorLine
  <2> QED BY <1>2, <2>1, <2>2, AnswerLines, LineShapes DEF CheckInv
<1>6. /\ Len(lines') = n + Len(answer) /\ Len(answer) \in {1, 2}
      /\ \A i \in 1..n : lines'[i] = lines[i]
      /\ \A i \in 1..Len(answer) : lines'[n + i] = answer[i]
      /\ DOMAIN lines' = 1..(n + Len(answer)) /\ DOMAIN lines = 1..n
  BY <1>3, <1>4, <1>5
<1>7. \A i \in DOMAIN lines' :
        \/ i \in DOMAIN lines /\ lines'[i] = lines[i]
        \/ i = n + 1 /\ lines'[i] = answer[1]
        \/ i = n + 2 /\ Len(answer) = 2 /\ lines'[i] = answer[2]
  BY <1>4, <1>6
<1>8. FoundWasListed' /\ GroupsSeen' /\ GrantedFound'
  BY <1>1 DEF CheckInv, FoundWasListed, Matches, GroupsSeen, GrantedFound
<1>9. ItemsInItems'
  BY <1>5, <1>7 DEF CheckInv, ItemsInItems
<1>10. NoListYet'
  BY <1>1, <1>2 DEF CheckInv, NoListYet
<1>11. ListIsLast'
  <2>1. ASSUME step \in Early, NEW i \in DOMAIN lines', lines'[i].kind = "items"
        PROVE  /\ step = "clientlist" /\ commands' = <<>>
               /\ lines'[i].items \subseteq seen.clients
               /\ i >= Len(lines') - 1
               /\ i + 1 \in DOMAIN lines' => lines'[i + 1].kind = "error"
    <3>1. i \notin DOMAIN lines
      BY <1>1, <1>7, <1>6, <1>4, <2>1 DEF CheckInv, ListIsLast
    <3>2. i = n + 1 /\ command = "clientlist" /\ items = online /\ Len(answer) = 2
          /\ lines'[i] = answer[1] /\ answer[1].items = items
      BY <1>2, <1>5, <1>7, <2>1, <3>1 DEF CheckInv, NoListYet
    <3>3. step = "clientlist" /\ Len(commands) = 1
      BY <1>2, <2>1, <3>2 DEF CheckInv, NoListYet
    <3>4. commands' = <<>>
      BY <1>1, <1>2, <3>3 DEF Shapes
    <3>5. lines'[i].items \subseteq seen.clients
      BY <3>2 DEF CheckInv, SeenNow
    <3>6. i >= Len(lines') - 1
      BY <1>4, <1>6, <3>2
    <3>7. lines'[i + 1].kind = "error"
      BY <1>4, <1>5, <1>6, <3>2
    <3> QED BY <3>3, <3>4, <3>5, <3>6, <3>7
  <2> QED BY <1>1, <2>1 DEF ListIsLast
<1>12. AfterFound'
  <2>1. ~(step = "clientlistend" /\ found # 0)
    BY <1>1 DEF CheckInv, AfterFound
  <2>2. ASSUME step = "servergroups"
        PROVE  /\ found # 0
               /\ \A i \in DOMAIN commands' : commands'[i] = "servergroups"
               /\ \A i \in DOMAIN lines' : lines'[i].kind = "items" =>
                    \A g \in lines'[i].items : <<found, g>> \in seen.groups
    <3>1. /\ found # 0 /\ command = "servergroups"
          /\ \A i \in DOMAIN commands' : commands'[i] = "servergroups"
      BY <1>2, <2>2 DEF CheckInv, AfterFound
    <3>2. ASSUME NEW g \in {m[2] : m \in {p \in member : p[1] = found}}
          PROVE  <<found, g>> \in seen.groups
      BY <3>2 DEF CheckInv, SeenNow, Shapes, Memberships
    <3>3. \A i \in DOMAIN lines' : lines'[i].kind = "items" =>
            \A g \in lines'[i].items : <<found, g>> \in seen.groups
      BY <1>5, <1>7, <2>2, <3>1, <3>2 DEF CheckInv, AfterFound
    <3> QED BY <3>1, <3>3
  <2> QED BY <1>1, <2>1, <2>2 DEF AfterFound
<1> QED BY <1>1, <1>8, <1>9, <1>10, <1>11, <1>12 DEF CheckInv

(* The thread *)

LEMMA ThreadKeeps ==
  ASSUME CheckInv, ThreadStep
  PROVE  Shapes' /\ SeenNow' /\ UNCHANGED <<wanted, seen>>
<1>1. UNCHANGED <<wanted, seen>>
  BY DEF ThreadStep, Start, ReadHello, ReadWelcome, ReadResult, ReadClientList,
     ReadClientListEnd, ReadServerGroups, ReadServerGroupsEnd, ts3Vars
<1> QED BY <1>1, ShapesKept, SeenKept DEF CheckInv, CheckNext

\* A verdict of the thread, which needs an entry and a group to admit.
LEMMA FinishKeeps ==
  ASSUME CheckInv, ThreadStep, UNCHANGED found,
         NEW verdict \in {"granted", "denied"}, Finish(verdict),
         verdict = "granted" =>
           /\ found # 0
           /\ AllowedGroups # {} => \E g \in AllowedGroups : <<found, g>> \in seen.groups
  PROVE  CheckInv'
<1>1. /\ Shapes' /\ SeenNow' /\ UNCHANGED <<wanted, seen>>
      /\ step' = verdict /\ lines' = <<>>
  BY ThreadKeeps DEF Finish
<1>2. FoundWasListed'
  BY <1>1 DEF CheckInv, FoundWasListed, Matches
<1>3. NoListYet' /\ ListIsLast' /\ AfterFound' /\ ItemsInItems'
  BY <1>1 DEF NoListYet, ListIsLast, AfterFound, ItemsInItems, Early
<1>4. GroupsSeen' /\ GrantedFound'
  BY <1>1 DEF GroupsSeen, GrantedFound
<1> QED BY <1>1, <1>2, <1>3, <1>4 DEF CheckInv

\* On its way to the list the thread reads lines without items.
LEMMA EarlyKeeps ==
  ASSUME CheckInv, ThreadStep, UNCHANGED found,
         step \in Early \ {"clientlist"}, lines # <<>>,
         NEW s \in Early \ {"idle"},
         (Goto(s) /\ s # "clientlist") \/ (Ask(s) /\ s \in Commands)
  PROVE  CheckInv'
<1>1. /\ Shapes' /\ SeenNow' /\ UNCHANGED <<wanted, seen>>
      /\ step' = s /\ lines' = Tail(lines)
  BY ThreadKeeps DEF Goto, Ask
<1>2. /\ \A i \in DOMAIN lines' : i + 1 \in DOMAIN lines /\ lines'[i] = lines[i + 1]
      /\ \A i \in DOMAIN lines : lines[i].kind # "items"
  BY <1>1, TailIndexes DEF CheckInv, Shapes, ListIsLast
<1>3. FoundWasListed' /\ GroupsSeen' /\ GrantedFound' /\ AfterFound'
  BY <1>1 DEF CheckInv, FoundWasListed, Matches, GroupsSeen, GrantedFound,
     AfterFound, Early
<1>4. ListIsLast' /\ ItemsInItems'
  BY <1>1, <1>2 DEF CheckInv, ListIsLast, ItemsInItems
<1>5. NoListYet'
  <2>1. /\ found' = 0
        /\ \A i \in DOMAIN commands : commands[i] \notin {"servergroups", "clientlist"}
    BY DEF CheckInv, NoListYet
  <2>2. CASE commands' = commands
    BY <1>1, <2>1, <2>2 DEF NoListYet
  <2>3. CASE commands' = Append(commands, s) /\ s \in Commands
    <3>1. /\ commands \in Seq(Commands) /\ Len(commands') = Len(commands) + 1
          /\ DOMAIN commands' = 1..(Len(commands) + 1)
          /\ DOMAIN commands = 1..Len(commands) /\ Len(commands) \in Nat
          /\ commands'[Len(commands) + 1] = s
          /\ \A i \in DOMAIN commands : commands'[i] = commands[i]
      BY <2>3 DEF CheckInv, Shapes
    <3>2. \A i \in DOMAIN commands' : i \in DOMAIN commands \/ i = Len(commands')
      BY <3>1
    <3>3. s # "servergroups"
      BY DEF Early
    <3> QED BY <1>1, <2>1, <3>1, <3>2, <3>3 DEF NoListYet
  <2> QED BY <2>2, <2>3 DEF Goto, Ask
<1> QED BY <1>1, <1>3, <1>4, <1>5 DEF CheckInv

LEMMA StartKeeps ==
  ASSUME CheckInv, Start
  PROVE  CheckInv'
<1>1. ThreadStep /\ UNCHANGED found
  BY DEF ThreadStep, Start
<1>2. CASE Finish("denied")
  BY <1>1, <1>2, FinishKeeps
<1>3. CASE ~Finish("denied")
  <2>1. /\ Shapes' /\ SeenNow' /\ UNCHANGED <<wanted, seen, found, commands>>
        /\ step = "idle" /\ step' = "hello"
    BY <1>1, <1>3, ThreadKeeps DEF Start
  <2>2. \A i \in DOMAIN lines' : lines'[i].kind # "items" /\ lines'[i].items = {}
    <3>1. PICK n \in Greetings :
            lines' = [i \in 1..n |-> Text(IF i = 1 THEN "TS3" ELSE "welcome")]
      BY <1>3 DEF Start
    <3>2. \A t \in {"TS3", "welcome"} : Text(t).kind # "items" /\ Text(t).items = {}
      BY DEF Text
    <3> QED BY <3>1, <3>2
  <2>3. FoundWasListed' /\ GroupsSeen' /\ GrantedFound' /\ AfterFound'
    BY <2>1 DEF CheckInv, FoundWasListed, Matches, GroupsSeen, GrantedFound, AfterFound
  <2>4. ListIsLast' /\ ItemsInItems'
    BY <2>2 DEF ListIsLast, ItemsInItems
  <2>5. NoListYet'
    BY <2>1 DEF CheckInv, NoListYet, Early
  <2> QED BY <2>1, <2>3, <2>4, <2>5 DEF CheckInv
<1> QED BY <1>2, <1>3

LEMMA EarlyReadsKeep ==
  ASSUME CheckInv, ReadHello \/ ReadWelcome \/ ReadResult
  PROVE  CheckInv'
<1>1. /\ ThreadStep /\ UNCHANGED found /\ lines # <<>>
      /\ step \in Early \ {"clientlist"}
  BY DEF ThreadStep, ReadHello, ReadWelcome, ReadResult, ReadsAt, Early
<1>2. \/ Finish("denied")
      \/ Goto("welcome")
      \/ \E s \in {"login", "use", "clientupdate", "clientlist"} : Ask(s)
  BY DEF ReadHello, ReadWelcome, ReadResult, Following
<1>3. CASE Finish("denied")
  BY <1>1, <1>3, FinishKeeps
<1>4. CASE Goto("welcome")
  BY <1>1, <1>4, EarlyKeeps DEF Early
<1>5. CASE \E s \in {"login", "use", "clientupdate", "clientlist"} : Ask(s)
  BY <1>1, <1>5, EarlyKeeps DEF Early, Commands
<1> QED BY <1>2, <1>3, <1>4, <1>5

\* An entry is found in the items of the list only, which nothing is behind but
\* an error line.
LEMMA ReadClientListKeeps ==
  ASSUME CheckInv, ReadClientList
  PROVE  CheckInv'
<1>1. ThreadStep /\ lines # <<>> /\ step = "clientlist"
  BY DEF ThreadStep, ReadClientList, ReadsAt
<1>2. CASE IsErrorLine(NextLine)
  BY <1>1, <1>2, FinishKeeps DEF ReadClientList
<1>3. CASE ~IsErrorLine(NextLine)
  <2>1. /\ Shapes' /\ SeenNow' /\ UNCHANGED <<wanted, seen, commands>>
        /\ step' = "clientlistend" /\ lines' = Tail(lines)
    BY <1>1, <1>3, ThreadKeeps DEF ReadClientList, Goto
  <2>2. /\ NextLine = lines[1] /\ 1 \in DOMAIN lines
        /\ Len(lines) \in Nat /\ Len(lines') = Len(lines) - 1
        /\ \A i \in DOMAIN lines' : i \in Nat /\ i + 1 \in DOMAIN lines
                                      /\ lines'[i] = lines[i + 1]
    BY <1>1, <2>1, TailIndexes DEF CheckInv, Shapes, NextLine
  <2>3. found = 0
    BY <1>1 DEF CheckInv, NoListYet, Early
  <2>4. CASE found' = found
    <3>1. FoundWasListed' /\ AfterFound'
      BY <2>1, <2>3, <2>4 DEF FoundWasListed, AfterFound
    <3>2. NoListYet' /\ ListIsLast' /\ GroupsSeen' /\ GrantedFound'
      BY <2>1 DEF NoListYet, ListIsLast, GroupsSeen, GrantedFound, Early
    <3>3. ItemsInItems'
      BY <2>2 DEF CheckInv, ItemsInItems
    <3> QED BY <2>1, <3>1, <3>2, <3>3 DEF CheckInv
  <2>5. CASE found' # found
    <3>1. PICK v \in NextLine.items : Matches(v) /\ found' = v.dbid
      BY <1>3, <2>5 DEF ReadClientList
    <3>2. NextLine.kind = "items"
      BY <2>2, <3>1 DEF CheckInv, ItemsInItems
    <3>3. /\ commands = <<>> /\ NextLine.items \subseteq seen.clients
          /\ 1 >= Len(lines) - 1
          /\ 2 \in DOMAIN lines => lines[2].kind = "error"
      BY <1>1, <2>2, <3>2 DEF CheckInv, ListIsLast, Early
    <3>4. FoundWasListed'
      BY <2>1, <3>1, <3>3 DEF FoundWasListed, Matches
    <3>5. lines' # <<>> => lines'[1].kind = "error"
      <4>1. lines' # <<>> => 1 \in DOMAIN lines'
        BY <2>1 DEF Shapes
      <4> QED BY <2>2, <3>3, <4>1
    <3>6. AfterFound'
      BY <2>1, <2>2, <3>3, <3>5 DEF AfterFound
    <3>7. NoListYet' /\ ListIsLast' /\ GroupsSeen' /\ GrantedFound'
      BY <2>1 DEF NoListYet, ListIsLast, GroupsSeen, GrantedFound, Early
    <3>8. ItemsInItems'
      BY <2>2 DEF CheckInv, ItemsInItems
    <3> QED BY <2>1, <3>4, <3>6, <3>7, <3>8 DEF CheckInv
  <2> QED BY <2>4, <2>5
<1> QED BY <1>2, <1>3

LEMMA ReadClientListEndKeeps ==
  ASSUME CheckInv, ReadClientListEnd
  PROVE  CheckInv'
<1>1. ThreadStep /\ UNCHANGED found /\ lines # <<>> /\ step = "clientlistend"
  BY DEF ThreadStep, ReadClientListEnd, ReadsAt
<1>2. \/ Finish("denied")
      \/ Finish("granted") /\ found # 0 /\ AllowedGroups = {}
      \/ Ask("servergroups") /\ found # 0
  BY DEF ReadClientListEnd, AfterList
<1>3. CASE Finish("denied")
  BY <1>1, <1>3, FinishKeeps
<1>4. CASE Finish("granted") /\ found # 0 /\ AllowedGroups = {}
  BY <1>1, <1>4, FinishKeeps
<1>5. CASE Ask("servergroups") /\ found # 0
  <2>1. /\ Shapes' /\ SeenNow' /\ UNCHANGED <<wanted, seen, found>>
        /\ step' = "servergroups" /\ lines' = Tail(lines)
    BY <1>1, <1>5, ThreadKeeps DEF Ask
  <2>2. commands = <<>> /\ Len(lines) <= 1
    BY <1>1, <1>5 DEF CheckInv, AfterFound
  <2>3. DOMAIN lines' = {}
    BY <1>1, <2>1, <2>2 DEF CheckInv, Shapes
  <2>4. \A i \in DOMAIN commands' : commands'[i] = "servergroups"
    BY <1>5, <2>2 DEF Ask
  <2>5. AfterFound' /\ ItemsInItems'
    BY <1>5, <2>1, <2>3, <2>4 DEF AfterFound, ItemsInItems
  <2>6. FoundWasListed'
    BY <2>1 DEF CheckInv, FoundWasListed, Matches
  <2>7. NoListYet' /\ ListIsLast' /\ GroupsSeen' /\ GrantedFound'
    BY <2>1 DEF NoListYet, ListIsLast, GroupsSeen, GrantedFound, Early
  <2> QED BY <2>1, <2>5, <2>6, <2>7 DEF CheckInv
<1> QED BY <1>2, <1>3, <1>4, <1>5

\* The groups that are read are groups of the entry that was found.
LEMMA ReadServerGroupsKeeps ==
  ASSUME CheckInv, ReadServerGroups
  PROVE  CheckInv'
<1>1. ThreadStep /\ lines # <<>> /\ step = "servergroups"
  BY DEF ThreadStep, ReadServerGroups, ReadsAt
<1>2. CASE IsErrorLine(NextLine)
  BY <1>1, <1>2, FinishKeeps DEF ReadServerGroups
<1>3. CASE ~IsErrorLine(NextLine)
  <2>1. /\ Shapes' /\ SeenNow' /\ UNCHANGED <<wanted, seen>>
        /\ step' = "servergroupsend" /\ lines' = Tail(lines)
        /\ found' = IF NextLine.items \cap AllowedGroups = {} THEN 0 ELSE found
    BY <1>1, <1>3, ThreadKeeps DEF ReadServerGroups, Goto
  <2>2. /\ NextLine = lines[1] /\ 1 \in DOMAIN lines
        /\ \A i \in DOMAIN lines' : i + 1 \in DOMAIN lines /\ lines'[i] = lines[i + 1]
    BY <1>1, <2>1, TailIndexes DEF CheckInv, Shapes, NextLine
  <2>3. FoundWasListed'
    BY <2>1 DEF CheckInv, FoundWasListed, Matches
  <2>4. GroupsSeen'
    <3>1. ASSUME found' # 0
          PROVE  \E g \in AllowedGroups : <<found', g>> \in seen.groups
      <4>1. PICK g \in AllowedGroups : g \in NextLine.items
        BY <2>1, <3>1
      <4>2. lines[1].kind = "items" /\ g \in lines[1].items
        BY <2>2, <4>1 DEF CheckInv, ItemsInItems
      <4>3. <<found, g>> \in seen.groups
        BY <1>1, <2>2, <4>2 DEF CheckInv, AfterFound
      <4> QED BY <2>1, <3>1, <4>3
    <3> QED BY <2>1, <3>1 DEF GroupsSeen
  <2>5. ItemsInItems'
    BY <2>2 DEF CheckInv, ItemsInItems
  <2>6. NoListYet' /\ ListIsLast' /\ AfterFound' /\ GrantedFound'
    BY <2>1 DEF NoListYet, ListIsLast, AfterFound, GrantedFound, Early
  <2> QED BY <2>1, <2>3, <2>4, <2>5, <2>6 DEF CheckInv
<1> QED BY <1>2, <1>3

LEMMA ReadServerGroupsEndKeeps ==
  ASSUME CheckInv, ReadServerGroupsEnd
  PROVE  CheckInv'
<1>1. ThreadStep /\ UNCHANGED found /\ step = "servergroupsend"
  BY DEF ThreadStep, ReadServerGroupsEnd, ReadsAt
<1>2. CASE found = 0
  BY <1>1, <1>2, FinishKeeps DEF ReadServerGroupsEnd
<1>3. CASE found # 0
  BY <1>1, <1>3, FinishKeeps DEF ReadServerGroupsEnd, CheckInv, GroupsSeen
<1> QED BY <1>2, <1>3

(* The theorem *)

\* In every execution the check stays in step with the list it reads: the entry
\* it found was listed, and a group it found is one of that entry.
LEMMA CheckInvariant == CheckSpec => []CheckInv
<1>1. CheckInit => CheckInv
  BY DEF CheckInit, CheckInv, Shapes, SeenNow, FoundWasListed, NoListYet, ListIsLast,
     AfterFound, ItemsInItems, GroupsSeen, GrantedFound, Steps
<1>2. CheckInv /\ [CheckNext]_checkVars => CheckInv'
  BY StartKeeps, EarlyReadsKeep, ReadClientListKeeps, ReadClientListEndKeeps,
     ReadServerGroupsKeeps, ReadServerGroupsEndKeeps, AnswerKeeps, BreakKeeps,
     OutsideKeeps DEF CheckNext, ThreadStep
<1> QED BY <1>1, <1>2, PTL DEF CheckSpec

\* Whatever the TeamSpeak server holds and answers, however long its greeting is
\* and whoever comes, goes or changes groups meanwhile, authentication admits
\* only a client that the server listed at its address during the check and
\* that was in an allowed group (authenticationaction.cpp).
THEOREM AdmissionCheckTheorem == CheckSpec => []AdmittedWasThere
<1>1. CheckInv => AdmittedWasThere
  <2>1. ASSUME CheckInv, step = "granted"
        PROVE  \E v \in seen.clients :
                 /\ v.type = 0
                 /\ v.ip = wanted.ip
                 /\ wanted.dbid \in {0, v.dbid}
                 /\ AllowedGroups # {} =>
                      \E g \in AllowedGroups : <<v.dbid, g>> \in seen.groups
    <3>1. PICK v \in seen.clients : Matches(v) /\ v.dbid = found
      BY <2>1 DEF CheckInv, FoundWasListed, GrantedFound
    <3>2. AllowedGroups # {} => \E g \in AllowedGroups : <<v.dbid, g>> \in seen.groups
      BY <2>1, <3>1 DEF CheckInv, GroupsSeen, GrantedFound
    <3>3. wanted.dbid \in Nat
      BY <2>1, Ts3Assumption DEF CheckInv, Shapes
    <3> QED BY <3>1, <3>2, <3>3 DEF Matches
  <2> QED BY <2>1 DEF AdmittedWasThere
<1> QED BY <1>1, CheckInvariant, PTL

(* The greeting of two lines: the thread in step with the server *)

Lists == {"clientlist", "servergroups"}

\* The most lines that wait for the thread at each of its places.
Room == IF step \in Lists \cup {"hello"} THEN 2 ELSE 1

\* With a greeting of two lines there is one command that is not answered, the
\* one whose answer the thread waits for, or there are lines for where it waits.
InStep ==
  /\ step = "idle" => commands = <<>> /\ greeted = 0
  /\ greeted = 2 =>
       /\ step # "idle"
       /\ commands # <<>> => step \in Commands /\ commands = <<step>> /\ lines = <<>>
       /\ Len(lines) <= Room
       /\ \A i \in DOMAIN lines :
            IF step \in {"hello", "welcome"} THEN lines[i].kind \in {"TS3", "welcome"}
            ELSE lines[i].kind = "error" \/ (i = 1 /\ lines[i].kind = "items" /\ step \in Lists)

\* What the rest of the state is.
Rest ==
  /\ socket \in {"closed", "open", "broken"}
  /\ greeted \in {0} \cup Greetings
  /\ seen.clients \subseteq Visitors

LEMMA RestKept ==
  ASSUME CheckInv, Rest, [CheckNext]_checkVars
  PROVE  Rest'
<1>1. CASE Start
  <2>1. UNCHANGED seen
    BY <1>1 DEF Start, ts3Vars
  <2> QED BY <1>1, <2>1 DEF Start, Finish, Rest
<1>2. CASE ThreadStep /\ ~Start
  <2>1. UNCHANGED <<greeted, seen>> /\ socket' \in {socket, "closed"}
    BY <1>2 DEF ThreadStep, ReadHello, ReadWelcome, ReadResult, ReadClientList,
       ReadClientListEnd, ReadServerGroups, ReadServerGroupsEnd, Goto, Ask, Finish,
       AfterList, ts3Vars
  <2> QED BY <2>1 DEF Rest
<1>3. CASE Ts3Answers \/ Break \/ UNCHANGED checkVars
  BY <1>3 DEF Ts3Answers, Break, checkVars, wireVars, ts3Vars, Rest
<1>4. CASE Ts3ClientMoves
  <2>1. Shapes'
    BY ShapesKept DEF CheckInv
  <2> QED BY <1>4, <2>1 DEF Ts3ClientMoves, wireVars, Rest, Shapes
<1>5. CASE Ts3GroupChanges
  BY <1>5 DEF Ts3GroupChanges, wireVars, Rest
<1> QED BY <1>1, <1>2, <1>3, <1>4, <1>5 DEF CheckNext

\* The thread reads a line and finds the next lines behind it.
LEMMA ReadInStep ==
  ASSUME CheckInv, InStep, greeted = 2, lines # <<>>, lines' = Tail(lines)
  PROVE  /\ commands = <<>>
         /\ Len(lines') <= 1
         /\ step \notin Lists \cup {"hello"} => lines' = <<>>
         /\ \A i \in DOMAIN lines' :
              IF step \in {"hello", "welcome"} THEN lines'[i].kind \in {"TS3", "welcome"}
              ELSE lines'[i].kind = "error"
<1>1. /\ lines \in Seq(Line) /\ Len(lines) \in Nat /\ Len(lines') = Len(lines) - 1
      /\ \A i \in DOMAIN lines' : i \in Nat /\ i + 1 \in DOMAIN lines /\ lines'[i] = lines[i + 1]
      /\ \A i \in DOMAIN lines' : i # 0
      /\ lines' \in Seq(Line)
  <2>1. lines \in Seq(Line)
    BY DEF CheckInv, Shapes
  <2>2. lines' \in Seq(Line)
    BY <2>1, TailIndexes
  <2>3. \A i \in DOMAIN lines' : i # 0
    BY <2>2
  <2> QED BY <2>1, <2>2, <2>3, TailIndexes
<1>2. /\ commands = <<>> /\ Len(lines) <= Room
      /\ \A i \in DOMAIN lines :
           IF step \in {"hello", "welcome"} THEN lines[i].kind \in {"TS3", "welcome"}
           ELSE lines[i].kind = "error" \/ i = 1
  BY DEF InStep
<1>3. Len(lines') <= 1 /\ (step \notin Lists \cup {"hello"} => Len(lines') = 0)
  <2>1. lines' \in Seq(Line) /\ Len(lines') \in Nat
    BY <1>1
  <2> QED BY <1>1, <1>2, <2>1 DEF Room
<1>4. \A i \in DOMAIN lines' : i + 1 # 1
  BY <1>1
<1> QED BY <1>1, <1>2, <1>3, <1>4

LEMMA ThreadInStep ==
  ASSUME CheckInv, InStep, ThreadStep
  PROVE  InStep'
<1>1. CASE Start
  <2>1. CASE Finish("denied")
    <3>1. greeted' = 0 /\ step' = "denied"
      BY <1>1, <2>1 DEF Start, Finish, InStep
    <3> QED BY <3>1 DEF InStep
  <2>2. CASE ~Finish("denied")
    <3>1. PICK n \in Greetings :
            /\ lines' = [i \in 1..n |-> Text(IF i = 1 THEN "TS3" ELSE "welcome")]
            /\ greeted' = n /\ step' = "hello" /\ commands' = <<>>
      BY <1>1, <2>2 DEF Start, InStep
    <3>2. \A t \in {"TS3", "welcome"} : Text(t).kind = t
      BY DEF Text
    <3>3. \A i \in DOMAIN lines' : lines'[i].kind \in {"TS3", "welcome"}
      BY <3>1, <3>2
    <3>4. n = 2 => Len(lines') <= 2
      BY <3>1
    <3> QED BY <3>1, <3>3, <3>4 DEF InStep, Room
  <2> QED BY <2>1, <2>2
<1>2. CASE ~Start
  <2>1. step # "idle" /\ greeted' = greeted /\ lines # <<>>
    BY <1>2 DEF ThreadStep, ReadHello, ReadWelcome, ReadResult, ReadClientList,
       ReadClientListEnd, ReadServerGroups, ReadServerGroupsEnd, ReadsAt
  <2>2. \/ \E verdict \in {"granted", "denied"} : Finish(verdict)
        \/ step = "hello" /\ Goto("welcome")
        \/ step = "clientlist" /\ Goto("clientlistend")
        \/ step = "servergroups" /\ Goto("servergroupsend")
        \/ step \notin Lists \cup {"hello"} /\ \E c \in Commands : Ask(c)
    BY <1>2 DEF ThreadStep, ReadHello, ReadWelcome, ReadResult, ReadClientList,
       ReadClientListEnd, ReadServerGroups, ReadServerGroupsEnd, ReadsAt, AfterList,
       Following, Commands, Lists
  <2>3. CASE \E verdict \in {"granted", "denied"} : Finish(verdict)
    <3>1. step' \in {"granted", "denied"} /\ commands' = <<>> /\ lines' = <<>>
      BY <2>3 DEF Finish
    <3> QED BY <3>1 DEF InStep, Room
  <2>4. CASE /\ lines' = Tail(lines) /\ commands' = commands
             /\ \/ step = "hello" /\ step' = "welcome"
                \/ step \in Lists /\ step' \in {"clientlistend", "servergroupsend"}
    <3>1. step' # "idle"
      BY <2>4
    <3>2. ASSUME greeted = 2
          PROVE  /\ commands' = <<>> /\ Len(lines') <= Room'
                 /\ \A i \in DOMAIN lines' :
                      IF step' \in {"hello", "welcome"} THEN lines'[i].kind \in {"TS3", "welcome"}
                      ELSE lines'[i].kind = "error"
      BY <2>1, <2>4, <3>2, ReadInStep DEF Room, Lists
    <3> QED BY <2>1, <3>1, <3>2 DEF InStep
  <2>5. CASE step \notin Lists \cup {"hello"} /\ \E c \in Commands : Ask(c)
    <3>1. PICK c \in Commands : Ask(c)
      BY <2>5
    <3>2. step' = c /\ c # "idle" /\ lines' = Tail(lines)
      BY <3>1 DEF Ask, Commands
    <3>3. ASSUME greeted = 2
          PROVE  lines' = <<>> /\ commands' \in {<<>>, <<c>>}
      BY <2>1, <2>5, <3>1, <3>2, <3>3, ReadInStep DEF Ask
    <3> QED BY <2>1, <3>2, <3>3 DEF InStep, Room
  <2> QED BY <2>2, <2>3, <2>4, <2>5 DEF Goto, Lists
<1> QED BY <1>1, <1>2

LEMMA ServerInStep ==
  ASSUME CheckInv, InStep, Ts3Answers \/ Break
  PROVE  InStep'
<1>1. UNCHANGED <<step, greeted>>
  BY DEF Ts3Answers, Break, threadVars
<1>2. CASE Break
  <2>1. /\ Len(lines') \in Nat /\ Len(lines) \in Nat /\ Len(lines') <= Len(lines)
        /\ \A i \in DOMAIN lines' : i \in DOMAIN lines /\ lines'[i] = lines[i]
    BY <1>2 DEF Break, CheckInv, Shapes
  <2>2. Room \in Nat /\ Room' = Room
    BY <1>1 DEF Room
  <2>3. commands' = <<>>
    BY <1>2 DEF Break
  <2> QED BY <1>1, <2>1, <2>2, <2>3 DEF InStep
<1>3. CASE Ts3Answers
  <2>1. step # "idle" /\ commands # <<>> /\ commands' = Tail(commands)
    BY <1>3 DEF Ts3Answers, InStep
  <2>2. ASSUME greeted = 2
        PROVE  /\ commands' = <<>>
               /\ Len(lines') <= Room
               /\ \A i \in DOMAIN lines' :
                    lines'[i].kind = "error" \/ (i = 1 /\ lines'[i].kind = "items" /\ step \in Lists)
               /\ step \notin {"hello", "welcome"}
    <3>1. step \in Commands /\ commands = <<step>> /\ lines = <<>>
      BY <2>1, <2>2 DEF InStep
    <3>2. Head(commands) = step /\ commands' = <<>>
      BY <2>1, <3>1
    <3>3. PICK answer \in Answer(step) : lines' = lines \o answer
      BY <1>3, <3>2 DEF Ts3Answers
    <3>4. \/ \E n \in Nat : answer = <<ErrorLine(n)>>
          \/ /\ step \in Lists
             /\ \E s : answer = <<Items(s), ErrorLine(0)>>
      BY <3>1, AnswerLines DEF CheckInv, Lists
    <3>5. /\ \A n : ErrorLine(n).kind = "error"
          /\ \A s : Items(s).kind = "items"
      BY DEF ErrorLine, Items
    <3>6. CASE \E n \in Nat : answer = <<ErrorLine(n)>>
      <4>1. PICK n \in Nat : lines' = <<ErrorLine(n)>>
        BY <3>1, <3>3, <3>6, LineShapes DEF CheckInv
      <4> QED BY <3>1, <3>2, <3>5, <4>1 DEF Room, Commands
    <3>7. CASE step \in Lists /\ \E s : answer = <<Items(s), ErrorLine(0)>>
      <4>1. PICK s : lines' = <<Items(s), ErrorLine(0)>>
        BY <3>1, <3>3, <3>7
      <4>2. Len(lines') = 2 /\ DOMAIN lines' = 1..2 /\ lines'[1] = Items(s) /\ lines'[2] = ErrorLine(0)
        BY <4>1
      <4> QED BY <3>1, <3>2, <3>5, <3>7, <4>2 DEF Room, Commands
    <3> QED BY <3>4, <3>6, <3>7
  <2>3. Room' = Room
    BY <1>1 DEF Room
  <2> QED BY <1>1, <2>1, <2>2, <2>3 DEF InStep
<1> QED BY <1>2, <1>3

LEMMA StepInvariant == CheckSpec => [](InStep /\ Rest)
<1>1. CheckInit => InStep /\ Rest
  BY DEF CheckInit, InStep, Rest
<1>2. CheckInv /\ InStep /\ Rest /\ [CheckNext]_checkVars => InStep' /\ Rest'
  <2>1. ASSUME InStep, Ts3ClientMoves \/ Ts3GroupChanges \/ UNCHANGED checkVars
        PROVE  InStep'
    BY <2>1 DEF Ts3ClientMoves, Ts3GroupChanges, checkVars, threadVars, wireVars, InStep, Room
  <2> QED BY <2>1, RestKept, ThreadInStep, ServerInStep DEF CheckNext
<1> QED BY <1>1, <1>2, CheckInvariant, PTL DEF CheckSpec

\* The state of the check keeps its shape, and after a greeting of two lines at
\* most one command is not answered.
THEOREM CheckTypeTheorem == CheckSpec => []CheckTypeOK
<1>1. ASSUME CheckInv, InStep, Rest PROVE CheckTypeOK
  <2>1. found \in {0} \cup {v.dbid : v \in Visitors}
    BY <1>1 DEF CheckInv, FoundWasListed, Rest
  <2>2. greeted = 2 => Len(commands) <= 1
    <3>1. greeted = 2 => commands = <<>> \/ commands = <<step>>
      BY <1>1 DEF InStep
    <3>2. commands = <<step>> => Len(commands) = 1
      OBVIOUS
    <3>3. commands = <<>> => Len(commands) = 0
      OBVIOUS
    <3> QED BY <3>1, <3>2, <3>3
  <2>3. \A i \in DOMAIN lines : lines[i].kind \in {"TS3", "welcome", "items", "error"}
    <3>1. \A i \in DOMAIN lines : lines[i] \in Line
      BY <1>1 DEF CheckInv, Shapes
    <3> QED BY <3>1 DEF Line
  <2> QED BY <1>1, <2>1, <2>2, <2>3 DEF CheckTypeOK, CheckInv, Shapes, Rest
<1> QED BY <1>1, CheckInvariant, StepInvariant, PTL

\* Every line the thread reads answers what it asked, if the server greets with
\* the two lines that start reads (ts3queryconsolesocket.cpp:35 and 44).
THEOREM AnswersTheorem == CheckSpec => []AnswersInStep
<1>1. ASSUME CheckInv, InStep PROVE AnswersInStep
  <2> SUFFICES ASSUME greeted = 2, lines # <<>>
               PROVE  \/ step \in {"hello", "welcome"} /\ NextLine.kind \notin {"items", "error"}
                      \/ step \in Lists /\ NextLine.kind \in {"items", "error"}
                      \/ step \notin {"hello", "welcome"} \cup Lists /\ IsErrorLine(NextLine)
    BY DEF AnswersInStep, Lists
  <2>1. 1 \in DOMAIN lines /\ NextLine = lines[1]
    BY <1>1, TailIndexes DEF CheckInv, Shapes, NextLine
  <2> QED BY <1>1, <2>1 DEF InStep, IsErrorLine
<1> QED BY <1>1, CheckInvariant, StepInvariant, PTL
================================================================================
