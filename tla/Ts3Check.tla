------------------------------- MODULE Ts3Check -------------------------------
(***************************************************************************)
(* The TeamSpeak 3 check of an authentication: the thread that QtAsync runs    *)
(* for AuthenticationAction drives a TS3QueryConsoleSocketSync through the     *)
(* query console of a TeamSpeak server, command by command and line by line,   *)
(* and admits the client if the server lists it and it is in an allowed group. *)
(*                                                                           *)
(* The TeamSpeak server is external: it greets, answers in order, refuses at   *)
(* will, and its clients and their groups change while the check runs.  The    *)
(* connection may break at any time.                                         *)
(***************************************************************************)
EXTENDS Naturals, Sequences, FiniteSets

CONSTANTS
  Visitors,        \* clients of the TeamSpeak server: database id, address, type
  Groups,          \* its server groups
  AllowedGroups,   \* options().ts3AllowedServerGroups
  Nickname,        \* TRUE: options().ts3Nickname is set
  Wanted,          \* requests: a database id, or 0 from an old client, and an address
  Greetings,       \* numbers of lines of the server's greeting
  MaxChanges       \* bound of the changes at the TeamSpeak server

ASSUME Ts3Assumption ==
  /\ \A v \in Visitors : v.dbid \in Nat \ {0} /\ v.type \in {0, 1}
  /\ \A w \in Wanted : w.dbid \in Nat
  /\ AllowedGroups \subseteq Groups
  /\ Nickname \in BOOLEAN
  /\ Greetings \subseteq Nat \ {0}
  /\ MaxChanges \in Nat

VARIABLES
  step,       \* what the thread waits for or has come to
  wanted,     \* the client that asks for admission
  found,      \* database id of the entry found in the list, 0 for none
  socket,     \* the console connection: "closed", "open" or "broken"
  commands,   \* commands the server has not answered
  lines,      \* lines the thread has not read
  online,     \* clients on the TeamSpeak server
  member,     \* pairs of a database id and a group it is in
  changes,    \* changes of online and member so far
  greeted,    \* history: lines of the greeting
  seen        \* history: clients and memberships at any time of the check

threadVars == <<step, wanted, found>>
wireVars == <<socket, commands, lines>>
ts3Vars == <<online, member, changes, seen>>
checkVars == <<threadVars, wireVars, ts3Vars, greeted>>

Commands == {"login", "use", "clientupdate", "clientlist", "servergroups"}
Steps == {"idle", "hello", "welcome", "clientlistend", "servergroupsend",
          "granted", "denied"} \cup Commands
Over == step \in {"granted", "denied"}

Memberships == {v.dbid : v \in Visitors} \X Groups

\* Lines of the console: text, a list of items, or an error with its id.
Text(t) == [kind |-> t, id |-> 0, items |-> {}]
Items(s) == [kind |-> "items", id |-> 0, items |-> s]
ErrorLine(n) == [kind |-> "error", id |-> n, items |-> {}]
Ids == {0, 1}

IsErrorLine(line) == line.kind = "error"

\* parseError: a line that is no error line counts as error 0.
Succeeded(line) == line.id = 0

CheckInit ==
  /\ step = "idle"
  /\ wanted \in Wanted
  /\ found = 0
  /\ socket = "closed"
  /\ commands = <<>>
  /\ lines = <<>>
  /\ online \in SUBSET Visitors
  /\ member \in SUBSET Memberships
  /\ changes = 0
  /\ greeted = 0
  /\ seen = [clients |-> online, groups |-> member]
--------------------------------------------------------------------------------
(* The thread *)

\* The lambda returns: what is left of the connection is closed with the socket.
Finish(verdict) ==
  /\ step' = verdict
  /\ socket' = "closed"
  /\ commands' = <<>>
  /\ lines' = <<>>

\* The next line, which socketReadLineSync waits for without an end.
NextLine == Head(lines)

ReadsAt(s) ==
  /\ step = s
  /\ socket # "closed"
  /\ lines # <<>>

\* The thread reads a line and goes on to wait at s.
Goto(s) ==
  /\ step' = s
  /\ lines' = Tail(lines)
  /\ UNCHANGED <<socket, commands>>

\* The thread reads a line, writes a command and waits for its answer.  What
\* is written on a broken connection is lost.
Ask(command) ==
  /\ step' = command
  /\ lines' = Tail(lines)
  /\ commands' = IF socket = "open" THEN Append(commands, command) ELSE commands
  /\ UNCHANGED socket

\* connectToHost and waitForConnected; the server greets.
Start ==
  /\ step = "idle"
  /\ \/ /\ \E n \in Greetings :
             /\ lines' = [i \in 1..n |-> Text(IF i = 1 THEN "TS3" ELSE "welcome")]
             /\ greeted' = n
        /\ step' = "hello"
        /\ socket' = "open"
        /\ UNCHANGED commands
     \/ /\ Finish("denied")
        /\ UNCHANGED greeted
  /\ UNCHANGED <<wanted, found, ts3Vars>>

ReadHello ==
  /\ ReadsAt("hello")
  /\ IF NextLine.kind = "TS3" THEN Goto("welcome") ELSE Finish("denied")
  /\ UNCHANGED <<wanted, found, ts3Vars, greeted>>

\* A plausible bug: the welcome line is left for the answer of login.
ReadWelcome_MutantSkipped ==
  /\ step = "welcome"
  /\ step' = "login"
  /\ commands' = <<"login">>
  /\ UNCHANGED <<lines, socket, wanted, found, ts3Vars, greeted>>

\* The second line of the greeting is read whatever it says.
ReadWelcome ==
  /\ ReadsAt("welcome")
  /\ Ask("login")
  /\ UNCHANGED <<wanted, found, ts3Vars, greeted>>

\* The command that follows one that is answered by an error line only.
Following(command) ==
  IF command = "login" THEN "use"
  ELSE IF command = "use" /\ Nickname THEN "clientupdate"
  ELSE "clientlist"

\* login, useByPort and updateNickname.
ReadResult ==
  /\ \E command \in {"login", "use", "clientupdate"} :
       /\ ReadsAt(command)
       /\ IF Succeeded(NextLine) THEN Ask(Following(command)) ELSE Finish("denied")
  /\ UNCHANGED <<wanted, found, ts3Vars, greeted>>

\* A plausible bug: the address of an entry is not compared.
Matches_MutantAnyAddress(v) ==
  /\ v.type = 0
  /\ wanted.dbid > 0 => v.dbid = wanted.dbid

\* An entry of the list that is the client that asks; old clients do not say
\* which database id they have.
Matches(v) ==
  /\ v.type = 0
  /\ v.ip = wanted.ip
  /\ wanted.dbid > 0 => v.dbid = wanted.dbid

\* The items of clientlist; an error line instead is an empty list, in which
\* nothing is found.
ReadClientList ==
  /\ ReadsAt("clientlist")
  /\ LET entries == {v \in NextLine.items : Matches(v)}
     IN  IF IsErrorLine(NextLine)
         THEN /\ Finish("denied")
              /\ UNCHANGED found
         ELSE /\ Goto("clientlistend")
              /\ IF entries = {} THEN UNCHANGED found
                 ELSE \E v \in entries : found' = v.dbid
  /\ UNCHANGED <<wanted, ts3Vars, greeted>>

\* A plausible bug: an entry counts before the groups are asked for.
AfterList_MutantNoGroups ==
  IF found = 0 THEN Finish("denied") ELSE Finish("granted")

\* The list was read: the client is not on it, or it needs no group, or its
\* groups are asked for.
AfterList ==
  IF found = 0 THEN Finish("denied")
  ELSE IF AllowedGroups = {} THEN Finish("granted")
  ELSE Ask("servergroups")

\* The error line behind the list; the list is used whatever it says.
ReadClientListEnd ==
  /\ ReadsAt("clientlistend")
  /\ AfterList
  /\ UNCHANGED <<wanted, found, ts3Vars, greeted>>

\* The items of servergroupsbyclientid and the search for an allowed one; the
\* verdict waits for the line behind them.
ReadServerGroups ==
  /\ ReadsAt("servergroups")
  /\ IF IsErrorLine(NextLine)
       THEN /\ Finish("denied")
            /\ UNCHANGED found
       ELSE /\ Goto("servergroupsend")
            /\ found' = IF NextLine.items \cap AllowedGroups = {} THEN 0 ELSE found
  /\ UNCHANGED <<wanted, ts3Vars, greeted>>

ReadServerGroupsEnd ==
  /\ ReadsAt("servergroupsend")
  /\ Finish(IF found = 0 THEN "denied" ELSE "granted")
  /\ UNCHANGED <<wanted, found, ts3Vars, greeted>>
--------------------------------------------------------------------------------
(* The TeamSpeak server *)

\* A plausible fault of the server: the list has no line behind it.
Answer_MutantOneLine(command) ==
  IF command = "clientlist" THEN {<<Items(online)>>}
  ELSE IF command = "servergroups"
    THEN {<<Items({m[2] : m \in {p \in member : p[1] = found}}), ErrorLine(0)>>}
  ELSE {<<ErrorLine(n)>> : n \in Ids}

\* The lines that may answer a command: a refusal, or what it asks for.
Answer(command) ==
  {<<ErrorLine(1)>>} \cup
  IF command = "clientlist" THEN {<<Items(online), ErrorLine(0)>>}
  ELSE IF command = "servergroups"
    THEN {<<Items({m[2] : m \in {p \in member : p[1] = found}}), ErrorLine(0)>>}
  ELSE {<<ErrorLine(0)>>}

Ts3Answers ==
  /\ socket = "open"
  /\ commands # <<>>
  /\ \E answer \in Answer(Head(commands)) : lines' = lines \o answer
  /\ commands' = Tail(commands)
  /\ UNCHANGED <<threadVars, socket, ts3Vars, greeted>>

\* A client comes or goes.
Ts3ClientMoves ==
  /\ changes < MaxChanges
  /\ ~Over
  /\ \E v \in Visitors :
       online' = IF v \in online THEN online \ {v} ELSE online \cup {v}
  /\ seen' = [seen EXCEPT !.clients = @ \cup online']
  /\ changes' = changes + 1
  /\ UNCHANGED <<threadVars, wireVars, member, greeted>>

\* A client enters or leaves a group.
Ts3GroupChanges ==
  /\ changes < MaxChanges
  /\ ~Over
  /\ \E m \in Memberships :
       member' = IF m \in member THEN member \ {m} ELSE member \cup {m}
  /\ seen' = [seen EXCEPT !.groups = @ \cup member']
  /\ changes' = changes + 1
  /\ UNCHANGED <<threadVars, wireVars, online, greeted>>

\* The connection ends: what the server sent last may be lost.
Break ==
  /\ socket = "open"
  /\ socket' = "broken"
  /\ \E n \in 0..Len(lines) : lines' = SubSeq(lines, 1, n)
  /\ commands' = <<>>
  /\ UNCHANGED <<threadVars, ts3Vars, greeted>>
--------------------------------------------------------------------------------
ThreadStep ==
  Start \/ ReadHello \/ ReadWelcome \/ ReadResult \/ ReadClientList
    \/ ReadClientListEnd \/ ReadServerGroups \/ ReadServerGroupsEnd

CheckNext == ThreadStep \/ Ts3Answers \/ Ts3ClientMoves \/ Ts3GroupChanges \/ Break

\* The thread runs, and the TeamSpeak server answers while the connection lasts.
CheckSpec ==
  /\ CheckInit
  /\ [][CheckNext]_checkVars
  /\ WF_checkVars(ThreadStep)
  /\ WF_checkVars(Ts3Answers)
--------------------------------------------------------------------------------
\* Every part of the state has its shape, and after the greeting that start
\* reads the thread has never more than one command on its way: it waits for
\* each answer.
CheckTypeOK ==
  /\ step \in Steps
  /\ wanted \in Wanted
  /\ found \in {0} \cup {v.dbid : v \in Visitors}
  /\ socket \in {"closed", "open", "broken"}
  /\ commands \in Seq(Commands)
  /\ greeted = 2 => Len(commands) <= 1
  /\ \A i \in DOMAIN lines : lines[i].kind \in {"TS3", "welcome", "items", "error"}
  /\ online \subseteq Visitors
  /\ member \subseteq Memberships
  /\ greeted \in {0} \cup Greetings

\* Nobody is admitted whom the TeamSpeak server did not list at the client's own
\* address during the check, or who was in no allowed group: not when commands
\* are refused, not when clients come, go and change groups meanwhile, and not
\* when a longer greeting makes the thread take the answer of every command for
\* that of the next.
AdmittedWasThere ==
  step = "granted" =>
    \E v \in seen.clients :
      /\ v.type = 0
      /\ v.ip = wanted.ip
      /\ wanted.dbid \in {0, v.dbid}
      /\ AllowedGroups # {} => \E g \in AllowedGroups : <<v.dbid, g>> \in seen.groups

\* A line that is read is an answer to what was asked, as long as the greeting
\* has the two lines that start reads.
AnswersInStep ==
  greeted = 2 /\ lines # <<>> =>
    \/ step \in {"hello", "welcome"} /\ NextLine.kind \notin {"items", "error"}
    \/ step \in {"clientlist", "servergroups"} /\ NextLine.kind \in {"items", "error"}
    \/ step \notin {"hello", "welcome", "clientlist", "servergroups"} /\ IsErrorLine(NextLine)

\* The check comes to a verdict, so that the authentication is answered, unless
\* the connection ends under it or the greeting is a line short: then the thread
\* waits for a line for ever (ts3queryconsolesocket.cpp:186).
CheckEnds == (step = "idle") ~> (Over \/ socket = "broken" \/ greeted = 1)
================================================================================
