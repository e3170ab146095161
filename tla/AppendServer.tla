---------------------------- MODULE AppendServer ----------------------------
(***************************************************************************)
(* The server and client of Lab05/quo1.  The parent accepts two clients    *)
(* and forks a child for each; a child reads one string, appends it to     *)
(* result.txt, reads the file back to show it, and exits.  The third       *)
(* client is told to terminate, and the parent with it.                    *)
(***************************************************************************)
EXTENDS Naturals, FiniteSets, Sequences, SequencesExt

CONSTANTS Client,       \* the client programs; each stands for its string too
          Manipal,      \* what the file starts with
          Nothing,      \* the empty string
          Careless      \* the users who may enter an empty line or interrupt

ASSUME ClientAssumption == IsFiniteSet(Client)
ASSUME CarelessAssumption == Careless \subseteq Client
ASSUME NamesAssumption == Manipal \notin Client /\ Nothing \notin Client

VARIABLES cl,          \* where each client stands
          outcome,     \* what it told its user at the end
          backlog,     \* connections not yet accepted
          clientCount, \* client_count
          parent,      \* "accept" or "exit"
          child,       \* where the child serving each client stands
          inFlight,    \* the strings sent to the server and not read
          told,        \* the clients sent "terminate_session"
          buffer,      \* what each child read
          file,        \* result.txt, as its sequence of strings
          shown        \* the file content each child displayed

vars == <<cl, outcome, backlog, clientCount, parent, child, inFlight, told,
          buffer, file, shown>>

Limit == 2

Init ==
    /\ cl = [c \in Client |-> "off"]
    /\ outcome = [c \in Client |-> "none"]
    /\ backlog = <<>>
    /\ clientCount = 0
    /\ parent = "accept"
    /\ child = [c \in Client |-> "none"]
    /\ inFlight = {}
    /\ told = {}
    /\ buffer = [c \in Client |-> Nothing]
    /\ file = <<Manipal>>
    /\ shown = [c \in Client |-> <<>>]

-----------------------------------------------------------------------------
(* The client. *)
Ends(c, how) ==
    /\ cl' = [cl EXCEPT ![c] = "done"]
    /\ outcome' = [outcome EXCEPT ![c] = how]
    /\ UNCHANGED <<clientCount, parent, child, inFlight, told, buffer, file, shown>>

Connect(c) ==
    /\ cl[c] = "off" /\ parent = "accept"
    /\ cl' = [cl EXCEPT ![c] = "prompt"]
    /\ backlog' = Append(backlog, c)
    /\ UNCHANGED <<outcome, clientCount, parent, child, inFlight, told, buffer, file, shown>>

Refused(c) ==
    /\ cl[c] = "off" /\ parent = "exit"
    /\ Ends(c, "refused")
    /\ UNCHANGED backlog

(* An empty line is a write of no bytes: nothing is sent. *)
Lines(c) == IF c \in Careless THEN {c, Nothing} ELSE {c}

Send(c, line) ==
    /\ cl[c] = "prompt"
    /\ cl' = [cl EXCEPT ![c] = "waiting"]
    /\ inFlight' = IF line = Nothing THEN inFlight ELSE inFlight \cup {c}
    /\ UNCHANGED <<outcome, backlog, clientCount, parent, child, told, buffer, file, shown>>

(* The connection is over: the child has closed it, the parent refused it, *)
(* or the parent exited with it in the backlog.                            *)
Closed(c) == child[c] = "closed" \/ (parent = "exit" /\ c \in ToSet(backlog))

ReadReply(c) ==
    /\ cl[c] = "waiting"
    /\ \/ c \in told /\ Ends(c, "terminate_session")
       \/ c \notin told /\ Closed(c) /\ Ends(c, "closed_by_server")
    /\ UNCHANGED backlog

Interrupt(c) ==
    /\ c \in Careless
    /\ cl[c] \in {"prompt", "waiting"}
    /\ Ends(c, "interrupted")
    /\ UNCHANGED backlog

-----------------------------------------------------------------------------
(* The parent. *)
Take ==
    /\ parent = "accept" /\ backlog # <<>>
    /\ backlog' = Tail(backlog)
    /\ clientCount' = clientCount + 1

AcceptBelow(limit) ==
    /\ Take
    /\ clientCount' <= limit
    /\ child' = [child EXCEPT ![Head(backlog)] = "read"]
    /\ UNCHANGED <<cl, outcome, parent, inFlight, told, buffer, file, shown>>

AcceptOneMore == AcceptBelow(Limit + 1)     \* client_count > 3
AcceptAndFork == AcceptBelow(Limit)

(* fork returns -1: the parent closes the only copy of the socket. *)
ForkFails ==
    /\ Take
    /\ clientCount' <= Limit
    /\ child' = [child EXCEPT ![Head(backlog)] = "closed"]
    /\ UNCHANGED <<cl, outcome, parent, inFlight, told, buffer, file, shown>>

RefuseAndKill ==        \* the parent takes its children with it
    /\ Take
    /\ clientCount' > Limit
    /\ told' = told \cup {Head(backlog)}
    /\ child' = [c \in Client |-> "closed"]
    /\ parent' = "exit"
    /\ UNCHANGED <<cl, outcome, inFlight, buffer, file, shown>>

RefuseAndStop ==
    /\ Take
    /\ clientCount' > Limit
    /\ told' = told \cup {Head(backlog)}
    /\ child' = [child EXCEPT ![Head(backlog)] = "closed"]
    /\ parent' = "exit"
    /\ UNCHANGED <<cl, outcome, inFlight, buffer, file, shown>>

-----------------------------------------------------------------------------
(* A child.  It goes on when the parent has exited. *)
ReadString(c) ==
    /\ child[c] = "read"
    /\ c \in inFlight \/ cl[c] = "done"
    /\ buffer' = [buffer EXCEPT ![c] = IF c \in inFlight THEN c ELSE Nothing]
    /\ inFlight' = inFlight \ {c}
    /\ child' = [child EXCEPT ![c] = "append"]
    /\ UNCHANGED <<cl, outcome, backlog, clientCount, parent, told, file, shown>>

AppendTruncated(c) ==   \* result.txt opened with "w"
    /\ child[c] = "append"
    /\ file' = <<buffer[c]>>
    /\ child' = [child EXCEPT ![c] = "show"]
    /\ UNCHANGED <<cl, outcome, backlog, clientCount, parent, inFlight, told, buffer, shown>>

(* The string is in the stdio buffer until fclose, whose one write in      *)
(* append mode goes to wherever the file then ends.                        *)
AppendString(c) ==
    /\ child[c] = "append"
    /\ file' = Append(file, buffer[c])
    /\ child' = [child EXCEPT ![c] = "show"]
    /\ UNCHANGED <<cl, outcome, backlog, clientCount, parent, inFlight, told, buffer, shown>>

ShowFile(c) ==
    /\ child[c] = "show"
    /\ shown' = [shown EXCEPT ![c] = file]
    /\ child' = [child EXCEPT ![c] = "close"]
    /\ UNCHANGED <<cl, outcome, backlog, clientCount, parent, inFlight, told, buffer, file>>

CloseUnread(c) ==       \* the child waits for its client to close first
    /\ child[c] = "close" /\ cl[c] = "done"
    /\ child' = [child EXCEPT ![c] = "closed"]
    /\ UNCHANGED <<cl, outcome, backlog, clientCount, parent, inFlight, told, buffer, file, shown>>

Close(c) ==
    /\ child[c] = "close"
    /\ child' = [child EXCEPT ![c] = "closed"]
    /\ UNCHANGED <<cl, outcome, backlog, clientCount, parent, inFlight, told, buffer, file, shown>>

-----------------------------------------------------------------------------
ParentStep == AcceptAndFork \/ ForkFails \/ RefuseAndStop
ChildStep(c) == ReadString(c) \/ AppendString(c) \/ ShowFile(c) \/ Close(c)

Next ==
    \/ ParentStep
    \/ \E c \in Client :
          \/ Connect(c) \/ Refused(c) \/ ReadReply(c) \/ Interrupt(c) \/ ChildStep(c)
          \/ \E line \in Lines(c) : Send(c, line)

(* Every process is scheduled; a user need not type. *)
Spec ==
    /\ Init /\ [][Next]_vars
    /\ WF_vars(ParentStep)
    /\ \A c \in Client : WF_vars(ChildStep(c)) /\ WF_vars(ReadReply(c))

-----------------------------------------------------------------------------
Places == {"none", "read", "append", "show", "close", "closed"}

TypeOK ==
    /\ cl \in [Client -> {"off", "prompt", "waiting", "done"}]
    /\ outcome \in [Client -> {"none", "refused", "terminate_session",
                               "closed_by_server", "interrupted"}]
    /\ backlog \in Seq(Client)
    /\ clientCount \in 0..(Limit + 1)
    /\ parent \in {"accept", "exit"}
    /\ child \in [Client -> Places]
    /\ inFlight \subseteq Client
    /\ told \subseteq Client
    /\ buffer \in [Client -> Client \cup {Nothing}]
    /\ file \in Seq(Client \cup {Manipal, Nothing})
    /\ shown \in [Client -> Seq(Client \cup {Manipal, Nothing})]

(* Each child that has appended has its string in result.txt exactly once, *)
(* after "Manipal", whatever the other child did in between.               *)
Stored == {c \in Client : child[c] \in {"show", "close"} \/ shown[c] # <<>>}

EveryStringStoredOnce ==
    /\ Head(file) = Manipal
    /\ Len(file) = 1 + Cardinality(Stored)
    /\ \A c \in Stored : buffer[c] = c =>
          Cardinality({k \in DOMAIN file : file[k] = c}) = 1

(* What two children displayed are states of one growing file: one display *)
(* continues the other, and each contains the string of its own child.     *)
DisplaysAgree ==
    \A c, d \in Client : shown[c] # <<>> /\ shown[d] # <<>> =>
        /\ IsPrefix(shown[c], shown[d]) \/ IsPrefix(shown[d], shown[c])
        /\ buffer[c] \in ToSet(shown[c])

(* result.txt only grows, by one string for each child, and every display  *)
(* is a state of it.                                                       *)
FileIntact == EveryStringStoredOnce /\ DisplaysAgree

(* A client that is told to terminate is the third or a later one: the two *)
(* that are served never are, although they still run when the parent has  *)
(* exited, and at most two are served.                                     *)
ServedNotTerminated ==
    /\ told \cap {c \in Client : buffer[c] # Nothing} = {}
    /\ Cardinality({c \in Client : child[c] # "none"} \ told) <= Limit

(* A client whose string is on its way is let go: told to terminate, or    *)
(* its connection is closed.  (With an empty line nothing is on its way,   *)
(* and client and child both read for ever.)                               *)
EveryClientEnds ==
    \A c \in Client : cl[c] = "waiting" /\ c \in inFlight ~> cl[c] = "done"

(* The string of an accepted client reaches the file, also when the parent *)
(* exits before it is read.                                                *)
AcceptedStringStored ==
    \A c \in Client : (child[c] = "read" /\ c \in inFlight) ~> c \in ToSet(file)
=============================================================================
