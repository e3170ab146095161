------------------------------ MODULE UnitServers ------------------------------
(***************************************************************************)
(* The TCP servers of Units 6 and 8: a process or a thread for each client *)
(* (concurrent, Getsockname-peer), the daemons, which serve one connection *)
(* after the other, and the super-server, which starts a service for each. *)
(***************************************************************************)
EXTENDS NameServers

CONSTANTS StdioCap,    \* bound: connections whose output stdio holds back
          MAXSIZE      \* the pieces of text a buffer of 90 characters holds
ASSUME StdioCapAssumption == StdioCap \in Nat \ {0}
ASSUME MAXSIZEAssumption == MAXSIZE \in Nat \ {0}

-----------------------------------------------------------------------------
(* Unit 6.  A line is one read: the clients send the whole buffer, and not *)
(* before the line before is answered.                                     *)

quit == <<"quit">>
Blank == <<"blank", "">>

(* A line that fills the buffer so far that what the server appends to it  *)
(* is written over what lies behind: the program goes on with that, or it  *)
(* ends, or it has lost its descriptors and serves nobody any more.        *)
Long == <<"long">>
Overrun(p, at, next) == Jump(p, at, next) \/ Exit(p, at) \/ Jump(p, at, "lost")

Appended(line) == IF system.name # "socket names" /\ line = Long THEN "append" ELSE "send"

AnswerOf(line) ==
    CASE system.name = "socket names" -> <<"Acknowledged", "">>
      [] system.name # "socket names" /\ <<line>> = Long -> <<"cut", line>>
      [] system.name = "concurrent" /\ <<line>> # Long -> <<"processed by child", line>>
      [] system.name = "threads" /\ <<line>> # Long -> <<"ack", line>>

(* A fault: the parent serves the client itself.                           *)
ConcurrentServerIterative(x, kids) ==
    \/ Accept(x, "accept", "read")
    \/ Recv(x, "read", 1, "check", "close")
    \/ Jump(x, "check", IF buf[x] = quit THEN "close" ELSE "send")
    \/ Send(x, "send", <<AnswerOf(buf[x][1])>>, "read")
    \/ Close(x, "close", "accept")

(* A child that has lost its descriptor notices at the next recv, and ends. *)
ConcurrentServer(x, kids) ==
    \/ Accept(x, "accept", "fork")
    \/ Fork(x, "fork", kids, "close_listener", "close_new")
    \/ ForkRefused(x, "fork", "close_new")
    \/ Close(x, "close_new", "accept")
    \/ \E w \in kids :
         \/ CloseListener(w, "close_listener", "read")
         \/ Recv(w, "read", 1, "check", "close")
         \/ Jump(w, "check", IF buf[w] = quit THEN "close" ELSE Appended(buf[w]))
         \/ Jump(w, "append", "send")
         \/ Exit(w, "append")
         \/ Send(w, "send", <<AnswerOf(buf[w][1])>>, "read")
         \/ Exit(w, "close")

(* Only a "quit" the user types ends it.                                    *)
ConcurrentClient(x) ==
    \/ Connect(x, "connect", "menu", "done")
    \/ Type(x, "menu", Inputs(x, {Long, quit}, <<"hi">>), "send")
    \/ Send(x, "send", var[x], IF var[x] = quit THEN "close" ELSE "reply")
    \/ Recv(x, "reply", 1, "show", "blank")
    \/ Show(x, "show", buf[x], "menu")
    \/ Show(x, "blank", <<Blank>>, "menu")
    \/ Exit(x, "close")

(* A fault: the thread that has lost its client ends the process.          *)
ThreadServerExits(x, kids) ==
    \/ Accept(x, "accept", "create")
    \/ Thread(x, "create", kids, "read", "accept")
    \/ \E w \in kids :
         \/ Recv(w, "read", 1, "send", "close")
         \/ Send(w, "send", <<AnswerOf(buf[w][1])>>, "read")
         \/ Exit(w, "close")

(* The descriptor is handed to the thread in memory of its own.  The buffer *)
(* is on the stack of the thread: an overrun is noticed, if it is, as soon  *)
(* as the thread returns, and then it ends the process.                     *)
ThreadServer(x, kids) ==
    \/ Accept(x, "accept", "create")
    \/ Thread(x, "create", kids, "read", "accept")
    \/ \E w \in kids :
         \/ Recv(w, "read", 1, Appended(buf'[w]), "close")
         \/ Assign(w, "append", Long, "overrun")
         \/ Overrun(w, "overrun", "send")
         \/ Send(w, "send", <<AnswerOf(buf[w][1])>>, "read")
         \/ Close(w, "close", "return")
         \/ Return(w, "return")
         \/ var[w] = Long /\ Exit(w, "return")

ThreadClient(x) ==
    \/ Connect(x, "connect", "menu", "done")
    \/ Type(x, "menu", Inputs(x, {Long, quit}, <<"hi">>), "send")
    \/ Send(x, "send", var[x], "reply")
    \/ Receive(x, "reply", 1, FALSE, "show", "blank", "close")
    \/ Show(x, "show", buf[x], "menu")
    \/ Show(x, "blank", <<Blank>>, "menu")
    \/ Exit(x, "close")
-----------------------------------------------------------------------------
(* Unit 8, daemons.  A text is a sequence of pieces; the first piece of    *)
(* each is as long as the greeting.  The clients are run again and again.  *)

Greeting == <<"Hello Daemon!">>
Mark == <<" - Processed ", "by Daemon">>

(* simple-daemon_Printf: the buffer is never cleared, so that the end of   *)
(* the answer before is still behind the greeting when it is marked again, *)
(* and behind what the buffer held at first, until a mark overruns it.     *)
Holding(n) == [k \in 1 .. n |-> "?"]
FirstOf(text) == SubSeq(text, 1, IF Len(text) < MAXSIZE THEN Len(text) ELSE MAXSIZE)

PrintfDaemon(x) ==
    \/ \E n \in 0 .. MAXSIZE : Assign(x, "start", Holding(n), "accept")
    \/ Accept(x, "accept", "recv")
    \/ Recv(x, "recv", 1, "received", "mark")
    \/ Assign(x, "received", Overlay(var[x], buf[x]), "mark")
    \/ Assign(x, "mark", var[x] \o Mark,
              IF Len(var[x] \o Mark) > MAXSIZE THEN "overrun" ELSE "send")
    \/ Overrun(x, "overrun", "send")
    \/ Send(x, "send", <<FirstOf(var[x])>>, "close")
    \/ Close(x, "close", "accept")

(* Syslog_daemon: the standard output was closed, and the connection took  *)
(* its descriptor.  stdio holds back what is printed; when that is more    *)
(* than it can hold, it goes to the client of the moment, which reads only *)
(* the beginning.                                                          *)
PrintOrFlush(x) == IF Len(var[x]) < StdioCap THEN "print" ELSE "flush"

Logged(x, at, entry, next) ==
    Compute(x, at, var[x], [disk EXCEPT !.log = Append(@, entry)], next)

SyslogDaemon(x) ==
    \/ Accept(x, "accept", "recv")
    \/ Recv(x, "recv", 1, PrintOrFlush(x), PrintOrFlush(x))
    \/ Send(x, "flush", <<<<"hello">>, <<"and more">>>>, "flushed")
    \/ Assign(x, "flushed", <<>>, "print")
    \/ Assign(x, "print", Append(var[x], "hello"), "log")
    \/ Logged(x, "log", "Connection", "send")
    \/ Send(x, "send", <<Greeting \o <<" (ACK by Daemon)">>>>, "close")
    \/ Close(x, "close", "accept")

(* The user runs the client again.                                         *)
Run(x) ==
    /\ MoreRuns
    /\ Type(x, "shell", {<<"run">>}, "connect")

GreetingClient(x) ==
    \/ Run(x)
    \/ Connect(x, "connect", "send", "shell")
    \/ Send(x, "send", Greeting, "reply")
    \/ RecvPrint(x, "reply", 1, "close", "close")
    \/ Close(x, "close", "shell")

(* Syslog: the simple server answers whatever recv returned, the one with  *)
(* priorities only what it received.                                       *)
LogServer(x) ==
    \/ Accept(x, "accept", "recv")
    \/ Recv(x, "recv", 1, "log", "warn")
    \/ Logged(x, "log", "received", "send")
    \/ Logged(x, "warn", "disconnected",
              IF system.name = "priorities" THEN "close" ELSE "send")
    \/ Send(x, "send", <<"ACK">>, "close")
    \/ Close(x, "close", "accept")

(* The answer is not read.                                                 *)
LogClient(x) ==
    \/ Run(x)
    \/ Connect(x, "connect", "send", "shell")
    \/ Send(x, "send", Greeting, "close")
    \/ Close(x, "close", "shell")

-----------------------------------------------------------------------------
(* Unit 8, inted: a port for each of three services.  select returns when  *)
(* a connection waits, or when the end of a service interrupts it, which   *)
(* leaves every port marked as ready: accept then waits at a port nobody   *)
(* has called.                                                             *)

Ports == 1 .. 3
Choice(c) == said[c][1][2]
PortOf(i) ==
    Choice(CHOOSE c \in Clients : /\ fd[c].conn = i /\ shown[c] = <<>>
                                  /\ conn[i].by["c"] \subseteq {c})
Called(port) == {k \in DOMAIN backlog : PortOf(backlog[k]) = port}
Ready == SelectSeq(<<1, 2, 3>>, LAMBDA port : Called(port) # {})

Select(x, at, next) ==
    Ready # <<>> /\ Assign(x, at, Ready, next)

Interrupted(x, w) ==
    /\ At(x, "select")
    /\ At(w, "exiting")
    /\ pc' = [pc EXCEPT ![x] = "accept", ![w] = "done"]
    /\ var' = [var EXCEPT ![x] = <<1, 2, 3>>]
    /\ UNCHANGED <<system, task, fd, peer, buf, net, screen>>

AcceptService(x, at, next) ==
    /\ At(x, at)
    /\ \E k \in Called(Head(var[x])) :
         /\ \A j \in Called(Head(var[x])) : k <= j
         /\ fd' = [fd EXCEPT ![x] = [conn |-> backlog[k], end |-> "s"]]
         /\ conn' = [conn EXCEPT ![backlog[k]].by["s"] = {task[x]}]
         /\ backlog' = RemoveAt(backlog, k)
    /\ Goto(x, next)
    /\ UNCHANGED <<task, peer, buf, var, listening, mail, disk, screen>>

(* echo_server sends all of its buffer, of which only the beginning was    *)
(* read; time_server does not read; upper_server sends what it read.  What *)
(* a program never wrote is "?", whatever it is.                           *)
Exits(w, at) ==
    /\ At(w, at)
    /\ Closed({w})
    /\ Goto(w, "exiting")
    /\ UNCHANGED <<locals, mail, disk, screen>>

Service(w) ==
    \/ Recv(w, "read", 1, IF Head(var[w]) = 1 THEN "echo" ELSE "upper",
                         IF Head(var[w]) = 1 THEN "silence" ELSE "exit")
    \/ Send(w, "echo", <<<<"message", "?">>>>, "exit")
    \/ Send(w, "silence", <<<<"?">>>>, "exit")
    \/ Send(w, "time", <<<<"time">>>>, "exit")
    \/ Send(w, "upper", <<<<"MESSAGE">>>>, "exit")
    \/ Exits(w, "exit")
    \/ Return(w, "exiting")

SuperServer(x, kids) ==
    \/ Select(x, "select", "accept")
    \/ AcceptService(x, "accept", "fork")
    \/ Fork(x, "fork", kids, IF Head(var[x]) = 2 THEN "time" ELSE "read", "close_new")
    \/ ForkRefused(x, "fork", "close_new")
    \/ Close(x, "close_new", "next")
    \/ Assign(x, "next", Tail(var[x]), IF Len(var[x]) > 1 THEN "accept" ELSE "select")
    \/ \E w \in kids : Service(w) \/ Interrupted(x, w)

(* The message is typed when the connection is there.                      *)
ServiceClient(x) ==
    \/ Type(x, "menu", Inputs(x, {<<"choice", port>> : port \in Ports}, <<"choice", 1>>), "connect")
    \/ Connect(x, "connect", IF Choice(x) = 2 THEN "reply" ELSE "message", "done")
    \/ Type(x, "message", {<<"message">>}, "send")
    \/ Send(x, "send", <<"message">>, "reply")
    \/ Recv(x, "reply", 1, "show", "close")
    \/ Show(x, "show", <<buf[x][1] \o IF Choice(x) = 2 THEN <<"?">> ELSE <<>>>>, "close")
    \/ Exit(x, "close")
=============================================================================
