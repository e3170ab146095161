------------------------------- MODULE Sockets -------------------------------
(***************************************************************************)
(* The calls of the kernel the small programs are made of: stream and      *)
(* datagram sockets, fork and threads, the keyboard and the screen.  A     *)
(* program is a disjunction of calls, each between two places of its       *)
(* control: Recv(p, "read", 1, "reply", "gone") is the call at "read",     *)
(* which goes on at "reply", or at "gone" when it returns 0 or -1.         *)
(*                                                                         *)
(* A stream carries segments; a message is one, or several if it can be    *)
(* read in parts.  A read returns any run of segments that has arrived and *)
(* fits the buffer, whose size is given in segments.  An end of a connection  *)
(* is open while some task holds its descriptor.  To send to an end that   *)
(* is closed brings a reset back; to send after a reset raises SIGPIPE.    *)
(***************************************************************************)
EXTENDS Naturals, Sequences, SequencesExt, FiniteSets

CONSTANTS Procs,      \* the processes and threads a system may have
          Varied,     \* bound: those whose users type whatever they like
          MaxConns,   \* bound: connections at a time
          MaxTyped    \* bound: inputs typed by each user

VARIABLES system,     \* which programs run
          pc,         \* where each process is: "none" before it exists
          task,       \* the process a thread belongs to
          fd,         \* the descriptor in use: connection and end of it
          peer,       \* the sender of the datagram received last
          buf,        \* what the last receiving call left in the buffer
          var,        \* the other variable of the process that matters
          conn,       \* the connections
          backlog,    \* connections not accepted yet
          listening,  \* tasks that hold the listening socket
          mail,       \* datagrams that wait at the socket of a process
          disk,       \* the files of the server's machine
          said,       \* what the user of a process typed
          shown       \* what a process printed of what it received

net == <<conn, backlog, listening, mail, disk>>
locals == <<task, fd, peer, buf, var>>
screen == <<said, shown>>
vars == <<system, pc, locals, net, screen>>

Ends == {"c", "s"}
Other(e) == IF e = "c" THEN "s" ELSE "c"
NoConn == [in |-> [e \in Ends |-> <<>>], by |-> [e \in Ends |-> {}], rst |-> {}]
NoFd == [conn |-> 0, end |-> "c"]

(* What Init says for every system: start gives the place where each       *)
(* process starts, servers are those that have bound and listen.           *)
SocketsInit(start, servers, files) ==
    /\ pc = start
    /\ task = [p \in Procs |-> p]
    /\ fd = [p \in Procs |-> NoFd]
    /\ peer = [p \in Procs |-> p]
    /\ buf = [p \in Procs |-> <<>>]
    /\ var = [p \in Procs |-> <<>>]
    /\ conn = [i \in 1 .. MaxConns |-> NoConn]
    /\ backlog = <<>>
    /\ listening = servers
    /\ mail = [p \in Procs |-> <<>>]
    /\ disk = files
    /\ said = [p \in Procs |-> <<>>]
    /\ shown = [p \in Procs |-> <<>>]

-----------------------------------------------------------------------------
(* Control and local variables.                                            *)

At(p, l) == pc[p] = l
Goto(p, l) == pc' = [pc EXCEPT ![p] = l] /\ UNCHANGED system

Jump(p, at, next) ==
    At(p, at) /\ Goto(p, next) /\ UNCHANGED <<locals, net, screen>>

Assign(p, at, v, next) ==
    /\ At(p, at)
    /\ Goto(p, next)
    /\ var' = [var EXCEPT ![p] = v]
    /\ UNCHANGED <<task, fd, peer, buf, net, screen>>

(* Work on the files, and on the variable.                                 *)
Compute(p, at, v, files, next) ==
    /\ At(p, at)
    /\ Goto(p, next)
    /\ var' = [var EXCEPT ![p] = v]
    /\ disk' = files
    /\ UNCHANGED <<task, fd, peer, buf, conn, backlog, listening, mail, screen>>

(* The user of p types one of inputs.                                      *)
Type(p, at, inputs, next) ==
    /\ At(p, at)
    /\ Len(said[p]) < MaxTyped
    /\ \E m \in inputs : /\ var' = [var EXCEPT ![p] = m]
                         /\ said' = [said EXCEPT ![p] = Append(@, m)]
    /\ Goto(p, next)
    /\ UNCHANGED <<task, fd, peer, buf, net, shown>>

Inputs(p, all, one) == IF p \in Varied THEN all ELSE {one}

Show(p, at, what, next) ==
    /\ At(p, at)
    /\ Goto(p, next)
    /\ shown' = [shown EXCEPT ![p] = @ \o what]
    /\ UNCHANGED <<locals, net, said>>

-----------------------------------------------------------------------------
(* Connections.                                                            *)

Mine(p) == conn[fd[p].conn]
Open(p) == fd[p].conn # 0 /\ task[p] \in Mine(p).by[fd[p].end]
PeerClosed(p) == Mine(p).by[Other(fd[p].end)] = {}
Reset(p) == fd[p].end \in Mine(p).rst
Arrived(p) == Mine(p).in[fd[p].end]

(* Tasks T give up end e of connection k.  Unread data turns the end of    *)
(* the stream into a reset.                                                *)
Drop(k, e, T) ==
    [k EXCEPT !.by[e] = @ \ T,
              !.rst = IF k.by[e] # {} /\ k.by[e] \subseteq T /\ k.in[e] # <<>>
                      THEN @ \cup {Other(e)} ELSE @]

Connect(p, at, next, refused) ==
    /\ At(p, at)
    /\ IF listening = {}
       THEN Goto(p, refused) /\ UNCHANGED <<locals, net, screen>>
       ELSE \E i \in 1 .. MaxConns :
              /\ conn[i] = NoConn
              /\ \A j \in 1 .. i - 1 : conn[j] # NoConn
              /\ conn' = [conn EXCEPT ![i].by = [c |-> {task[p]}, s |-> {"kernel"}]]
              /\ backlog' = Append(backlog, i)
              /\ fd' = [fd EXCEPT ![p] = [conn |-> i, end |-> "c"]]
              /\ Goto(p, next)
              /\ UNCHANGED <<task, peer, buf, var, listening, mail, disk, screen>>

Accept(p, at, next) ==
    /\ At(p, at)
    /\ task[p] \in listening
    /\ backlog # <<>>
    /\ fd' = [fd EXCEPT ![p] = [conn |-> Head(backlog), end |-> "s"]]
    /\ conn' = [conn EXCEPT ![Head(backlog)].by["s"] = {task[p]}]
    /\ backlog' = Tail(backlog)
    /\ Goto(p, next)
    /\ UNCHANGED <<task, peer, buf, var, listening, mail, disk, screen>>

(* A read of at most n; show says that the program prints what it read.    *)
Read(p, n, show) ==
    \E k \in 1 .. Len(Arrived(p)) :
      LET got == SubSeq(Arrived(p), 1, k) IN
      /\ k <= n
      /\ buf' = [buf EXCEPT ![p] = got]
      /\ conn' = [conn EXCEPT ![fd[p].conn].in[fd[p].end] =
                                 SubSeq(@, k + 1, Len(@))]
      /\ shown' = IF show THEN [shown EXCEPT ![p] = @ \o got] ELSE shown

Receive(p, at, n, show, next, zero, failed) ==
    /\ At(p, at)
    /\ \/ /\ Open(p)
          /\ Read(p, n, show)
          /\ Goto(p, next)
       \/ /\ Open(p) /\ Arrived(p) = <<>> /\ PeerClosed(p) /\ ~Reset(p)
          /\ Goto(p, zero)
          /\ UNCHANGED <<buf, conn, shown>>
       \/ /\ Open(p) => Arrived(p) = <<>> /\ Reset(p)
          /\ Goto(p, failed)
          /\ UNCHANGED <<buf, conn, shown>>
    /\ UNCHANGED <<task, fd, peer, var, backlog, listening, mail, disk, said>>

(* A read of one field of known size, kept in the variable after those     *)
(* in kept.  At the end of the stream the field keeps what it was, which   *)
(* no answer can reach any more: the program only goes on.                 *)
Field(p, at, kept, next, end) ==
    /\ At(p, at)
    /\ IF Open(p) /\ Arrived(p) # <<>>
       THEN /\ var' = [var EXCEPT ![p] = kept \o SubSeq(Arrived(p), 1, 1)]
            /\ conn' = [conn EXCEPT ![fd[p].conn].in[fd[p].end] = Tail(@)]
            /\ Goto(p, next)
       ELSE /\ Open(p) => PeerClosed(p) \/ Reset(p)
            /\ Goto(p, end)
            /\ UNCHANGED <<var, conn>>
    /\ UNCHANGED <<task, fd, peer, buf, backlog, listening, mail, disk, screen>>

Recv(p, at, n, next, end) == Receive(p, at, n, FALSE, next, end, end)
RecvPrint(p, at, n, next, end) == Receive(p, at, n, TRUE, next, end, end)

-----------------------------------------------------------------------------
(* The end of tasks: every descriptor they hold is closed.                  *)

Ended(T) == [p \in Procs |-> IF task[p] \in T /\ pc[p] # "none"
                             THEN "done" ELSE pc[p]]

Closed(T) ==
    /\ listening' = listening \ T
    /\ LET refused == IF listening \subseteq T THEN T \cup {"kernel"} ELSE T IN
       conn' = [i \in DOMAIN conn |-> Drop(Drop(conn[i], "c", T), "s", refused)]
    /\ backlog' = IF listening \subseteq T THEN <<>> ELSE backlog

Forgotten(T, v) == [p \in Procs |-> IF task[p] \in T THEN <<>> ELSE v[p]]

Kill(T) ==
    /\ pc' = Ended(T)
    /\ Closed(T)
    /\ buf' = Forgotten(T, buf)
    /\ var' = Forgotten(T, var)
    /\ fd' = [p \in Procs |-> IF task[p] \in T /\ fd[p].end = "s" THEN NoFd ELSE fd[p]]
    /\ peer' = [p \in Procs |-> IF task[p] \in T THEN p ELSE peer[p]]
    /\ UNCHANGED <<system, task, mail, disk, screen>>

Exit(p, at) == At(p, at) /\ Kill({task[p]})

(* Ctrl-C at the terminal of p ends p and the processes T that share the   *)
(* terminal while p is alive.                                              *)
Interrupt(p, T) ==
    /\ pc[p] \notin {"none", "done"}
    /\ Len(said[p]) < MaxTyped
    /\ pc' = Ended(T)
    /\ Closed(T)
    /\ said' = [said EXCEPT ![p] = Append(@, <<"^C">>)]
    /\ UNCHANGED <<system, locals, mail, disk, shown>>

(* The same without a trace of it.                                         *)
Quit(p) == pc[p] \notin {"none", "done"} /\ Kill({p})

(* The thread p ends, its process goes on.                                 *)
Return(p, at) == Jump(p, at, "done")

Close(p, at, next) ==
    /\ At(p, at)
    /\ Goto(p, next)
    /\ conn' = IF fd[p].conn = 0 THEN conn
               ELSE [conn EXCEPT ![fd[p].conn] = Drop(@, fd[p].end, {task[p]})]
    /\ UNCHANGED <<locals, backlog, listening, mail, disk, screen>>

CloseListener(p, at, next) ==
    /\ At(p, at)
    /\ Goto(p, next)
    /\ listening' = listening \ {task[p]}
    /\ IF listening' = {}
       THEN /\ conn' = [i \in DOMAIN conn |-> Drop(conn[i], "s", {"kernel"})]
            /\ backlog' = <<>>
       ELSE UNCHANGED <<conn, backlog>>
    /\ UNCHANGED <<locals, mail, disk, screen>>

(* A send of the segments m, and where it goes on after a reset.  On a      *)
(* descriptor that is closed it returns -1, which no program looks at.     *)
SendOr(p, at, m, next, WhenReset) ==
    /\ At(p, at)
    /\ \/ /\ ~Open(p) \/ m = <<>>
          /\ Goto(p, next)
          /\ UNCHANGED <<locals, net, screen>>
       \/ /\ Open(p) /\ m # <<>> /\ ~Reset(p)
          /\ conn' = IF PeerClosed(p)
                     THEN [conn EXCEPT ![fd[p].conn].rst = @ \cup {fd[p].end}]
                     ELSE [conn EXCEPT ![fd[p].conn].in[Other(fd[p].end)] = @ \o m]
          /\ Goto(p, next)
          /\ UNCHANGED <<locals, backlog, listening, mail, disk, screen>>
       \/ Open(p) /\ m # <<>> /\ Reset(p) /\ WhenReset

Send(p, at, m, next) == SendOr(p, at, m, next, Kill({task[p]}))

(* The fields of the variable are sent one by one.                         *)
SendFields(p, at, next) ==
    /\ At(p, at)
    /\ IF var[p] = <<>>
       THEN Goto(p, next) /\ UNCHANGED <<locals, net, screen>>
       ELSE IF Open(p) /\ Reset(p)
       THEN Kill({task[p]})
       ELSE /\ conn' = IF ~Open(p) THEN conn ELSE IF PeerClosed(p)
                       THEN [conn EXCEPT ![fd[p].conn].rst = @ \cup {fd[p].end}]
                       ELSE [conn EXCEPT ![fd[p].conn].in[Other(fd[p].end)] =
                                           Append(@, Head(var[p]))]
            /\ var' = [var EXCEPT ![p] = Tail(@)]
            /\ Goto(p, IF Len(var[p]) > 1 THEN at ELSE next)
            /\ UNCHANGED <<task, fd, peer, buf, backlog, listening, mail, disk, screen>>

(* Windows has no SIGPIPE.                                                 *)
SendWindows(p, at, m, next) ==
    SendOr(p, at, m, next, Goto(p, next) /\ UNCHANGED <<locals, net, screen>>)

(* On a UNIX-domain socket the first write to a closed end is the one that *)
(* raises SIGPIPE.                                                         *)
SendUnix(p, at, m, next) ==
    /\ At(p, at)
    /\ IF PeerClosed(p) THEN Kill({task[p]}) ELSE Send(p, at, m, next)

-----------------------------------------------------------------------------
(* Processes and threads.                                                  *)

(* The new process w has a copy of every descriptor and variable of p.  A  *)
(* name whose process has ended serves again.                              *)
Fork(p, at, kids, child, next) ==
    /\ At(p, at)
    /\ \E w \in kids : pc[w] \in {"none", "done"}
    /\ LET w == CHOOSE v \in kids : pc[v] \in {"none", "done"} IN
         /\ pc' = [pc EXCEPT ![p] = next, ![w] = child]
         /\ fd' = [fd EXCEPT ![w] = fd[p]]
         /\ buf' = [buf EXCEPT ![w] = buf[p]]
         /\ var' = [var EXCEPT ![w] = var[p]]
         /\ peer' = [peer EXCEPT ![w] = peer[p]]
         /\ conn' = [i \in DOMAIN conn |-> [conn[i] EXCEPT !.by =
                       [e \in Ends |-> IF task[p] \in @[e] THEN @[e] \cup {w} ELSE @[e]]]]
         /\ listening' = IF task[p] \in listening THEN listening \cup {w}
                         ELSE listening
    /\ UNCHANGED <<system, task, backlog, mail, disk, screen>>

(* The system makes no process, and the program goes on.                   *)
ForkRefused(p, at, next) == Jump(p, at, next)

Thread(p, at, kids, start, next) ==
    /\ At(p, at)
    /\ \E w \in kids : pc[w] = "none"
    /\ LET w == CHOOSE v \in kids : pc[v] = "none" IN
         /\ pc' = [pc EXCEPT ![p] = next, ![w] = start]
         /\ task' = [task EXCEPT ![w] = task[p]]
         /\ fd' = [fd EXCEPT ![w] = fd[p]]
    /\ UNCHANGED <<system, peer, buf, var, net, screen>>

(* wait: some child that has ended.                                        *)
Wait(p, at, kids, next) ==
    (\E w \in kids : pc[w] = "done") /\ Jump(p, at, next)

-----------------------------------------------------------------------------
(* Datagrams.  One that is sent may be lost.                               *)

Datagram(from, body) == [from |-> from, body |-> body]

(* From and to a socket sock of the process, which is p for its only one.   *)
SendOn(p, sock, at, to, body, mayLose, next) ==
    /\ At(p, at)
    /\ Goto(p, next)
    /\ \/ mail' = IF pc[to] = "done" THEN mail
                  ELSE [mail EXCEPT ![to] = Append(@, Datagram(sock, body))]
       \/ mayLose /\ UNCHANGED mail
    /\ UNCHANGED <<locals, conn, backlog, listening, disk, screen>>

SendTo(p, at, to, body, mayLose, next) == SendOn(p, p, at, to, body, mayLose, next)

(* A datagram is cut to the size n of the buffer.                           *)
ReceiveFrom(p, at, n, show, next) ==
    /\ At(p, at)
    /\ mail[p] # <<>>
    /\ LET body == Head(mail[p]).body
           got == SubSeq(body, 1, IF n < Len(body) THEN n ELSE Len(body)) IN
       /\ buf' = [buf EXCEPT ![p] = got]
       /\ shown' = IF show THEN [shown EXCEPT ![p] = @ \o got] ELSE shown
    /\ peer' = [peer EXCEPT ![p] = Head(mail[p]).from]
    /\ mail' = [mail EXCEPT ![p] = Tail(@)]
    /\ Goto(p, next)
    /\ UNCHANGED <<task, fd, var, conn, backlog, listening, disk, said>>

RecvFrom(p, at, n, next) == ReceiveFrom(p, at, n, FALSE, next)
RecvFromPrint(p, at, n, next) == ReceiveFrom(p, at, n, TRUE, next)
=============================================================================
