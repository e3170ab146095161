------------------------------ MODULE ServicesProofs ------------------------------
(***************************************************************************)
(* Theorems about the services, for any numbers of clients, workers and    *)
(* connections: whoever holds a server's end of a connection serves it,     *)
(* each receiver of the lectures hears them in order, and a server ends    *)
(* only where a client says so, where stdio is full, or where what clients *)
(* sent overruns the buffer of the printf daemon or of a thread.           *)
(***************************************************************************)
EXTENDS Services, TLAPS

-----------------------------------------------------------------------------
(* Places between connections: a server, child or thread that is at one of *)
(* them has no connection of its own.                                      *)
Released == {"none", "start", "accept", "select", "next", "exiting", "return", "done"}

(* Process or thread q answers on the server's end of connection i, which  *)
(* task r holds open.                                                      *)
Serves(q, i, r) ==
    /\ q \in Procs \ Clients
    /\ task[q] = r
    /\ fd[q].conn = i
    /\ fd[q].end = "s"
    /\ pc[q] \notin Released

Domains == DOMAIN pc = Procs /\ DOMAIN task = Procs /\ DOMAIN fd = Procs

Shape(k) == DOMAIN k = {"in", "by", "rst"} /\ DOMAIN k.by = Ends
ConnOK == DOMAIN conn = 1 .. MaxConns /\ \A i \in 1 .. MaxConns : Shape(conn[i])

(* Only one system has threads; elsewhere each process is a task.          *)
OwnTask == system.name # "threads" => \A q \in Procs : task[q] = q

Served(i, r) == \E q \in Procs : Serves(q, i, r)
HeldServed ==
    \A i \in 1 .. MaxConns : \A r \in conn[i].by["s"] \ {"kernel"} : Served(i, r)

IInv == Domains /\ ConnOK /\ OwnTask /\ HeldServed

-----------------------------------------------------------------------------
(* What the calls do to the ends of connections.                           *)

(* The server's ends are held by nobody new.                               *)
Narrowed ==
    /\ ConnOK'
    /\ \A i \in 1 .. MaxConns : conn'[i].by["s"] \ {"kernel"} \subseteq conn[i].by["s"]

(* A process goes from one place to another, and nobody takes up or gives  *)
(* away a connection.                                                      *)
LEMMA MoveKeeps ==
    ASSUME IInv, Narrowed, NEW p \in Procs, NEW next,
           pc' = [pc EXCEPT ![p] = next],
           UNCHANGED <<system, task, fd>>,
           p \in Clients \/ pc[p] \in Released \/ next \notin Released
    PROVE  IInv' /\ UNCHANGED system
<1>1. Domains' /\ OwnTask'
  BY DEF IInv, Domains, OwnTask
<1>2. ASSUME NEW i \in 1 .. MaxConns, NEW r \in conn'[i].by["s"] \ {"kernel"}
      PROVE  Served(i, r)'
  <2>1. PICK q \in Procs : Serves(q, i, r)
    BY <1>2 DEF Narrowed, IInv, HeldServed, Served
  <2>2. pc'[q] \notin Released
    BY <2>1 DEF Serves, IInv, Domains
  <2>3. Serves(q, i, r)'
    BY <2>1, <2>2 DEF Serves
  <2> QED BY <2>3 DEF Served
<1> QED BY <1>1, <1>2 DEF IInv, Narrowed, HeldServed

LEMMA SameConn == ASSUME IInv, UNCHANGED conn PROVE Narrowed
  BY DEF IInv, ConnOK, Shape, Narrowed

(* Data that comes and goes, and resets, leave the ends as they are.       *)
LEMMA DataKeepsShape ==
    ASSUME NEW k, Shape(k), NEW v
    PROVE  /\ Shape([k EXCEPT !.in = v]) /\ [k EXCEPT !.in = v].by = k.by
           /\ Shape([k EXCEPT !.rst = v]) /\ [k EXCEPT !.rst = v].by = k.by
  BY DEF Shape

LEMMA DropShape ==
    ASSUME NEW k, Shape(k), NEW e \in Ends, NEW T
    PROVE  /\ Shape(Drop(k, e, T))
           /\ Drop(k, e, T).by[e] = k.by[e] \ T
           /\ \A d \in Ends \ {e} : Drop(k, e, T).by[d] = k.by[d]
  BY DEF Shape, Drop

-----------------------------------------------------------------------------
(* The calls that only move on.                                            *)
Moves(p, at, next) == p \in Clients \/ at \in Released \/ next \notin Released

LEMMA JumpKeeps ==
    ASSUME IInv, NEW p \in Procs, NEW at, NEW next, Moves(p, at, next),
           Jump(p, at, next)
    PROVE  IInv' /\ UNCHANGED system
  BY SameConn, MoveKeeps DEF Jump, At, Goto, Moves, locals, net

LEMMA AssignKeeps ==
    ASSUME IInv, NEW p \in Procs, NEW at, NEW v, NEW next, Moves(p, at, next),
           Assign(p, at, v, next)
    PROVE  IInv' /\ UNCHANGED system
  BY SameConn, MoveKeeps DEF Assign, At, Goto, Moves, net

LEMMA ComputeKeeps ==
    ASSUME IInv, NEW p \in Procs, NEW at, NEW v, NEW files, NEW next, Moves(p, at, next),
           Compute(p, at, v, files, next)
    PROVE  IInv' /\ UNCHANGED system
  BY SameConn, MoveKeeps DEF Compute, At, Goto, Moves

LEMMA TypeKeeps ==
    ASSUME IInv, NEW p \in Procs, NEW at, NEW inputs, NEW next, Moves(p, at, next),
           Type(p, at, inputs, next)
    PROVE  IInv' /\ UNCHANGED system
  BY SameConn, MoveKeeps DEF Type, At, Goto, Moves, net

LEMMA ShowKeeps ==
    ASSUME IInv, NEW p \in Procs, NEW at, NEW what, NEW next, Moves(p, at, next),
           Show(p, at, what, next)
    PROVE  IInv' /\ UNCHANGED system
  BY SameConn, MoveKeeps DEF Show, At, Goto, Moves, locals, net

LEMMA SendOnKeeps ==
    ASSUME IInv, NEW p \in Procs, NEW sock, NEW at, NEW to, NEW body, NEW mayLose, NEW next,
           Moves(p, at, next), SendOn(p, sock, at, to, body, mayLose, next)
    PROVE  IInv' /\ UNCHANGED system
  BY SameConn, MoveKeeps DEF SendOn, At, Goto, Moves, locals

LEMMA SendToKeeps ==
    ASSUME IInv, NEW p \in Procs, NEW at, NEW to, NEW body, NEW mayLose, NEW next,
           Moves(p, at, next), SendTo(p, at, to, body, mayLose, next)
    PROVE  IInv' /\ UNCHANGED system
  BY SendOnKeeps DEF SendTo

LEMMA ReceiveFromKeeps ==
    ASSUME IInv, NEW p \in Procs, NEW at, NEW n, NEW show, NEW next, Moves(p, at, next),
           ReceiveFrom(p, at, n, show, next)
    PROVE  IInv' /\ UNCHANGED system
  BY SameConn, MoveKeeps DEF ReceiveFrom, At, Goto, Moves

LEMMA RecvFromKeeps ==
    ASSUME IInv, NEW p \in Procs, NEW at, NEW n, NEW next, Moves(p, at, next),
           RecvFrom(p, at, n, next) \/ RecvFromPrint(p, at, n, next)
    PROVE  IInv' /\ UNCHANGED system
  BY ReceiveFromKeeps DEF RecvFrom, RecvFromPrint

-----------------------------------------------------------------------------
(* The calls on a stream.                                                  *)
InChanged(i, e, v) == [conn EXCEPT ![i].in[e] = v]
RstChanged(i, v) == [conn EXCEPT ![i].rst = v]

LEMMA InNarrowed ==
    ASSUME IInv, NEW i, NEW e, NEW v, conn' = InChanged(i, e, v)
    PROVE  Narrowed
<1>1. \A j \in 1 .. MaxConns : Shape(conn'[j]) /\ conn'[j].by = conn[j].by
  BY DataKeepsShape DEF IInv, ConnOK, InChanged
<1> QED BY <1>1 DEF IInv, ConnOK, InChanged, Narrowed

LEMMA RstNarrowed ==
    ASSUME IInv, NEW i, NEW v, conn' = RstChanged(i, v)
    PROVE  Narrowed
<1>1. \A j \in 1 .. MaxConns : Shape(conn'[j]) /\ conn'[j].by = conn[j].by
  BY DataKeepsShape DEF IInv, ConnOK, RstChanged
<1> QED BY <1>1 DEF IInv, ConnOK, RstChanged, Narrowed

LEMMA ReceiveKeeps ==
    ASSUME IInv, NEW p \in Procs, NEW at, NEW n, NEW show, NEW next, NEW zero, NEW failed,
           Moves(p, at, next), Moves(p, at, zero), Moves(p, at, failed),
           Receive(p, at, n, show, next, zero, failed)
    PROVE  IInv' /\ UNCHANGED system
<1>1. UNCHANGED <<task, fd>>
  BY DEF Receive
<1>2. PICK l \in {next, zero, failed} : Goto(p, l)
  BY DEF Receive
<1>3. Moves(p, at, l) /\ pc[p] = at /\ pc' = [pc EXCEPT ![p] = l] /\ UNCHANGED system
  BY <1>2 DEF Receive, Goto, At
<1>4. Narrowed
  <2>1. CASE Read(p, n, show)
    <3>1. PICK k \in 1 .. Len(Arrived(p)) :
            conn' = [conn EXCEPT ![fd[p].conn].in[fd[p].end] = SubSeq(@, k + 1, Len(@))]
      BY <2>1 DEF Read
    <3>2. conn' = InChanged(fd[p].conn, fd[p].end,
                            SubSeq(Arrived(p), k + 1, Len(Arrived(p))))
      BY <3>1 DEF InChanged, Arrived, Mine
    <3> QED BY <3>2, InNarrowed
  <2>2. CASE UNCHANGED conn
    BY <2>2, SameConn
  <2> QED BY <2>1, <2>2 DEF Receive
<1> QED BY <1>1, <1>3, <1>4, MoveKeeps DEF Moves

LEMMA RecvKeeps ==
    ASSUME IInv, NEW p \in Procs, NEW at, NEW n, NEW next, NEW end,
           Moves(p, at, next), Moves(p, at, end),
           Recv(p, at, n, next, end) \/ RecvPrint(p, at, n, next, end)
    PROVE  IInv' /\ UNCHANGED system
  BY ReceiveKeeps DEF Recv, RecvPrint

LEMMA FieldKeeps ==
    ASSUME IInv, NEW p \in Procs, NEW at, NEW kept, NEW next, NEW end,
           Moves(p, at, next), Moves(p, at, end),
           Field(p, at, kept, next, end)
    PROVE  IInv' /\ UNCHANGED system
<1>1. UNCHANGED <<task, fd>>
  BY DEF Field
<1>2. PICK l \in {next, end} : Goto(p, l)
  BY DEF Field
<1>3. Moves(p, at, l) /\ pc[p] = at /\ pc' = [pc EXCEPT ![p] = l] /\ UNCHANGED system
  BY <1>2 DEF Field, Goto, At
<1>4. Narrowed
  <2>1. CASE conn' = [conn EXCEPT ![fd[p].conn].in[fd[p].end] = Tail(@)]
    <3>1. conn' = InChanged(fd[p].conn, fd[p].end, Tail(Arrived(p)))
      BY <2>1 DEF InChanged, Arrived, Mine
    <3> QED BY <3>1, InNarrowed
  <2>2. CASE UNCHANGED conn
    BY <2>2, SameConn
  <2> QED BY <2>1, <2>2 DEF Field
<1> QED BY <1>1, <1>3, <1>4, MoveKeeps DEF Moves

-----------------------------------------------------------------------------
(* Connections that come and go.                                           *)

LEMMA ConnectKeeps ==
    ASSUME IInv, NEW p \in Clients, NEW at, NEW next, NEW refused,
           Connect(p, at, next, refused)
    PROVE  IInv' /\ UNCHANGED system
<1> USE ClientsAssumption
<1>1. CASE listening = {}
  <2>1. pc' = [pc EXCEPT ![p] = refused] /\ UNCHANGED <<system, task, fd, conn>>
    BY <1>1 DEF Connect, Goto, locals, net
  <2> QED BY <2>1, SameConn, MoveKeeps
<1>2. CASE listening # {}
  <2>1. PICK i \in 1 .. MaxConns :
          /\ conn' = [conn EXCEPT ![i].by = [c |-> {task[p]}, s |-> {"kernel"}]]
          /\ fd' = [fd EXCEPT ![p] = [conn |-> i, end |-> "c"]]
          /\ pc' = [pc EXCEPT ![p] = next]
          /\ UNCHANGED <<system, task>>
    BY <1>2 DEF Connect, Goto
  <2>2. Domains' /\ OwnTask'
    BY <2>1 DEF IInv, Domains, OwnTask
  <2>3. \A j \in 1 .. MaxConns :
          /\ Shape(conn'[j])
          /\ conn'[j].by["s"] \ {"kernel"} \subseteq conn[j].by["s"]
    BY <2>1 DEF IInv, ConnOK, Shape, Ends
  <2>4. ConnOK'
    BY <2>1, <2>3 DEF IInv, ConnOK
  <2>5. ASSUME NEW j \in 1 .. MaxConns, NEW r \in conn'[j].by["s"] \ {"kernel"}
        PROVE  Served(j, r)'
    <3>1. PICK q \in Procs : Serves(q, j, r)
      BY <2>3, <2>5 DEF IInv, HeldServed, Served
    <3>2. q # p
      BY <3>1 DEF Serves
    <3>3. Serves(q, j, r)'
      BY <2>1, <3>1, <3>2 DEF Serves, IInv, Domains
    <3> QED BY <3>3 DEF Served
  <2> QED BY <2>1, <2>2, <2>4, <2>5 DEF IInv, HeldServed
<1> QED BY <1>1, <1>2

(* The server takes connection i.                                          *)
LEMMA TakeKeeps ==
    ASSUME IInv, NEW p \in Procs \ Clients, NEW i, NEW next,
           pc[p] \in Released, next \notin Released,
           pc' = [pc EXCEPT ![p] = next],
           fd' = [fd EXCEPT ![p] = [conn |-> i, end |-> "s"]],
           conn' = [conn EXCEPT ![i].by["s"] = {task[p]}],
           UNCHANGED <<system, task>>
    PROVE  IInv' /\ UNCHANGED system
<1>1. Domains' /\ OwnTask'
  BY DEF IInv, Domains, OwnTask
<1>2. \A j \in 1 .. MaxConns :
        /\ Shape(conn'[j])
        /\ j # i => conn'[j].by = conn[j].by
        /\ j = i => conn'[j].by["s"] = {task[p]}
  BY DEF IInv, ConnOK, Shape, Ends
<1>3. ConnOK'
  BY <1>2 DEF IInv, ConnOK
<1>4. ASSUME NEW j \in 1 .. MaxConns, NEW r \in conn'[j].by["s"] \ {"kernel"}
      PROVE  Served(j, r)'
  <2>1. CASE j = i
    <3>1. r = task[p]
      BY <1>2, <1>4, <2>1
    <3>2. Serves(p, j, r)'
      BY <2>1, <3>1 DEF Serves, IInv, Domains
    <3> QED BY <3>2 DEF Served
  <2>2. CASE j # i
    <3>1. PICK q \in Procs : Serves(q, j, r)
      BY <1>2, <1>4, <2>2 DEF IInv, HeldServed, Served
    <3>2. q # p
      BY <3>1 DEF Serves
    <3>3. Serves(q, j, r)'
      BY <3>1, <3>2 DEF Serves, IInv, Domains
    <3> QED BY <3>3 DEF Served
  <2> QED BY <2>1, <2>2
<1> QED BY <1>1, <1>3, <1>4 DEF IInv, HeldServed

LEMMA AcceptKeeps ==
    ASSUME IInv, NEW p \in Procs \ Clients, NEW at \in Released, NEW next,
           next \notin Released, Accept(p, at, next)
    PROVE  IInv' /\ UNCHANGED system
  BY TakeKeeps DEF Accept, At, Goto

LEMMA AcceptServiceKeeps ==
    ASSUME IInv, NEW p \in Procs \ Clients, NEW at \in Released, NEW next,
           next \notin Released, AcceptService(p, at, next)
    PROVE  IInv' /\ UNCHANGED system
<1>1. PICK k : /\ fd' = [fd EXCEPT ![p] = [conn |-> backlog[k], end |-> "s"]]
               /\ conn' = [conn EXCEPT ![backlog[k]].by["s"] = {task[p]}]
  BY DEF AcceptService
<1> QED BY <1>1, TakeKeeps DEF AcceptService, At, Goto

(* Tasks T give up what they hold, and the processes of other tasks do not *)
(* move; those of T may.                                                   *)
LEMMA GiveUpKeeps ==
    ASSUME IInv, NEW T, Narrowed, Domains',
           \A j \in 1 .. MaxConns : \A r \in T : r \notin conn'[j].by["s"],
           \A q \in Procs : task[q] \notin T => pc'[q] = pc[q] /\ fd'[q] = fd[q],
           UNCHANGED <<system, task>>
    PROVE  IInv' /\ UNCHANGED system
<1>1. OwnTask'
  BY DEF IInv, OwnTask
<1>2. ASSUME NEW j \in 1 .. MaxConns, NEW r \in conn'[j].by["s"] \ {"kernel"}
      PROVE  Served(j, r)'
  <2>1. PICK q \in Procs : Serves(q, j, r)
    BY <1>2 DEF Narrowed, IInv, HeldServed, Served
  <2>2. task[q] \notin T
    BY <1>2, <2>1 DEF Serves
  <2>3. Serves(q, j, r)'
    BY <2>1, <2>2 DEF Serves
  <2> QED BY <2>3 DEF Served
<1> QED BY <1>1, <1>2 DEF IInv, Narrowed, HeldServed

LEMMA ClosedNarrows ==
    ASSUME IInv, NEW T, Closed(T)
    PROVE  Narrowed /\ \A j \in 1 .. MaxConns : \A r \in T : r \notin conn'[j].by["s"]
<1> DEFINE refused == IF listening \subseteq T THEN T \cup {"kernel"} ELSE T
           first(j) == Drop(conn[j], "c", T)
<1>1. conn' = [j \in 1 .. MaxConns |-> Drop(first(j), "s", refused)]
  BY DEF Closed, IInv, ConnOK
<1>2. ASSUME NEW j \in 1 .. MaxConns
      PROVE  Shape(conn'[j]) /\ conn'[j].by["s"] = conn[j].by["s"] \ refused
  <2>1. Shape(first(j)) /\ first(j).by["s"] = conn[j].by["s"]
    BY DropShape DEF IInv, ConnOK, Ends
  <2>2. conn'[j] = Drop(first(j), "s", refused)
    BY <1>1
  <2> HIDE DEF first, refused
  <2> QED BY <2>1, <2>2, DropShape DEF Ends
<1>3. T \subseteq refused
  OBVIOUS
<1>4. DOMAIN conn' = 1 .. MaxConns
  BY <1>1
<1> HIDE DEF refused
<1> QED BY <1>2, <1>3, <1>4 DEF Narrowed, ConnOK

LEMMA KillKeeps ==
    ASSUME IInv, NEW T, Kill(T)
    PROVE  IInv' /\ UNCHANGED system
<1>1. UNCHANGED <<system, task>> /\ Closed(T)
  BY DEF Kill
<1>2. \A q \in Procs : task[q] \notin T => pc'[q] = pc[q] /\ fd'[q] = fd[q]
  BY DEF Kill, Ended
<1>3. Domains'
  BY DEF Kill, Ended, Domains, IInv
<1> QED BY <1>1, <1>2, <1>3, ClosedNarrows, GiveUpKeeps

LEMMA ExitKeeps ==
    ASSUME IInv, NEW p, NEW at, Exit(p, at) \/ Quit(p)
    PROVE  IInv' /\ UNCHANGED system
  BY KillKeeps DEF Exit, Quit

LEMMA CloseKeeps ==
    ASSUME IInv, NEW p \in Procs, NEW at, NEW next, Close(p, at, next)
    PROVE  IInv' /\ UNCHANGED system
<1>1. /\ pc' = [pc EXCEPT ![p] = next] /\ UNCHANGED <<system, task, fd>>
  BY DEF Close, Goto, locals
<1>2. Narrowed
  <2>1. CASE UNCHANGED conn
    BY <2>1, SameConn
  <2>2. CASE conn' = [conn EXCEPT ![fd[p].conn] = Drop(@, fd[p].end, {task[p]})]
    <3>1. ASSUME NEW j \in 1 .. MaxConns
          PROVE  Shape(conn'[j]) /\ conn'[j].by["s"] \subseteq conn[j].by["s"]
      <4>1. conn'[j] = conn[j] \/ conn'[j] = Drop(conn[j], fd[p].end, {task[p]})
        BY <2>2 DEF IInv, ConnOK
      <4>2. CASE fd[p].end \in Ends
        BY <4>1, <4>2, DropShape DEF IInv, ConnOK, Ends
      <4>3. CASE fd[p].end \notin Ends
        BY <4>1, <4>3 DEF IInv, ConnOK, Ends, Drop, Shape
      <4> QED BY <4>2, <4>3
    <3> QED BY <2>2, <3>1 DEF Narrowed, ConnOK, IInv
  <2> QED BY <2>1, <2>2 DEF Close
<1>3. \A i \in 1 .. MaxConns : fd[p].conn = i /\ fd[p].end = "s" => task[p] \notin conn'[i].by["s"]
  <2>1. ASSUME NEW i \in 1 .. MaxConns, fd[p].conn = i, fd[p].end = "s"
        PROVE  conn'[i] = Drop(conn[i], "s", {task[p]})
    <3>1. fd[p].conn # 0
      BY <2>1
    <3> QED BY <2>1, <3>1 DEF Close, IInv, ConnOK
  <2> QED BY <2>1, DropShape DEF IInv, ConnOK, Ends
<1>4. Domains' /\ OwnTask'
  BY <1>1 DEF IInv, Domains, OwnTask
<1>5. ASSUME NEW i \in 1 .. MaxConns, NEW r \in conn'[i].by["s"] \ {"kernel"}
      PROVE  Served(i, r)'
  <2>1. PICK q \in Procs : Serves(q, i, r)
    BY <1>2, <1>5 DEF Narrowed, IInv, HeldServed, Served
  <2>2. q # p
    BY <1>3, <1>5, <2>1 DEF Serves
  <2>3. Serves(q, i, r)'
    BY <1>1, <2>1, <2>2 DEF Serves, IInv, Domains
  <2> QED BY <2>3 DEF Served
<1> QED BY <1>1, <1>2, <1>4, <1>5 DEF IInv, Narrowed, HeldServed

LEMMA CloseListenerKeeps ==
    ASSUME IInv, NEW p \in Procs, NEW at, NEW next, Moves(p, at, next),
           CloseListener(p, at, next)
    PROVE  IInv' /\ UNCHANGED system
<1>1. /\ pc[p] = at /\ pc' = [pc EXCEPT ![p] = next]
      /\ UNCHANGED <<system, task, fd>>
  BY DEF CloseListener, Goto, At, locals
<1>2. Narrowed
  <2>1. CASE UNCHANGED conn
    BY <2>1, SameConn
  <2>2. CASE conn' = [i \in DOMAIN conn |-> Drop(conn[i], "s", {"kernel"})]
    <3>1. \A j \in 1 .. MaxConns :
            Shape(conn'[j]) /\ conn'[j].by["s"] = conn[j].by["s"] \ {"kernel"}
      BY <2>2, DropShape DEF IInv, ConnOK, Ends
    <3> QED BY <2>2, <3>1 DEF Narrowed, ConnOK, IInv
  <2> QED BY <2>1, <2>2 DEF CloseListener
<1> QED BY <1>1, <1>2, MoveKeeps DEF Moves

LEMMA SendKeeps ==
    ASSUME IInv, NEW p \in Procs, NEW at, NEW m, NEW next, Moves(p, at, next),
           Send(p, at, m, next)
    PROVE  IInv' /\ UNCHANGED system
<1>1. CASE Kill({task[p]})
  BY <1>1, KillKeeps
<1>2. CASE ~Kill({task[p]})
  <2>1. /\ pc[p] = at /\ pc' = [pc EXCEPT ![p] = next]
        /\ UNCHANGED <<system, task, fd>>
    BY <1>2 DEF Send, SendOr, Goto, At, locals
  <2>2. \/ UNCHANGED conn
        \/ conn' = RstChanged(fd[p].conn, conn[fd[p].conn].rst \cup {fd[p].end})
        \/ conn' = InChanged(fd[p].conn, Other(fd[p].end),
                             conn[fd[p].conn].in[Other(fd[p].end)] \o m)
    BY <1>2 DEF Send, SendOr, net, RstChanged, InChanged
  <2>3. Narrowed
    BY <2>2, SameConn, RstNarrowed, InNarrowed
  <2> QED BY <2>1, <2>3, MoveKeeps DEF Moves
<1> QED BY <1>1, <1>2

-----------------------------------------------------------------------------
(* Processes and threads.                                                  *)

LEMMA ForkKeeps ==
    ASSUME IInv, system.name # "threads", NEW p \in Procs \ Clients,
           NEW kids \in SUBSET (Procs \ Clients),
           NEW at, at \notin Released, NEW child, child \notin Released,
           NEW next, next \notin Released,
           Fork(p, at, kids, child, next)
    PROVE  IInv' /\ UNCHANGED system
<1>1. PICK w \in kids :
        /\ pc[w] \in {"none", "done"}
        /\ pc' = [pc EXCEPT ![p] = next, ![w] = child]
        /\ fd' = [fd EXCEPT ![w] = fd[p]]
        /\ conn' = [i \in DOMAIN conn |-> [conn[i] EXCEPT !.by =
                      [e \in Ends |-> IF task[p] \in @[e] THEN @[e] \cup {w} ELSE @[e]]]]
  BY DEF Fork
<1>2. pc[p] = at /\ p # w /\ pc[w] \in Released /\ UNCHANGED <<system, task>>
  BY <1>1 DEF Fork, At, Released
<1>3. Domains' /\ OwnTask'
  BY <1>1, <1>2 DEF IInv, Domains, OwnTask
<1>4. \A i \in 1 .. MaxConns :
        /\ Shape(conn'[i])
        /\ conn'[i].by["s"] = IF task[p] \in conn[i].by["s"]
                              THEN conn[i].by["s"] \cup {w} ELSE conn[i].by["s"]
  BY <1>1 DEF IInv, ConnOK, Shape, Ends
<1>5. ConnOK'
  BY <1>1, <1>4 DEF IInv, ConnOK
<1>6. /\ \A q \in Procs \ {p, w} : pc'[q] = pc[q] /\ fd'[q] = fd[q]
      /\ pc'[p] = next /\ fd'[p] = fd[p] /\ pc'[w] = child /\ fd'[w] = fd[p]
      /\ task[w] = w /\ task[p] = p
  BY <1>1, <1>2 DEF IInv, Domains, OwnTask
<1>7. ASSUME NEW i \in 1 .. MaxConns, NEW r \in conn'[i].by["s"] \ {"kernel"}
      PROVE  Served(i, r)'
  <2>1. CASE r \in conn[i].by["s"]
    <3>1. PICK q \in Procs : Serves(q, i, r)
      BY <1>7, <2>1 DEF IInv, HeldServed, Served
    <3>2. q # w
      BY <1>2, <3>1 DEF Serves
    <3>3. Serves(q, i, r)'
      BY <1>2, <1>6, <3>1, <3>2 DEF Serves
    <3> QED BY <3>3 DEF Served
  <2>2. CASE r \notin conn[i].by["s"]
    <3>1. r = w /\ task[p] \in conn[i].by["s"]
      BY <1>4, <1>7, <2>2
    <3>2. CASE task[p] = "kernel"
      <4>1. p = "kernel"
        BY <1>6, <3>2
      <4> QED BY <3>1, <3>2, <4>1, ServerAssumption
    <3>3. CASE task[p] # "kernel"
      <4>1. PICK q \in Procs : Serves(q, i, task[p])
        BY <3>1, <3>3 DEF IInv, HeldServed, Served
      <4>2. q = p
        BY <4>1 DEF Serves, IInv, OwnTask
      <4>3. Serves(w, i, w)'
        BY <1>2, <1>6, <4>1, <4>2 DEF Serves
      <4> QED BY <3>1, <4>3 DEF Served
    <3> QED BY <3>2, <3>3
  <2> QED BY <2>1, <2>2
<1> QED BY <1>2, <1>3, <1>5, <1>7 DEF IInv, HeldServed

LEMMA ThreadKeeps ==
    ASSUME IInv, system.name = "threads", NEW p \in Procs \ Clients,
           NEW kids \in SUBSET (Procs \ Clients),
           NEW at, at # "none", NEW start, start \notin Released, NEW next,
           Thread(p, at, kids, start, next)
    PROVE  IInv' /\ UNCHANGED system
<1>1. PICK w \in kids :
        /\ pc[w] = "none"
        /\ pc' = [pc EXCEPT ![p] = next, ![w] = start]
        /\ task' = [task EXCEPT ![w] = task[p]]
        /\ fd' = [fd EXCEPT ![w] = fd[p]]
  BY DEF Thread
<1>2. pc[p] = at /\ p # w /\ UNCHANGED <<system, conn>>
  BY <1>1 DEF Thread, At, net
<1>3. Domains' /\ OwnTask' /\ ConnOK'
  BY <1>1, <1>2 DEF IInv, Domains, OwnTask, ConnOK
<1>4. /\ \A q \in Procs \ {p, w} : pc'[q] = pc[q] /\ fd'[q] = fd[q] /\ task'[q] = task[q]
      /\ pc'[w] = start /\ fd'[w] = fd[p] /\ task'[w] = task[p]
  BY <1>1, <1>2 DEF IInv, Domains
<1>5. ASSUME NEW i \in 1 .. MaxConns, NEW r \in conn'[i].by["s"] \ {"kernel"}
      PROVE  Served(i, r)'
  <2>1. PICK q \in Procs : Serves(q, i, r)
    BY <1>2, <1>5 DEF IInv, HeldServed, Served
  <2>2. q # w
    BY <1>1, <2>1 DEF Serves, Released
  <2>3. CASE q = p
    <3>1. Serves(w, i, r)'
      BY <1>4, <2>1, <2>3 DEF Serves
    <3> QED BY <3>1 DEF Served
  <2>4. CASE q # p
    <3>1. Serves(q, i, r)'
      BY <1>4, <2>1, <2>2, <2>4 DEF Serves
    <3> QED BY <3>1 DEF Served
  <2> QED BY <2>3, <2>4
<1> QED BY <1>2, <1>3, <1>5 DEF IInv, HeldServed

LEMMA ExitsKeeps ==
    ASSUME IInv, system.name # "threads", NEW w \in Procs, NEW at, Exits(w, at)
    PROVE  IInv' /\ UNCHANGED system
<1>1. /\ pc' = [pc EXCEPT ![w] = "exiting"] /\ UNCHANGED <<system, task, fd>>
      /\ Closed({w})
  BY DEF Exits, Goto, locals
<1>2. Domains' /\ \A q \in Procs : task[q] \notin {w} => pc'[q] = pc[q] /\ fd'[q] = fd[q]
  BY <1>1 DEF IInv, Domains, OwnTask
<1> QED BY <1>1, <1>2, ClosedNarrows, GiveUpKeeps

LEMMA InterruptedKeeps ==
    ASSUME IInv, NEW p \in Procs, NEW w \in Procs, Interrupted(p, w)
    PROVE  IInv' /\ UNCHANGED system
<1>1. /\ pc[p] = "select" /\ pc[w] = "exiting" /\ p # w
      /\ pc' = [pc EXCEPT ![p] = "accept", ![w] = "done"]
      /\ UNCHANGED <<system, task, fd, conn>>
  BY DEF Interrupted, At, net
<1>2. Domains' /\ OwnTask' /\ ConnOK'
  BY <1>1 DEF IInv, Domains, OwnTask, ConnOK
<1>3. ASSUME NEW i \in 1 .. MaxConns, NEW r \in conn'[i].by["s"] \ {"kernel"}
      PROVE  Served(i, r)'
  <2>1. PICK q \in Procs : Serves(q, i, r)
    BY <1>1, <1>3 DEF IInv, HeldServed, Served
  <2>2. q \notin {p, w}
    BY <1>1, <2>1 DEF Serves, Released
  <2>3. Serves(q, i, r)'
    BY <1>1, <2>1, <2>2 DEF Serves, IInv, Domains
  <2> QED BY <2>3 DEF Served
<1> QED BY <1>1, <1>2, <1>3 DEF IInv, HeldServed

LEMMA query_serverKeeps ==
    ASSUME IInv, NEW p \in Procs, NEW at, NEW next, Moves(p, at, next),
           query_server(p, at, next)
    PROVE  IInv' /\ UNCHANGED system
  BY SameConn, MoveKeeps DEF query_server, At, Goto, Moves

LEMMA LecturedKeeps ==
    ASSUME IInv, NEW p \in Procs, NEW at, NEW next, Moves(p, at, next),
           Lectured(p, at, next)
    PROVE  IInv' /\ UNCHANGED system
  BY SameConn, MoveKeeps DEF Lectured, At, Goto, Moves, locals

LEMMA ListenKeeps ==
    ASSUME IInv, NEW p \in Procs, NEW at, NEW next, Moves(p, at, next),
           Listen(p, at, next)
    PROVE  IInv' /\ UNCHANGED system
  BY SameConn, MoveKeeps DEF Listen, At, Goto, Moves

LEMMA ChosenKeeps ==
    ASSUME IInv, NEW p \in Procs, NEW choice, NEW next, next \notin Released,
           Chosen(p, choice, next)
    PROVE  IInv' /\ UNCHANGED system
  BY SameConn, MoveKeeps DEF Chosen, Goto, net

LEMMA ServiceKeeps ==
    ASSUME IInv, system.name # "threads", NEW w \in Procs, Service(w)
    PROVE  IInv' /\ UNCHANGED system
  BY RecvKeeps, SendKeeps, ExitsKeeps, JumpKeeps
     DEF Service, Return, Moves, Released

-----------------------------------------------------------------------------
(* The programs: each is a disjunction of calls.                           *)

LEMMA PalindromesKeep ==
    ASSUME IInv, NEW x \in Procs,
           PalindromeServer(x) \/ PalindromeClient(x)
    PROVE  IInv' /\ UNCHANGED system
<1>1. CASE PalindromeServer(x)
  BY <1>1, RecvFromKeeps, JumpKeeps, SendToKeeps, ExitKeeps
     DEF PalindromeServer, Moves, Released
<1>2. CASE PalindromeClient(x)
  BY <1>2, TypeKeeps, SendToKeeps, RecvFromKeeps, ExitKeeps
     DEF PalindromeClient, Moves, Released
<1> QED BY <1>1, <1>2

LEMMA TextDatagramsKeep ==
    ASSUME IInv, NEW x \in Procs,
           TextDatagramServer(x) \/ TextDatagramClient(x)
    PROVE  IInv' /\ UNCHANGED system
<1>1. CASE TextDatagramServer(x)
  BY <1>1, RecvFromKeeps, AssignKeeps, SendToKeeps
     DEF TextDatagramServer, Moves, Released
<1>2. CASE TextDatagramClient(x)
  BY <1>2, TypeKeeps, SendToKeeps, RecvFromKeeps, ExitKeeps
     DEF TextDatagramClient, Moves, Released
<1> QED BY <1>1, <1>2

LEMMA StatisticsDatagramsKeep ==
    ASSUME IInv, NEW x \in Procs,
           StatisticsDatagramServer(x) \/ StatisticsDatagramClient(x)
    PROVE  IInv' /\ UNCHANGED system
<1>1. CASE StatisticsDatagramServer(x)
  BY <1>1, RecvFromKeeps, JumpKeeps, SendToKeeps
     DEF StatisticsDatagramServer, Moves, Released
<1>2. CASE StatisticsDatagramClient(x)
  BY <1>2, TypeKeeps, SendToKeeps, RecvFromKeeps, ExitKeeps
     DEF StatisticsDatagramClient, Moves, Released
<1> QED BY <1>1, <1>2

LEMMA PermutationsKeep ==
    ASSUME IInv, NEW x \in Procs,
           PermutationServer(x) \/ PermutationClient(x)
    PROVE  IInv' /\ UNCHANGED system
<1>1. CASE PermutationServer(x)
  BY <1>1, RecvFromKeeps, ShowKeeps, SendToKeeps
     DEF PermutationServer, Moves, Released
<1>2. CASE PermutationClient(x)
  BY <1>2, TypeKeeps, SendToKeeps, RecvFromKeeps, ExitKeeps
     DEF PermutationClient, Moves, Released
<1> QED BY <1>1, <1>2

LEMMA StudentDatagramServerKeeps ==
    ASSUME IInv, NEW x \in Procs \ Clients, NEW kids \in SUBSET (Procs \ Clients),
           system.name # "threads", StudentDatagramServer(x, kids)
    PROVE  IInv' /\ UNCHANGED system
  BY RecvFromKeeps, ForkKeeps, JumpKeeps, SendOnKeeps, ExitKeeps
     DEF StudentDatagramServer, ForkRefused, Moves, Released

LEMMA StudentDatagramClientKeeps ==
    ASSUME IInv, NEW x \in Procs, StudentDatagramClient(x)
    PROVE  IInv' /\ UNCHANGED system
  BY TypeKeeps, SendToKeeps, RecvFromKeeps, ExitKeeps
     DEF StudentDatagramClient, Moves, Released

LEMMA LocalDnsKeeps ==
    ASSUME IInv, NEW x \in Procs, LocalDns(x)
    PROVE  IInv' /\ UNCHANGED system
  BY AssignKeeps, RecvFromKeeps, SendOnKeeps, query_serverKeeps, SendToKeeps
     DEF LocalDns, Moves, Released

LEMMA HierarchyServerKeeps ==
    ASSUME IInv, NEW x \in Procs, NEW answer, HierarchyServer(x, answer)
    PROVE  IInv' /\ UNCHANGED system
  BY RecvFromKeeps, SendToKeeps
     DEF HierarchyServer, Moves, Released

LEMMA HierarchyClientKeeps ==
    ASSUME IInv, NEW x \in Clients, HierarchyClient(x)
    PROVE  IInv' /\ UNCHANGED system
  BY ClientsAssumption, SendToKeeps, RecvFromKeeps, ShowKeeps, ExitKeeps
     DEF HierarchyClient, Moves, Released

LEMMA ResolversKeep ==
    ASSUME IInv, NEW x \in Procs,
           ResolverServer(x) \/ TalkingServer(x) \/ ResolverClient(x)
    PROVE  IInv' /\ UNCHANGED system
<1>1. CASE ResolverServer(x)
  BY <1>1, RecvFromKeeps, JumpKeeps, SendToKeeps
     DEF ResolverServer, Moves, Released
<1>2. CASE TalkingServer(x)
  BY <1>2, RecvFromKeeps, JumpKeeps, TypeKeeps, SendToKeeps, ExitKeeps
     DEF TalkingServer, Moves, Released
<1>3. CASE ResolverClient(x)
  BY <1>3, TypeKeeps, SendToKeeps, RecvFromKeeps, JumpKeeps, ExitKeeps
     DEF ResolverClient, SendToAddress, Moves, Released
<1> QED BY <1>1, <1>2, <1>3

LEMMA WebsitesKeep ==
    ASSUME IInv, NEW x \in Procs \ Clients, NEW kids \in SUBSET (Procs \ Clients),
           system.name # "threads", WebsiteServer(x, kids)
    PROVE  IInv' /\ UNCHANGED system
  BY AcceptKeeps, ForkKeeps, JumpKeeps, CloseKeeps, CloseListenerKeeps, FieldKeeps,
     SendKeeps, ExitKeeps
     DEF WebsiteServer, ForkRefused, Moves, Released

LEMMA WebsiteClientKeeps ==
    ASSUME IInv, NEW x \in Clients, WebsiteClient(x)
    PROVE  IInv' /\ UNCHANGED system
  BY ClientsAssumption, TypeKeeps, ConnectKeeps, SendKeeps, RecvKeeps, CloseKeeps, ExitKeeps
     DEF WebsiteClient, Moves, Released

LEMMA LecturesKeep ==
    ASSUME IInv, NEW x \in Procs,
           Sender(x) \/ BasicReceiver(x) \/ JoiningReceiver(x)
    PROVE  IInv' /\ UNCHANGED system
<1>1. CASE Sender(x)
  BY <1>1, TypeKeeps, LecturedKeeps
     DEF Sender, Moves, Released
<1>2. CASE BasicReceiver(x)
  BY <1>2, AssignKeeps, ListenKeeps
     DEF BasicReceiver, Moves, Released
<1>3. CASE JoiningReceiver(x)
  BY <1>3, AssignKeeps, ChosenKeeps, ListenKeeps, ExitKeeps
     DEF JoiningReceiver, Moves, Released
<1> QED BY <1>1, <1>2, <1>3

LEMMA ConcurrentServerKeeps ==
    ASSUME IInv, NEW x \in Procs \ Clients, NEW kids \in SUBSET (Procs \ Clients),
           system.name # "threads", ConcurrentServer(x, kids)
    PROVE  IInv' /\ UNCHANGED system
  BY AcceptKeeps, ForkKeeps, CloseKeeps, CloseListenerKeeps, RecvKeeps,
     JumpKeeps, SendKeeps, ExitKeeps
     DEF ConcurrentServer, ForkRefused, Appended, Moves, Released

LEMMA ThreadServerKeeps ==
    ASSUME IInv, NEW x \in Procs \ Clients, NEW kids \in SUBSET (Procs \ Clients),
           system.name = "threads", ThreadServer(x, kids)
    PROVE  IInv' /\ UNCHANGED system
  BY AcceptKeeps, ThreadKeeps, RecvKeeps, AssignKeeps, SendKeeps, CloseKeeps, JumpKeeps,
     ExitKeeps
     DEF ThreadServer, Appended, Overrun, Return, Moves, Released

LEMMA SuperServerKeeps ==
    ASSUME IInv, NEW x \in Procs \ Clients, NEW kids \in SUBSET (Procs \ Clients),
           system.name # "threads", SuperServer(x, kids)
    PROVE  IInv' /\ UNCHANGED system
  BY AssignKeeps, AcceptServiceKeeps, ForkKeeps, JumpKeeps, CloseKeeps, InterruptedKeeps,
     ServiceKeeps
     DEF SuperServer, Select, ForkRefused, Moves, Released

LEMMA DaemonsKeep ==
    ASSUME IInv, NEW x \in Procs \ Clients,
           PrintfDaemon(x) \/ SyslogDaemon(x) \/ LogServer(x)
    PROVE  IInv' /\ UNCHANGED system
<1>1. CASE PrintfDaemon(x)
  BY <1>1, AssignKeeps, AcceptKeeps, RecvKeeps, JumpKeeps, ExitKeeps, SendKeeps, CloseKeeps
     DEF PrintfDaemon, Overrun, Moves, Released
<1>2. CASE SyslogDaemon(x)
  BY <1>2, AcceptKeeps, RecvKeeps, SendKeeps, AssignKeeps, ComputeKeeps,
     CloseKeeps
     DEF SyslogDaemon, PrintOrFlush, Logged, Moves, Released
<1>3. CASE LogServer(x)
  BY <1>3, AcceptKeeps, RecvKeeps, ComputeKeeps, SendKeeps, CloseKeeps
     DEF LogServer, Logged, Moves, Released
<1> QED BY <1>1, <1>2, <1>3

LEMMA UnitClientsKeep ==
    ASSUME IInv, NEW x \in Clients,
           \/ ConcurrentClient(x) \/ ThreadClient(x) \/ ServiceClient(x)
           \/ GreetingClient(x) \/ LogClient(x)
    PROVE  IInv' /\ UNCHANGED system
<1>1. CASE ConcurrentClient(x)
  BY ClientsAssumption, <1>1, ConnectKeeps, TypeKeeps, SendKeeps, RecvKeeps, ShowKeeps,
     ExitKeeps
     DEF ConcurrentClient, Moves, Released
<1>2. CASE ThreadClient(x)
  BY ClientsAssumption, <1>2, ConnectKeeps, TypeKeeps, SendKeeps, ReceiveKeeps, ShowKeeps,
     ExitKeeps
     DEF ThreadClient, Moves, Released
<1>3. CASE GreetingClient(x)
  BY ClientsAssumption, <1>3, TypeKeeps, ConnectKeeps, SendKeeps, RecvKeeps, CloseKeeps
     DEF GreetingClient, Run, Moves, Released
<1>4. CASE LogClient(x)
  BY ClientsAssumption, <1>4, TypeKeeps, ConnectKeeps, SendKeeps, CloseKeeps
     DEF LogClient, Run, Moves, Released
<1>5. CASE ServiceClient(x)
  BY ClientsAssumption, <1>5, TypeKeeps, ConnectKeeps, SendKeeps, RecvKeeps, ShowKeeps,
     ExitKeeps
     DEF ServiceClient, Moves, Released
<1> QED BY <1>1, <1>2, <1>3, <1>4, <1>5

-----------------------------------------------------------------------------
(* All systems together.                                                   *)

LEMMA ServerKeeps ==
    ASSUME IInv, Server("server")
    PROVE  IInv' /\ UNCHANGED system
<1> DEFINE x == "server"
<1>1. /\ x \in Procs \ Clients
      /\ {"w1", "w2"} \in SUBSET (Procs \ Clients) /\ Workers \in SUBSET (Procs \ Clients)
      /\ "w1" \in Procs /\ "w2" \in Procs /\ "w3" \in Procs
  BY ServerAssumption, WorkersAssumption
<1>2. CASE \/ PalindromeServer(x) \/ TextDatagramServer(x)
           \/ StatisticsDatagramServer(x) \/ PermutationServer(x)
  BY <1>1, <1>2, PalindromesKeep, TextDatagramsKeep, StatisticsDatagramsKeep,
     PermutationsKeep
<1>3. CASE system.name = "students" /\ StudentDatagramServer(x, {"w1", "w2"})
  BY <1>1, <1>3, StudentDatagramServerKeeps
<1>4. CASE LocalDns(x) \/ Upstream
  BY <1>1, <1>4, LocalDnsKeeps, HierarchyServerKeeps DEF Upstream
<1>5. CASE ResolverServer(x) \/ TalkingServer("w1")
  BY <1>1, <1>5, ResolversKeep
<1>6. CASE Sender(x)
  BY <1>1, <1>6, LecturesKeep
<1>7. CASE system.name = "website" /\ WebsiteServer(x, {"w1", "w2"})
  BY <1>1, <1>7, WebsitesKeep
<1>8. CASE system.name \in {"concurrent", "socket names"} /\ ConcurrentServer(x, Workers)
  BY <1>1, <1>8, ConcurrentServerKeeps
<1>9. CASE system.name = "threads" /\ ThreadServer(x, Workers)
  BY <1>1, <1>9, ThreadServerKeeps
<1>10. CASE system.name = "super-server" /\ SuperServer(x, Workers)
  BY <1>1, <1>10, SuperServerKeeps
<1>11. CASE PrintfDaemon(x) \/ SyslogDaemon(x) \/ LogServer(x)
  BY <1>1, <1>11, DaemonsKeep
<1> QED
  BY <1>2, <1>3, <1>4, <1>5, <1>6, <1>7, <1>8, <1>9, <1>10, <1>11 DEF Server

LEMMA ClientKeeps ==
    ASSUME IInv, NEW c \in Clients, Client(c)
    PROVE  IInv' /\ UNCHANGED system
<1>1. c \in Procs
  BY ClientsAssumption
<1>2. CASE \/ PalindromeClient(c) \/ TextDatagramClient(c)
           \/ StatisticsDatagramClient(c) \/ PermutationClient(c)
           \/ StudentDatagramClient(c)
  BY <1>1, <1>2, PalindromesKeep, TextDatagramsKeep, StatisticsDatagramsKeep,
     PermutationsKeep, StudentDatagramClientKeeps
<1>3. CASE HierarchyClient(c) \/ ResolverClient(c) \/ WebsiteClient(c)
  BY <1>1, <1>3, HierarchyClientKeeps, ResolversKeep, WebsiteClientKeeps
<1>4. CASE BasicReceiver(c) \/ JoiningReceiver(c)
  BY <1>1, <1>4, LecturesKeep
<1>5. CASE \/ ConcurrentClient(c) \/ ThreadClient(c) \/ ServiceClient(c)
           \/ GreetingClient(c) \/ LogClient(c)
  BY <1>5, UnitClientsKeep
<1> QED BY <1>2, <1>3, <1>4, <1>5 DEF Client

LEMMA NextKeeps ==
    ASSUME IInv, [Next]_vars
    PROVE  IInv' /\ UNCHANGED system
<1>1. CASE Next
  BY <1>1, ServerKeeps, ClientKeeps, ExitKeeps DEF Next, Programs, Leave
<1>2. CASE UNCHANGED vars
  <2>1. UNCHANGED <<system, pc, task, fd, conn>>
    BY <1>2 DEF vars, locals, net
  <2>2. Domains' /\ OwnTask' /\ ConnOK'
    BY <2>1 DEF IInv, Domains, OwnTask, ConnOK
  <2>3. HeldServed'
    BY <2>1 DEF IInv, HeldServed, Served, Serves
  <2> QED BY <2>1, <2>2, <2>3 DEF IInv
<1> QED BY <1>1, <1>2

LEMMA InitInv == Init => IInv
<1> SUFFICES ASSUME Init PROVE IInv
  OBVIOUS
<1>1. PICK start, files : SocketsInit(start, {"server"}, files) /\ DOMAIN start = Procs
  BY DEF Init
<1>2. Domains /\ OwnTask
  BY <1>1 DEF SocketsInit, Domains, OwnTask
<1>3. \A i \in 1 .. MaxConns : Shape(conn[i]) /\ conn[i].by["s"] = {}
  BY <1>1 DEF SocketsInit, NoConn, Shape, Ends
<1>4. ConnOK
  BY <1>1, <1>3 DEF SocketsInit, ConnOK
<1> QED BY <1>2, <1>3, <1>4 DEF IInv, HeldServed

(* No connection is ever held open by a server, child or thread that does   *)
(* not serve it.                                                           *)
THEOREM Invariant == Spec => []IInv
<1>1. Init => IInv
  BY InitInv
<1>2. IInv /\ [Next]_vars => IInv'
  BY NextKeeps
<1> QED BY <1>1, <1>2, PTL DEF Spec

(* For any number of clients, workers and connections: a server that waits  *)
(* for a connection holds no other, and every server's end that is open is *)
(* served (ConnectionsReleased of the services run).                       *)
THEOREM AlwaysReleased == Spec => []ConnectionsReleased
<1>1. IInv => ConnectionsReleased
  <2> SUFFICES ASSUME IInv, NEW i \in DOMAIN conn
               PROVE  /\ pc["server"] \in {"accept", "select"} /\ system.name # "threads"
                         => "server" \notin conn[i].by["s"]
                      /\ \A p \in conn[i].by["s"] \ {"kernel"} :
                           \E q \in Procs : task[q] = p /\ fd[q].conn = i /\ pc[q] # "done"
    BY DEF ConnectionsReleased
  <2>1. i \in 1 .. MaxConns
    BY DEF IInv, ConnOK
  <2>2. ASSUME NEW p \in conn[i].by["s"] \ {"kernel"}
        PROVE  \E q \in Procs : Serves(q, i, p)
    BY <2>1, <2>2 DEF IInv, HeldServed, Served
  <2>3. ASSUME pc["server"] \in {"accept", "select"}, system.name # "threads",
               "server" \in conn[i].by["s"]
        PROVE  FALSE
    <3>1. "server" # "kernel"
      BY ServerAssumption
    <3>2. PICK q \in Procs : Serves(q, i, "server")
      BY <2>2, <2>3, <3>1
    <3>3. q = "server"
      BY <2>3, <3>2 DEF Serves, IInv, OwnTask
    <3> QED BY <2>3, <3>2, <3>3 DEF Serves, Released
  <2> QED BY <2>2, <2>3 DEF Serves, Released
<1> QED BY <1>1, Invariant, PTL

-----------------------------------------------------------------------------
(* The lectures.  Heard and waiting ones are told by their first piece.    *)
Texts == Seq(Nat) \ {<<>>}
Mails == [from : Procs, body : Texts]
Heard(c, k) == shown[c][k][1]
Waiting(c, k) == mail[c][k].body[1]

(* The lectures that have been given: the last one typed is, unless the    *)
(* lecturer is about to send it.                                           *)
Given == IF pc["server"] = "send" THEN Len(said["server"]) - 1 ELSE Len(said["server"])

LectureTypes ==
    /\ buf \in [Procs -> Seq(Nat)]
    /\ mail \in [Procs -> Seq(Mails)]
    /\ shown \in [Procs -> Seq(Texts)]
    /\ DOMAIN said = Procs
    /\ said["server"] \in Seq({<<"lecture">>})
    /\ pc["server"] \in {"type", "send", "done"}
    /\ pc["server"] = "send" => said["server"] # <<>>

HeardInOrder(c) ==
    \A j, k \in DOMAIN shown[c] : j < k => Heard(c, j) < Heard(c, k)
WaitingInOrder(c) ==
    \A j, k \in DOMAIN mail[c] : j < k => Waiting(c, j) < Waiting(c, k)
HeardFirst(c) ==
    \A j \in DOMAIN shown[c] : \A k \in DOMAIN mail[c] : Heard(c, j) < Waiting(c, k)
NoneAhead(c) ==
    /\ \A j \in DOMAIN shown[c] : Heard(c, j) <= Given
    /\ \A k \in DOMAIN mail[c] : Waiting(c, k) <= Given

LecturesOK ==
    /\ LectureTypes
    /\ \A c \in Procs : HeardInOrder(c) /\ WaitingInOrder(c) /\ HeardFirst(c) /\ NoneAhead(c)

LectureInv == system.name \in Lectures => LecturesOK

LEMMA GivenType == ASSUME LectureTypes PROVE Given \in Int /\ Len(said["server"]) \in Nat
  BY DEF LectureTypes, Given

LEMMA TextFirst == ASSUME NEW t \in Texts PROVE t[1] \in Nat /\ Len(t) \in Nat \ {0}
  BY DEF Texts

LEMMA SeqElement ==
    ASSUME NEW S, NEW s \in Seq(S)
    PROVE  /\ Len(s) \in Nat /\ DOMAIN s = 1 .. Len(s)
           /\ \A k \in DOMAIN s : s[k] \in S
  OBVIOUS

LEMMA SeqAppend ==
    ASSUME NEW S, NEW s \in Seq(S), NEW e \in S
    PROVE  /\ Append(s, e) \in Seq(S) /\ DOMAIN Append(s, e) = 1 .. Len(s) + 1
           /\ \A k \in DOMAIN s : Append(s, e)[k] = s[k]
           /\ Append(s, e)[Len(s) + 1] = e
           /\ Append(s, e) # <<>> /\ Len(Append(s, e)) = Len(s) + 1
  OBVIOUS

LEMMA LectureData ==
    ASSUME LectureTypes, NEW c \in Procs
    PROVE  /\ \A j \in DOMAIN shown[c] : Heard(c, j) \in Nat
           /\ \A k \in DOMAIN mail[c] : mail[c][k].body \in Texts /\ Waiting(c, k) \in Nat
<1>1. shown[c] \in Seq(Texts) /\ mail[c] \in Seq(Mails)
  BY DEF LectureTypes
<1>2. ASSUME NEW j \in DOMAIN shown[c] PROVE Heard(c, j) \in Nat
  BY <1>1, <1>2, TextFirst DEF Heard
<1>3. ASSUME NEW k \in DOMAIN mail[c]
      PROVE  mail[c][k].body \in Texts /\ Waiting(c, k) \in Nat
  <2>1. mail[c][k] \in Mails
    BY <1>1, <1>3, SeqElement
  <2>2. mail[c][k].body \in Texts
    BY <2>1 DEF Mails
  <2> QED BY <2>2, TextFirst DEF Waiting
<1> QED BY <1>2, <1>3

(* A step that moves no lecture.                                           *)
LEMMA NothingHeard ==
    ASSUME LecturesOK, LectureTypes', UNCHANGED <<mail, shown>>, Given <= Given'
    PROVE  LecturesOK'
<1>1. Given \in Int /\ Given' \in Int
  BY GivenType DEF LecturesOK, LectureTypes, Given
<1>2. ASSUME NEW c \in Procs
      PROVE  HeardInOrder(c)' /\ WaitingInOrder(c)' /\ HeardFirst(c)' /\ NoneAhead(c)'
  <2>1. HeardInOrder(c)' /\ WaitingInOrder(c)' /\ HeardFirst(c)'
    BY DEF LecturesOK, HeardInOrder, WaitingInOrder, HeardFirst, Heard, Waiting
  <2>2. /\ \A j \in DOMAIN shown[c] : Heard(c, j) \in Nat
        /\ \A k \in DOMAIN mail[c] : Waiting(c, k) \in Nat
    BY LectureData DEF LecturesOK
  <2>3. \A j \in DOMAIN shown[c] : Heard(c, j) <= Given'
    BY <1>1, <2>2 DEF LecturesOK, NoneAhead
  <2>4. \A k \in DOMAIN mail[c] : Waiting(c, k) <= Given'
    BY <1>1, <2>2 DEF LecturesOK, NoneAhead
  <2>5. NoneAhead(c)'
    BY <2>3, <2>4 DEF NoneAhead, Heard, Waiting
  <2> QED BY <2>1, <2>5
<1> QED BY <1>2 DEF LecturesOK

LEMMA TypeInOrder ==
    ASSUME IInv, LecturesOK, Type("server", "type", {<<"lecture">>}, "send")
    PROVE  LecturesOK'
<1>1. /\ pc["server"] = "type" /\ pc' = [pc EXCEPT !["server"] = "send"]
      /\ said' = [said EXCEPT !["server"] = Append(@, <<"lecture">>)]
      /\ UNCHANGED <<buf, mail, shown>>
  BY DEF Type, At, Goto, net
<1>2. pc'["server"] = "send" /\ said'["server"] = Append(said["server"], <<"lecture">>)
  BY <1>1, ServerAssumption DEF IInv, Domains, LecturesOK, LectureTypes
<1>3. /\ said'["server"] \in Seq({<<"lecture">>}) /\ said'["server"] # <<>>
      /\ Len(said'["server"]) = Len(said["server"]) + 1
  <2> DEFINE e == <<"lecture">>
             S == {e}
  <2>1. said["server"] \in Seq(S) /\ e \in S
    BY DEF LecturesOK, LectureTypes
  <2>2. said'["server"] = Append(said["server"], e)
    BY <1>2
  <2> HIDE DEF S, e
  <2>3. said'["server"] \in Seq(S) /\ said'["server"] # <<>>
        /\ Len(said'["server"]) = Len(said["server"]) + 1
    BY <2>1, <2>2, SeqAppend
  <2> QED BY <2>3 DEF S, e
<1>4. LectureTypes'
  BY <1>1, <1>2, <1>3 DEF LecturesOK, LectureTypes
<1>5. Given' = Given
  BY <1>1, <1>2, <1>3, GivenType DEF Given, LecturesOK
<1> QED BY <1>1, <1>4, <1>5, NothingHeard, GivenType DEF LecturesOK

LEMMA KillInOrder ==
    ASSUME IInv, LecturesOK, NEW T, Kill(T)
    PROVE  LecturesOK'
<1>1. UNCHANGED <<mail, said, shown>> /\ buf' = Forgotten(T, buf)
  BY DEF Kill, screen
<1>2. pc'["server"] \in {pc["server"], "done"}
  BY ServerAssumption DEF Kill, Ended
<1>3. <<>> \in Seq(Nat)
  OBVIOUS
<1>4. buf' \in [Procs -> Seq(Nat)]
  BY <1>1, <1>3 DEF Forgotten, LecturesOK, LectureTypes
<1>5. LectureTypes'
  BY <1>1, <1>2, <1>4 DEF LecturesOK, LectureTypes
<1>6. Given <= Given'
  BY <1>1, <1>2, GivenType DEF Given, LecturesOK
<1> QED BY <1>1, <1>5, <1>6, NothingHeard

LEMMA AssignInOrder ==
    ASSUME IInv, LecturesOK, NEW x \in Clients, NEW at, NEW v, NEW next,
           Assign(x, at, v, next)
    PROVE  LecturesOK'
<1>1. pc' = [pc EXCEPT ![x] = next] /\ UNCHANGED <<buf, mail, said, shown>>
  BY DEF Assign, Goto, net, screen
<1>2. pc'["server"] = pc["server"]
  BY <1>1, ServerAssumption DEF IInv, Domains
<1>3. LectureTypes'
  BY <1>1, <1>2 DEF LecturesOK, LectureTypes
<1>4. Given' = Given
  BY <1>1, <1>2 DEF Given
<1> QED BY <1>1, <1>3, <1>4, NothingHeard, GivenType DEF LecturesOK

LEMMA ChosenInOrder ==
    ASSUME IInv, LecturesOK, NEW x \in Clients, NEW choice, NEW next,
           Chosen(x, choice, next)
    PROVE  LecturesOK'
<1>1. /\ pc' = [pc EXCEPT ![x] = next]
      /\ said' = [said EXCEPT ![x] = Append(@, <<choice>>)]
      /\ UNCHANGED <<buf, mail, shown>>
  BY DEF Chosen, Goto, net
<1>2. pc'["server"] = pc["server"] /\ said'["server"] = said["server"]
  BY <1>1, ServerAssumption DEF IInv, Domains, LecturesOK, LectureTypes
<1>3. LectureTypes'
  BY <1>1, <1>2 DEF LecturesOK, LectureTypes
<1>4. Given' = Given
  BY <1>2 DEF Given
<1> QED BY <1>1, <1>3, <1>4, NothingHeard, GivenType DEF LecturesOK

(* What is written over a text begins like the new one.                    *)
LEMMA OverlayBegins ==
    ASSUME NEW held \in Seq(Nat), NEW body \in Texts
    PROVE  Overlay(held, body) \in Texts /\ Overlay(held, body)[1] = body[1]
<1> DEFINE rest == SubSeq(held, Len(body) + 1, Len(held))
<1>1. body \in Seq(Nat) /\ Len(body) \in Nat \ {0}
  BY DEF Texts
<1>2. rest \in Seq(Nat)
  BY <1>1
<1> HIDE DEF rest
<1>3. body \o rest \in Seq(Nat) /\ Len(body \o rest) = Len(body) + Len(rest) /\ Len(rest) \in Nat
  BY <1>1, <1>2
<1>4. (body \o rest)[1] = body[1] /\ body \o rest # <<>>
  BY <1>1, <1>2, <1>3
<1> QED BY <1>3, <1>4 DEF Overlay, rest, Texts

LEMMA LectureText ==
    ASSUME NEW n \in Nat \ {0}
    PROVE  Lecture(n) \in Texts /\ Lecture(n)[1] = n
  BY DEF Lecture, Texts

LEMMA LecturedInOrder ==
    ASSUME IInv, LecturesOK, Lectured("server", "send", "type")
    PROVE  LecturesOK'
<1> DEFINE n == Len(said["server"])
           new == Datagram("server", Lecture(n))
<1>1. PICK lost \in SUBSET {c \in Procs : Member(c)} :
        mail' = [c \in Procs |-> IF Member(c) /\ c \notin lost /\ pc[c] # "done"
                                 THEN Append(mail[c], new) ELSE mail[c]]
  BY DEF Lectured
<1>2. /\ pc["server"] = "send" /\ pc' = [pc EXCEPT !["server"] = "type"]
      /\ UNCHANGED <<buf, said, shown>>
  BY DEF Lectured, At, Goto, locals, screen
<1>3. pc'["server"] = "type"
  BY <1>2, ServerAssumption DEF IInv, Domains
<1>4. n \in Nat \ {0}
  BY <1>2 DEF LecturesOK, LectureTypes
<1>5. Given = n - 1 /\ Given' = n
  BY <1>2, <1>3 DEF Given
<1>6. new \in Mails /\ new.body[1] = n
  BY <1>4, LectureText, ServerAssumption DEF Datagram, Mails
<1> HIDE DEF new, n
<1>7. ASSUME NEW c \in Procs
      PROVE  /\ mail'[c] \in Seq(Mails)
             /\ \/ mail'[c] = mail[c]
                \/ /\ DOMAIN mail'[c] = 1 .. Len(mail[c]) + 1
                   /\ \A k \in DOMAIN mail[c] : mail'[c][k] = mail[c][k]
                   /\ mail'[c][Len(mail[c]) + 1] = new
                   /\ DOMAIN mail[c] = 1 .. Len(mail[c])
                   /\ Len(mail[c]) \in Nat
  <2>1. mail[c] \in Seq(Mails)
    BY DEF LecturesOK, LectureTypes
  <2>2. mail'[c] = Append(mail[c], new) \/ mail'[c] = mail[c]
    BY <1>1
  <2> QED BY <1>6, <2>1, <2>2, SeqElement, SeqAppend
<1>8. LectureTypes'
  BY <1>1, <1>2, <1>3, <1>7 DEF LecturesOK, LectureTypes
<1>9. ASSUME NEW c \in Procs
      PROVE  HeardInOrder(c)' /\ WaitingInOrder(c)' /\ HeardFirst(c)' /\ NoneAhead(c)'
  <2>1. /\ \A j \in DOMAIN shown[c] : Heard(c, j) \in Nat /\ Heard(c, j) <= n - 1
        /\ \A k \in DOMAIN mail[c] : Waiting(c, k) \in Nat /\ Waiting(c, k) <= n - 1
    BY <1>5, LectureData DEF LecturesOK, NoneAhead
  <2>2. HeardInOrder(c)' /\ \A j \in DOMAIN shown[c] : Heard(c, j)' = Heard(c, j)
    BY <1>2 DEF HeardInOrder, Heard, LecturesOK
  <2>3. ASSUME NEW k \in DOMAIN mail'[c]
        PROVE  \/ k \in DOMAIN mail[c] /\ Waiting(c, k)' = Waiting(c, k)
               \/ /\ k = Len(mail[c]) + 1 /\ Waiting(c, k)' = n
                  /\ DOMAIN mail[c] = 1 .. Len(mail[c])
                  /\ Len(mail[c]) \in Nat
    BY <1>6, <1>7, <2>3 DEF Waiting
  <2>4. WaitingInOrder(c)'
    <3> SUFFICES ASSUME NEW j \in DOMAIN mail'[c], NEW k \in DOMAIN mail'[c], j < k
                 PROVE  Waiting(c, j)' < Waiting(c, k)'
      BY DEF WaitingInOrder
    <3>1. CASE k \in DOMAIN mail[c] /\ j \in DOMAIN mail[c]
      <4>1. Waiting(c, j)' = Waiting(c, j) /\ Waiting(c, k)' = Waiting(c, k)
        BY <1>7, <3>1 DEF Waiting
      <4> QED BY <3>1, <4>1 DEF WaitingInOrder, LecturesOK
    <3>2. CASE k \notin DOMAIN mail[c]
      <4>1. /\ k = Len(mail[c]) + 1 /\ Waiting(c, k)' = n
            /\ DOMAIN mail[c] = 1 .. Len(mail[c]) /\ Len(mail[c]) \in Nat
        BY <2>3, <3>2
      <4>2. j \in DOMAIN mail[c] /\ Waiting(c, j)' = Waiting(c, j)
        BY <2>3, <4>1
      <4> QED BY <1>4, <2>1, <4>1, <4>2
    <3>3. CASE j \notin DOMAIN mail[c] /\ k \in DOMAIN mail[c]
      BY <2>3, <3>3
    <3> QED BY <3>1, <3>2, <3>3
  <2>5. HeardFirst(c)'
    <3> SUFFICES ASSUME NEW j \in DOMAIN shown[c], NEW k \in DOMAIN mail'[c]
                 PROVE  Heard(c, j) < Waiting(c, k)'
      BY <1>2, <2>2 DEF HeardFirst
    <3> QED BY <1>4, <2>1, <2>3 DEF HeardFirst, LecturesOK
  <2>6. NoneAhead(c)'
    <3>1. \A j \in DOMAIN shown[c] : Heard(c, j)' <= Given'
      BY <1>4, <1>5, <2>1, <2>2
    <3>2. \A k \in DOMAIN mail'[c] : Waiting(c, k)' <= Given'
      BY <1>4, <1>5, <2>1, <2>3
    <3> QED BY <1>2, <3>1, <3>2 DEF NoneAhead
  <2> QED BY <2>2, <2>4, <2>5, <2>6
<1> QED BY <1>8, <1>9 DEF LecturesOK

LEMMA SeqTail ==
    ASSUME NEW S, NEW s \in Seq(S), s # <<>>
    PROVE  /\ Head(s) = s[1] /\ 1 \in DOMAIN s
           /\ Tail(s) \in Seq(S)
           /\ \A k \in DOMAIN Tail(s) : k + 1 \in DOMAIN s /\ Tail(s)[k] = s[k + 1] /\ k \in Nat \ {0}
  OBVIOUS

LEMMA ListenInOrder ==
    ASSUME IInv, LecturesOK, NEW x \in Clients, NEW at, NEW next, Listen(x, at, next)
    PROVE  LecturesOK'
<1> DEFINE body == Head(mail[x]).body
           m == Waiting(x, 1)
<1>1. x \in Procs /\ x # "server" /\ "server" \in Procs
  BY ClientsAssumption, ServerAssumption
<1>2. PICK held \in Held(x) : buf' = [buf EXCEPT ![x] = Overlay(held, body)]
  BY DEF Listen
<1>3. /\ mail[x] # <<>>
      /\ shown' = [shown EXCEPT ![x] = Append(@, buf'[x])]
      /\ mail' = [mail EXCEPT ![x] = Tail(@)]
      /\ pc' = [pc EXCEPT ![x] = next] /\ UNCHANGED said
  BY DEF Listen, Goto
<1>4. mail[x] \in Seq(Mails) /\ shown[x] \in Seq(Texts)
  BY <1>1 DEF LecturesOK, LectureTypes
<1>5. body = mail[x][1].body /\ 1 \in DOMAIN mail[x]
  BY <1>3, <1>4, SeqTail
<1>6. body \in Texts /\ body[1] = m
  BY <1>1, <1>5, LectureData DEF LecturesOK, Waiting
<1>7. held \in Seq(Nat)
  <2>1. buf[x] \in Seq(Nat)
    BY <1>1 DEF LecturesOK, LectureTypes
  <2>2. <<>> \in Seq(Nat) /\ <<0, 0, 0>> \in Seq(Nat)
    OBVIOUS
  <2> QED BY <1>2, <2>1, <2>2 DEF Held
<1>8. PICK text \in Texts : text[1] = m /\ buf' = [buf EXCEPT ![x] = text]
  <2> HIDE DEF body
  <2> QED BY <1>2, <1>6, <1>7, OverlayBegins
<1> HIDE DEF body, m
<1>9. text \in Seq(Nat) /\ buf' \in [Procs -> Seq(Nat)] /\ buf'[x] = text
  BY <1>1, <1>8 DEF LecturesOK, LectureTypes, Texts
<1>10. shown' = [shown EXCEPT ![x] = Append(shown[x], text)]
  BY <1>3, <1>9
<1>11. pc'["server"] = pc["server"] /\ said'["server"] = said["server"]
  BY <1>1, <1>3 DEF IInv, Domains
<1>12. LectureTypes'
  <2>1. Append(shown[x], text) \in Seq(Texts) /\ Tail(mail[x]) \in Seq(Mails)
    BY <1>3, <1>4, SeqAppend, SeqTail
  <2>2. shown' \in [Procs -> Seq(Texts)] /\ mail' \in [Procs -> Seq(Mails)]
    BY <1>3, <1>10, <2>1 DEF LecturesOK, LectureTypes
  <2> QED BY <1>3, <1>9, <1>11, <2>2 DEF LecturesOK, LectureTypes
<1>13. Given' = Given
  BY <1>11 DEF Given
<1>14. ASSUME NEW c \in Procs, c # x
       PROVE  HeardInOrder(c)' /\ WaitingInOrder(c)' /\ HeardFirst(c)' /\ NoneAhead(c)'
  <2>1. shown'[c] = shown[c] /\ mail'[c] = mail[c]
    BY <1>3, <1>10, <1>14 DEF LecturesOK, LectureTypes
  <2> QED BY <1>13, <2>1 DEF LecturesOK, HeardInOrder, WaitingInOrder, HeardFirst,
                            NoneAhead, Heard, Waiting
<1>15. HeardInOrder(x)' /\ WaitingInOrder(x)' /\ HeardFirst(x)' /\ NoneAhead(x)'
  <2>0. PICK l \in Nat : l = Len(shown[x])
    BY <1>4, SeqElement
  <2>1. /\ DOMAIN shown[x] = 1 .. l /\ DOMAIN shown'[x] = 1 .. l + 1
        /\ \A j \in 1 .. l : shown'[x][j] = shown[x][j]
        /\ shown'[x][l + 1] = text
    <3>1. shown'[x] = Append(shown[x], text)
      BY <1>1, <1>10 DEF LecturesOK, LectureTypes
    <3> QED BY <1>4, <2>0, <3>1, SeqElement, SeqAppend
  <2>2. \A k \in DOMAIN mail'[x] :
          k + 1 \in DOMAIN mail[x] /\ mail'[x][k] = mail[x][k + 1] /\ k \in Nat \ {0}
    <3>1. mail'[x] = Tail(mail[x])
      BY <1>1, <1>3 DEF LecturesOK, LectureTypes
    <3> QED BY <1>3, <1>4, <3>1, SeqTail
  <2>3. /\ \A j \in 1 .. l : Heard(x, j)' = Heard(x, j) /\ Heard(x, j) \in Nat
        /\ Heard(x, l + 1)' = m
        /\ \A k \in DOMAIN mail'[x] : Waiting(x, k)' = Waiting(x, k + 1)
        /\ \A k \in DOMAIN mail[x] : Waiting(x, k) \in Nat
    BY <1>1, <1>8, <2>1, <2>2, LectureData DEF Heard, Waiting, LecturesOK
  <2>4. /\ m \in Nat /\ m <= Given
        /\ \A j \in 1 .. l : Heard(x, j) < m /\ Heard(x, j) <= Given
        /\ \A k \in DOMAIN mail[x] : k > 1 => m < Waiting(x, k)
        /\ \A k \in DOMAIN mail[x] : Waiting(x, k) <= Given
    BY <1>1, <1>5, <2>1, <2>2, <2>3
       DEF m, LecturesOK, WaitingInOrder, HeardFirst, NoneAhead
  <2>5. HeardInOrder(x)'
    <3> SUFFICES ASSUME NEW j \in DOMAIN shown'[x], NEW k \in DOMAIN shown'[x], j < k
                 PROVE  Heard(x, j)' < Heard(x, k)'
      BY DEF HeardInOrder
    <3>1. CASE k \in 1 .. l
      BY <1>1, <2>1, <2>3, <3>1 DEF LecturesOK, HeardInOrder
    <3>2. CASE k = l + 1
      BY <2>1, <2>3, <2>4, <3>2
    <3> QED BY <2>1, <3>1, <3>2
  <2>6. WaitingInOrder(x)'
    BY <1>1, <2>2, <2>3 DEF LecturesOK, WaitingInOrder
  <2>7. HeardFirst(x)'
    <3> SUFFICES ASSUME NEW j \in DOMAIN shown'[x], NEW k \in DOMAIN mail'[x]
                 PROVE  Heard(x, j)' < Waiting(x, k)'
      BY DEF HeardFirst
    <3>1. CASE j \in 1 .. l
      BY <1>1, <2>1, <2>2, <2>3, <3>1 DEF LecturesOK, HeardFirst
    <3>2. CASE j = l + 1
      BY <2>1, <2>2, <2>3, <2>4, <3>2
    <3> QED BY <2>1, <3>1, <3>2
  <2>8. NoneAhead(x)'
    <3>1. \A j \in DOMAIN shown'[x] : Heard(x, j)' <= Given
      BY <2>1, <2>3, <2>4
    <3>2. \A k \in DOMAIN mail'[x] : Waiting(x, k)' <= Given
      BY <2>2, <2>3, <2>4
    <3> QED BY <1>13, <3>1, <3>2 DEF NoneAhead
  <2> QED BY <2>5, <2>6, <2>7, <2>8
<1> QED BY <1>12, <1>14, <1>15 DEF LecturesOK

LEMMA LectureStep ==
    ASSUME IInv, system.name \in Lectures, LecturesOK, [Next]_vars
    PROVE  LecturesOK'
<1>1. CASE Server("server")
  <2>1. Sender("server")
    BY <1>1 DEF Server, Lectures
  <2> QED BY <2>1, TypeInOrder, LecturedInOrder DEF Sender
<1>2. ASSUME NEW c \in Clients, Client(c)
      PROVE  LecturesOK'
  <2>1. BasicReceiver(c) \/ JoiningReceiver(c)
    BY <1>2 DEF Client, Lectures
  <2> QED BY <2>1, AssignInOrder, ListenInOrder, ChosenInOrder, KillInOrder
             DEF BasicReceiver, JoiningReceiver, Exit
<1>3. CASE Leave
  BY <1>3, KillInOrder DEF Leave, Quit
<1>4. CASE UNCHANGED vars
  <2>1. UNCHANGED <<pc, buf, mail, said, shown>>
    BY <1>4 DEF vars, locals, net, screen
  <2>2. LectureTypes' /\ Given' = Given
    BY <2>1 DEF LecturesOK, LectureTypes, Given
  <2> QED BY <2>1, <2>2, NothingHeard, GivenType DEF LecturesOK
<1> QED BY <1>1, <1>2, <1>3, <1>4 DEF Next, Programs

LEMMA LectureInit == Init => LectureInv
<1> SUFFICES ASSUME Init, system.name \in Lectures PROVE LecturesOK
  BY DEF LectureInv
<1>1. PICK start, files : SocketsInit(start, {"server"}, files) /\ start["server"] = ServerStart
  BY ServerAssumption, WorkersAssumption DEF Init
<1>2. pc["server"] = "type"
  BY <1>1 DEF SocketsInit, ServerStart, Lectures, Datagrams, Names, Children, Daemons
<1>3. \A c \in Procs : buf[c] = <<>> /\ mail[c] = <<>> /\ shown[c] = <<>> /\ said[c] = <<>>
  BY <1>1 DEF SocketsInit
<1>4. LectureTypes
  <2>1. \A S : <<>> \in Seq(S)
    OBVIOUS
  <2> QED BY <1>1, <1>2, <1>3, <2>1, ServerAssumption DEF SocketsInit, LectureTypes
<1>5. Given = 0
  BY <1>2, <1>3, ServerAssumption DEF Given
<1> QED BY <1>3, <1>4, <1>5 DEF LecturesOK, HeardInOrder, WaitingInOrder, HeardFirst, NoneAhead

(* However many receivers join and leave while the lectures are given, and *)
(* whichever copies are lost: each of them hears lectures in the order in  *)
(* which they were given and none twice (LecturesInOrder of the services   *)
(* run).                                                                   *)
THEOREM LecturesAlwaysInOrder == Spec => []LecturesInOrder
<1>1. Init => IInv /\ LectureInv
  BY InitInv, LectureInit
<1>2. IInv /\ LectureInv /\ [Next]_vars => (IInv /\ LectureInv)'
  <2> SUFFICES ASSUME IInv, LectureInv, [Next]_vars PROVE IInv' /\ LectureInv'
    OBVIOUS
  <2>1. IInv' /\ UNCHANGED system
    BY NextKeeps
  <2> QED BY <2>1, LectureStep DEF LectureInv
<1>3. IInv /\ LectureInv => LecturesInOrder
  BY ClientsAssumption DEF LectureInv, LecturesOK, HeardInOrder, Heard, LecturesInOrder
<1> QED BY <1>1, <1>2, <1>3, PTL DEF Spec

-----------------------------------------------------------------------------
(* Which clients can end a server.  Most servers make no call that could   *)
(* end them: their processes go from place to place, and what ends is      *)
(* another task.                                                           *)
Spared == pc'["server"] # "done"
Others(p, next) == p # "server" \/ next # "done"

LEMMA GoSpares ==
    ASSUME IInv, ~Gone, NEW p, NEW next, Others(p, next), pc' = [pc EXCEPT ![p] = next]
    PROVE  Spared
  BY ServerAssumption DEF IInv, Domains, Others, Spared, Gone

LEMMA JumpSpares ==
    ASSUME IInv, ~Gone, NEW p, NEW at, NEW next, Others(p, next), Jump(p, at, next)
    PROVE  Spared
  BY GoSpares DEF Jump, Goto

LEMMA AssignSpares ==
    ASSUME IInv, ~Gone, NEW p, NEW at, NEW v, NEW next, Others(p, next), Assign(p, at, v, next)
    PROVE  Spared
  BY GoSpares DEF Assign, Goto

LEMMA TypeSpares ==
    ASSUME IInv, ~Gone, NEW p, NEW at, NEW inputs, NEW next, Others(p, next),
           Type(p, at, inputs, next)
    PROVE  Spared
  BY GoSpares DEF Type, Goto

LEMMA ShowSpares ==
    ASSUME IInv, ~Gone, NEW p, NEW at, NEW what, NEW next, Others(p, next),
           Show(p, at, what, next)
    PROVE  Spared
  BY GoSpares DEF Show, Goto

LEMMA SendOnSpares ==
    ASSUME IInv, ~Gone, NEW p, NEW sock, NEW at, NEW to, NEW body, NEW mayLose, NEW next,
           Others(p, next), SendOn(p, sock, at, to, body, mayLose, next)
    PROVE  Spared
  BY GoSpares DEF SendOn, Goto

LEMMA SendToSpares ==
    ASSUME IInv, ~Gone, NEW p, NEW at, NEW to, NEW body, NEW mayLose, NEW next,
           Others(p, next), SendTo(p, at, to, body, mayLose, next)
    PROVE  Spared
  BY SendOnSpares DEF SendTo

LEMMA RecvFromSpares ==
    ASSUME IInv, ~Gone, NEW p, NEW at, NEW n, NEW next, Others(p, next),
           RecvFrom(p, at, n, next) \/ RecvFromPrint(p, at, n, next)
    PROVE  Spared
  BY GoSpares DEF RecvFrom, RecvFromPrint, ReceiveFrom, Goto

LEMMA ReceiveSpares ==
    ASSUME IInv, ~Gone, NEW p, NEW at, NEW n, NEW show, NEW next, NEW zero, NEW failed,
           Others(p, next), Others(p, zero), Others(p, failed),
           Receive(p, at, n, show, next, zero, failed)
    PROVE  Spared
  BY GoSpares DEF Receive, Goto

LEMMA RecvSpares ==
    ASSUME IInv, ~Gone, NEW p, NEW at, NEW n, NEW next, NEW end,
           Others(p, next), Others(p, end),
           Recv(p, at, n, next, end) \/ RecvPrint(p, at, n, next, end)
    PROVE  Spared
  BY ReceiveSpares DEF Recv, RecvPrint

LEMMA FieldSpares ==
    ASSUME IInv, ~Gone, NEW p, NEW at, NEW kept, NEW next, NEW end,
           Others(p, next), Others(p, end), Field(p, at, kept, next, end)
    PROVE  Spared
  BY GoSpares DEF Field, Goto

LEMMA ConnectSpares ==
    ASSUME IInv, ~Gone, NEW p, NEW at, NEW next, NEW refused,
           Others(p, next), Others(p, refused), Connect(p, at, next, refused)
    PROVE  Spared
<1>1. pc' = [pc EXCEPT ![p] = next] \/ pc' = [pc EXCEPT ![p] = refused]
  BY DEF Connect, Goto
<1> QED BY <1>1, GoSpares

LEMMA AcceptSpares ==
    ASSUME IInv, ~Gone, NEW p, NEW at, NEW next, Others(p, next),
           Accept(p, at, next) \/ AcceptService(p, at, next)
    PROVE  Spared
  BY GoSpares DEF Accept, AcceptService, Goto

LEMMA CloseSpares ==
    ASSUME IInv, ~Gone, NEW p, NEW at, NEW next, Others(p, next),
           Close(p, at, next) \/ CloseListener(p, at, next)
    PROVE  Spared
  BY GoSpares DEF Close, CloseListener, Goto

(* Who ends a task that is not the server's.                               *)
LEMMA KillSpares ==
    ASSUME IInv, ~Gone, NEW t, t # task["server"], Kill({t})
    PROVE  Spared
<1>1. pc'["server"] = pc["server"]
  BY ServerAssumption DEF Kill, Ended
<1> QED BY <1>1 DEF Spared, Gone

LEMMA ExitSpares ==
    ASSUME IInv, ~Gone, system.name # "threads", NEW p \in Procs \ {"server"}, NEW at,
           Exit(p, at)
    PROVE  Spared
  BY KillSpares, ServerAssumption DEF Exit, IInv, OwnTask

LEMMA SendSpares ==
    ASSUME IInv, ~Gone, system.name # "threads", NEW p \in Procs \ {"server"}, NEW at, NEW m,
           NEW next, Send(p, at, m, next)
    PROVE  Spared
<1>1. CASE Kill({task[p]})
  BY <1>1, KillSpares, ServerAssumption DEF IInv, OwnTask
<1>2. CASE pc' = [pc EXCEPT ![p] = next]
  BY <1>2, GoSpares DEF Others
<1> QED BY <1>1, <1>2 DEF Send, SendOr, Goto

LEMMA ForkSpares ==
    ASSUME IInv, ~Gone, NEW p, NEW at, NEW kids \in SUBSET (Procs \ {"server"}), NEW child,
           NEW next, Others(p, next), Fork(p, at, kids, child, next)
    PROVE  Spared
<1>1. PICK w \in kids : pc' = [pc EXCEPT ![p] = next, ![w] = child]
  BY DEF Fork
<1> QED BY <1>1, ServerAssumption DEF IInv, Domains, Others, Spared, Gone

LEMMA InterruptedSpares ==
    ASSUME IInv, ~Gone, NEW p, NEW w \in Procs \ {"server"}, Interrupted(p, w)
    PROVE  Spared
  BY ServerAssumption DEF Interrupted, IInv, Domains, Spared, Gone

LEMMA ExitsSpares ==
    ASSUME IInv, ~Gone, NEW w \in Procs \ {"server"}, NEW at, Exits(w, at)
    PROVE  Spared
  BY GoSpares DEF Exits, Goto, Others

LEMMA ServiceSpares ==
    ASSUME IInv, ~Gone, system.name # "threads", NEW w \in Procs \ {"server"}, Service(w)
    PROVE  Spared
  BY RecvSpares, SendSpares, ExitsSpares, JumpSpares DEF Service, Return, Others

LEMMA query_serverSpares ==
    ASSUME IInv, ~Gone, NEW p, NEW at, NEW next, Others(p, next), query_server(p, at, next)
    PROVE  Spared
  BY GoSpares DEF query_server, Goto

LEMMA LecturedSpares ==
    ASSUME IInv, ~Gone, NEW p, NEW at, NEW next, Others(p, next),
           Lectured(p, at, next) \/ Listen(p, at, next)
    PROVE  Spared
  BY GoSpares DEF Lectured, Listen, Goto

LEMMA ChosenSpares ==
    ASSUME IInv, ~Gone, NEW p, NEW choice, NEW next, Others(p, next), Chosen(p, choice, next)
    PROVE  Spared
  BY GoSpares DEF Chosen, Goto

-----------------------------------------------------------------------------
(* The programs, call by call.                                             *)

(* The systems whose server has no call that could end it.                 *)
Steady == (Datagrams \cup Names \cup Lectures \cup Children) \ {"threads", "palindromes"}

LEMMA StatisticsSpare ==
    ASSUME IInv, ~Gone, NEW x, StatisticsDatagramServer(x)
    PROVE  Spared
  BY RecvFromSpares, JumpSpares, SendToSpares DEF StatisticsDatagramServer, Others

LEMMA PermutationsSpare ==
    ASSUME IInv, ~Gone, NEW x, PermutationServer(x)
    PROVE  Spared
<1>1. \/ RecvFrom(x, "recv", 1, "permute")
      \/ \E what : Show(x, "permute", what, "send")
      \/ \E body : SendTo(x, "send", peer[x], body, Lossy, "recv")
  BY DEF PermutationServer
<1>2. Others(x, "permute") /\ Others(x, "send") /\ Others(x, "recv")
  BY DEF Others
<1> QED BY <1>1, <1>2, RecvFromSpares, ShowSpares, SendToSpares

LEMMA ConcurrentSpares ==
    ASSUME IInv, ~Gone, system.name # "threads", NEW x, NEW kids \in SUBSET (Procs \ {"server"}),
           ConcurrentServer(x, kids)
    PROVE  Spared
<1>1. CASE \/ Accept(x, "accept", "fork")
           \/ Fork(x, "fork", kids, "close_listener", "close_new")
           \/ ForkRefused(x, "fork", "close_new")
           \/ Close(x, "close_new", "accept")
  BY <1>1, AcceptSpares, ForkSpares, JumpSpares, CloseSpares DEF ForkRefused, Others
<1>2. ASSUME NEW w \in kids,
             \/ CloseListener(w, "close_listener", "read")
             \/ Recv(w, "read", 1, "check", "close")
             \/ Jump(w, "check", IF buf[w] = quit THEN "close" ELSE Appended(buf[w]))
             \/ Jump(w, "append", "send") \/ Exit(w, "append")
             \/ Send(w, "send", <<AnswerOf(buf[w][1])>>, "read")
             \/ Exit(w, "close")
      PROVE  Spared
  <2>1. w \in Procs \ {"server"} /\ \A next : Others(w, next)
    BY DEF Others
  <2>2. CASE CloseListener(w, "close_listener", "read") \/ Recv(w, "read", 1, "check", "close")
    BY <2>1, <2>2, CloseSpares, RecvSpares
  <2>3. CASE \/ Jump(w, "check", IF buf[w] = quit THEN "close" ELSE Appended(buf[w]))
             \/ Jump(w, "append", "send")
    BY <2>1, <2>3, JumpSpares
  <2>4. CASE Send(w, "send", <<AnswerOf(buf[w][1])>>, "read")
    BY <2>1, <2>4, SendSpares
  <2>5. CASE Exit(w, "append") \/ Exit(w, "close")
    BY <2>1, <2>5, ExitSpares
  <2> QED BY <1>2, <2>2, <2>3, <2>4, <2>5
<1> QED BY <1>1, <1>2 DEF ConcurrentServer

LEMMA SteadyServer ==
    ASSUME IInv, ~Gone, system.name \in Steady, Server("server")
    PROVE  Spared
<1> DEFINE x == "server"
<1>1. /\ {"w1", "w2"} \in SUBSET (Procs \ {"server"}) /\ Workers \in SUBSET (Procs \ {"server"})
      /\ "w1" \in Procs \ {"server"} /\ "w2" \in Procs \ {"server"} /\ "w3" \in Procs \ {"server"}
  BY WorkersAssumption
<1>2. system.name # "threads" /\ system.name # "palindromes"
  BY DEF Steady
<1>3. CASE TextDatagramServer(x) \/ StatisticsDatagramServer(x) \/ PermutationServer(x)
  <2>1. CASE TextDatagramServer(x)
    BY <2>1, RecvFromSpares, AssignSpares, SendToSpares DEF TextDatagramServer, Others
  <2> QED BY <1>3, <2>1, StatisticsSpare, PermutationsSpare
<1>4. CASE StudentDatagramServer(x, {"w1", "w2"})
  BY <1>1, <1>2, <1>4, RecvFromSpares, ForkSpares, JumpSpares, SendOnSpares, ExitSpares
     DEF StudentDatagramServer, ForkRefused, Others
<1>5. CASE LocalDns(x)
  BY <1>5, AssignSpares, RecvFromSpares, SendOnSpares, query_serverSpares, SendToSpares
     DEF LocalDns, Others
<1>6. CASE Upstream
  BY <1>1, <1>6, RecvFromSpares, SendToSpares DEF Upstream, HierarchyServer, Others
<1>7. CASE ResolverServer(x)
  BY <1>7, RecvFromSpares, JumpSpares, SendToSpares DEF ResolverServer, Others
<1>8. CASE TalkingServer("w1")
  BY <1>1, <1>2, <1>8, RecvFromSpares, JumpSpares, TypeSpares, SendToSpares, ExitSpares
     DEF TalkingServer, Others
<1>9. CASE Sender(x)
  BY <1>9, TypeSpares, LecturedSpares DEF Sender, Others
<1>10. CASE WebsiteServer(x, {"w1", "w2"})
  BY <1>1, <1>2, <1>10, AcceptSpares, ForkSpares, JumpSpares, CloseSpares, FieldSpares, SendSpares,
     ExitSpares
     DEF WebsiteServer, ForkRefused, Others
<1>11. CASE ConcurrentServer(x, Workers)
  BY <1>1, <1>2, <1>11, ConcurrentSpares
<1>12. CASE SuperServer(x, Workers)
  BY <1>1, <1>2, <1>12, AssignSpares, AcceptSpares, ForkSpares, JumpSpares, CloseSpares,
     InterruptedSpares, ServiceSpares
     DEF SuperServer, Select, ForkRefused, Others
<1> QED
  BY <1>2, <1>3, <1>4, <1>5, <1>6, <1>7, <1>8, <1>9, <1>10, <1>11, <1>12
     DEF Server, Steady, Datagrams, Names, Lectures, Children

(* No client of a server that forks, or has no processes but its own, ends  *)
(* anything but itself.                                                    *)
LEMMA ClientsSpare ==
    ASSUME IInv, ~Gone, system.name # "threads", NEW c \in Clients, Client(c)
    PROVE  Spared
<1>1. c \in Procs \ {"server"} /\ \A next : Others(c, next)
  BY ClientsAssumption, ServerAssumption DEF Others
<1>2. CASE PalindromeClient(c)
  BY <1>1, <1>2, TypeSpares, SendToSpares, RecvFromSpares, ExitSpares DEF PalindromeClient
<1>3. CASE TextDatagramClient(c)
  BY <1>1, <1>3, TypeSpares, SendToSpares, RecvFromSpares, ExitSpares DEF TextDatagramClient
<1>4. CASE StatisticsDatagramClient(c)
  BY <1>1, <1>4, TypeSpares, SendToSpares, RecvFromSpares, ExitSpares
     DEF StatisticsDatagramClient
<1>5. CASE PermutationClient(c)
  BY <1>1, <1>5, TypeSpares, SendToSpares, RecvFromSpares, ExitSpares DEF PermutationClient
<1>6. CASE StudentDatagramClient(c)
  BY <1>1, <1>6, TypeSpares, SendToSpares, RecvFromSpares, ExitSpares
     DEF StudentDatagramClient
<1>7. CASE HierarchyClient(c)
  BY <1>1, <1>7, SendToSpares, RecvFromSpares, ShowSpares, ExitSpares DEF HierarchyClient
<1>8. CASE ResolverClient(c)
  BY <1>1, <1>8, TypeSpares, SendToSpares, RecvFromSpares, JumpSpares, ExitSpares
     DEF ResolverClient, SendToAddress
<1>9. CASE WebsiteClient(c)
  BY <1>1, <1>9, TypeSpares, ConnectSpares, SendSpares, RecvSpares, CloseSpares, ExitSpares
     DEF WebsiteClient
<1>10. CASE BasicReceiver(c)
  BY <1>1, <1>10, AssignSpares, LecturedSpares DEF BasicReceiver
<1>11. CASE JoiningReceiver(c)
  BY <1>1, <1>11, AssignSpares, ChosenSpares, LecturedSpares, ExitSpares DEF JoiningReceiver
<1>12. CASE ConcurrentClient(c)
  BY <1>1, <1>12, ConnectSpares, TypeSpares, SendSpares, RecvSpares, ShowSpares, ExitSpares
     DEF ConcurrentClient
<1>13. CASE ServiceClient(c)
  BY <1>1, <1>13, TypeSpares, ConnectSpares, SendSpares, RecvSpares, ShowSpares, ExitSpares
     DEF ServiceClient
<1>14. CASE GreetingClient(c) \/ LogClient(c)
  <2>1. CASE GreetingClient(c)
    BY <1>1, <2>1, TypeSpares, ConnectSpares, SendSpares, RecvSpares, CloseSpares
       DEF GreetingClient, Run
  <2>2. CASE LogClient(c)
    BY <1>1, <2>2, TypeSpares, ConnectSpares, SendSpares, CloseSpares DEF LogClient, Run
  <2> QED BY <1>14, <2>1, <2>2
<1> QED
  BY <1>2, <1>3, <1>4, <1>5, <1>6, <1>7, <1>8, <1>9, <1>10, <1>11, <1>12, <1>13, <1>14 DEF Client

LEMMA LeaveSpares ==
    ASSUME IInv, ~Gone, task["server"] = "server", Leave
    PROVE  Spared
<1>1. PICK c \in Varied : Kill({c})
  BY DEF Leave, Quit
<1>2. c # "server"
  BY VariedAssumption, ServerAssumption
<1> QED BY <1>1, <1>2, KillSpares

SteadyInv == system.name \in Steady => ~Gone

LEMMA SteadyStep ==
    ASSUME IInv, system.name \in Steady, ~Gone, [Next]_vars
    PROVE  ~Gone'
<1>1. system.name # "threads" /\ task["server"] = "server"
  BY ServerAssumption DEF Steady, IInv, OwnTask
<1>2. CASE Next
  <2>1. Spared
    BY <1>1, <1>2, SteadyServer, ClientsSpare, LeaveSpares DEF Next, Programs
  <2> QED BY <2>1 DEF Spared, Gone
<1>3. CASE UNCHANGED vars
  BY <1>3 DEF vars, Gone
<1> QED BY <1>2, <1>3

-----------------------------------------------------------------------------
(* What users type is one of some lines; and what was typed stays typed.     *)
SaidFrom(lines) == DOMAIN said = Procs /\ \A c \in Clients : said[c] \in Seq(lines)

LEMMA SaidStays ==
    ASSUME NEW lines, SaidFrom(lines), UNCHANGED said, NEW line
    PROVE  SaidFrom(lines)' /\ (Typed(line) => Typed(line)')
  BY DEF SaidFrom, Typed

LEMMA SaidLonger ==
    ASSUME NEW lines, SaidFrom(lines), NEW c \in Clients, NEW m \in lines,
           said' = [said EXCEPT ![c] = Append(@, m)], NEW line
    PROVE  /\ SaidFrom(lines)' /\ (Typed(line) => Typed(line)')
           /\ m = line => Typed(line)'
<1>1. \A S : \A s \in Seq(S) : \A e \in S :
        /\ Append(s, e) \in Seq(S) /\ Contains(Append(s, e), e)
        /\ \A h : Contains(s, h) => Contains(Append(s, e), h)
  <2>1. ASSUME NEW S, NEW s \in Seq(S), NEW e \in S
        PROVE  /\ Append(s, e) \in Seq(S) /\ Len(Append(s, e)) = Len(s) + 1 /\ Len(s) \in Nat
               /\ Append(s, e)[Len(s) + 1] = e
               /\ \A k \in 1 .. Len(s) : Append(s, e)[k] = s[k]
    OBVIOUS
  <2>2. ASSUME NEW S, NEW s \in Seq(S), NEW e \in S
        PROVE  /\ Contains(Append(s, e), e)
               /\ \A h : Contains(s, h) => Contains(Append(s, e), h)
    <3>1. /\ Len(Append(s, e)) = Len(s) + 1 /\ Len(s) \in Nat
          /\ Append(s, e)[Len(s) + 1] = e
          /\ \A k \in 1 .. Len(s) : Append(s, e)[k] = s[k]
      BY <2>1
    <3> QED BY ONLY <3>1 DEF Contains
  <2> QED BY <2>1, <2>2
<1>2. said[c] \in Seq(lines) /\ c \in Procs
  BY ClientsAssumption DEF SaidFrom
<1>3. /\ DOMAIN said' = Procs /\ said'[c] = Append(said[c], m)
      /\ \A d \in Clients \ {c} : said'[d] = said[d]
  BY <1>2, ClientsAssumption DEF SaidFrom
<1>4. /\ said'[c] \in Seq(lines) /\ Contains(said'[c], m)
      /\ \A h : Contains(said[c], h) => Contains(said'[c], h)
  BY <1>1, <1>2, <1>3
<1>5. SaidFrom(lines)'
  BY <1>3, <1>4 DEF SaidFrom
<1>6. m = line => Typed(line)'
  BY <1>4 DEF Typed
<1>7. Typed(line) => Typed(line)'
  <2> SUFFICES ASSUME NEW d \in Clients, Contains(said[d], line) PROVE Contains(said'[d], line)
    BY DEF Typed
  <2> QED BY <1>3, <1>4
<1> QED BY <1>5, <1>6, <1>7

-----------------------------------------------------------------------------
(* The palindrome server ends at Halt: until somebody types it no message   *)
(* says so.                                                                *)
Harmless == {<<97, 98, 65>>, <<98>>, <<98, 97, 98>>}
Requests == [from : Clients, body : {<<w>> : w \in Harmless}]

PalindromesSaid == SaidFrom(Harmless \cup {Halt})

PalindromesOK ==
    /\ DOMAIN mail = Procs /\ DOMAIN buf = Procs /\ DOMAIN var = Procs /\ DOMAIN peer = Procs
    /\ mail["server"] \in Seq(Requests)
    /\ pc["server"] \in {"recv", "requested", "send"}
    /\ pc["server"] # "recv" => peer["server"] \in Clients
    /\ pc["server"] = "requested" => \E w \in Harmless : buf["server"] = <<w>>
    /\ \A c \in Clients : pc[c] = "send" => var[c] \in Harmless

PalindromesInv ==
    system.name = "palindromes" => PalindromesSaid /\ (Typed(Halt) \/ PalindromesOK)

LEMMA OneWord == ASSUME NEW w PROVE Len(<<w>>) = 1 /\ SubSeq(<<w>>, 1, 1) = <<w>>
<1>1. <<w>> \in Seq({w}) /\ Len(<<w>>) = 1 /\ <<w>>[1] = w
  OBVIOUS
<1>2. \A S : \A s \in Seq(S) : Len(s) = 1 =>
        SubSeq(s, 1, 1) \in Seq(S) /\ Len(SubSeq(s, 1, 1)) = 1 /\ SubSeq(s, 1, 1)[1] = s[1]
  OBVIOUS
<1>3. \A S : \A s, t \in Seq(S) : Len(s) = 1 /\ Len(t) = 1 /\ s[1] = t[1] => s = t
  OBVIOUS
<1>4. /\ SubSeq(<<w>>, 1, 1) \in Seq({w}) /\ Len(SubSeq(<<w>>, 1, 1)) = 1
      /\ SubSeq(<<w>>, 1, 1)[1] = w
  BY ONLY <1>1, <1>2
<1>5. SubSeq(<<w>>, 1, 1) = <<w>>
  BY ONLY <1>1, <1>3, <1>4
<1> QED BY <1>1, <1>5

LEMMA HarmlessWords ==
    /\ Halt \notin Harmless
    /\ \A w \in Harmless : <<w>> # <<Halt>> /\ Len(<<w>>) = 1 /\ SubSeq(<<w>>, 1, 1) = <<w>>
<1>1. Halt \notin Harmless
  BY DEF Halt, Harmless
<1>2. ASSUME NEW w, w # Halt PROVE <<w>> # <<Halt>>
  <2>1. <<w>>[1] # <<Halt>>[1]
    BY <1>2
  <2> QED BY <2>1
<1> QED BY <1>1, <1>2, OneWord

LEMMA ServerSeparate == "server" \in Procs /\ \A c \in Clients : c \in Procs /\ c # "server"
  BY ServerAssumption, ClientsAssumption

LEMMA PalindromesServer ==
    ASSUME IInv, PalindromesSaid, PalindromesOK, PalindromeServer("server")
    PROVE  PalindromesOK' /\ UNCHANGED said
<1> USE ServerSeparate
<1>1. CASE RecvFrom("server", "recv", 1, "requested")
  <2>1. /\ mail["server"] # <<>> /\ pc["server"] = "recv"
        /\ pc' = [pc EXCEPT !["server"] = "requested"]
        /\ peer' = [peer EXCEPT !["server"] = Head(mail["server"]).from]
        /\ mail' = [mail EXCEPT !["server"] = Tail(@)]
        /\ LET body == Head(mail["server"]).body IN
           buf' = [buf EXCEPT !["server"] = SubSeq(body, 1, IF 1 < Len(body) THEN 1 ELSE Len(body))]
        /\ UNCHANGED <<var, said>>
    BY <1>1 DEF RecvFrom, ReceiveFrom, At, Goto
  <2>2. Head(mail["server"]) \in Requests /\ Tail(mail["server"]) \in Seq(Requests)
    BY <2>1 DEF PalindromesOK
  <2>3. PICK w \in Harmless : Head(mail["server"]).body = <<w>>
    BY <2>2 DEF Requests
  <2>4. Len(<<w>>) = 1 /\ SubSeq(<<w>>, 1, 1) = <<w>>
    BY <2>3, HarmlessWords
  <2>5. buf' = [buf EXCEPT !["server"] = <<w>>]
    BY <2>1, <2>3, <2>4
  <2>6. Head(mail["server"]).from \in Clients
    BY <2>2 DEF Requests
  <2>7. /\ DOMAIN mail' = Procs /\ DOMAIN buf' = Procs /\ DOMAIN peer' = Procs
        /\ mail'["server"] = Tail(mail["server"]) /\ buf'["server"] = <<w>>
        /\ peer'["server"] \in Clients /\ pc'["server"] = "requested"
        /\ \A c \in Clients : pc'[c] = pc[c]
    BY <2>1, <2>5, <2>6 DEF PalindromesOK, IInv, Domains
  <2> QED BY <2>1, <2>2, <2>3, <2>7 DEF PalindromesOK
<1>2. CASE Jump("server", "requested", IF buf["server"] = <<Halt>> THEN "close" ELSE "send")
  <2>1. pc["server"] = "requested" /\ buf["server"] # <<Halt>>
    BY <1>2, HarmlessWords DEF PalindromesOK, Jump, At
  <2>2. /\ pc' = [pc EXCEPT !["server"] = "send"]
        /\ UNCHANGED <<mail, buf, var, peer, said>>
    BY <1>2, <2>1 DEF Jump, Goto, locals, net, screen
  <2>3. pc'["server"] = "send" /\ \A c \in Clients : pc'[c] = pc[c]
    BY <2>2 DEF IInv, Domains
  <2> QED BY <2>1, <2>2, <2>3 DEF PalindromesOK
<1>3. CASE SendTo("server", "send", peer["server"], <<Results(buf["server"][1])>>, Lossy, "recv")
  <2>1. PICK body : SendTo("server", "send", peer["server"], body, Lossy, "recv")
    BY <1>3
  <2>2. /\ pc["server"] = "send" /\ pc' = [pc EXCEPT !["server"] = "recv"]
        /\ UNCHANGED <<buf, var, peer, said>>
        /\ mail' = mail \/ mail' = [mail EXCEPT ![peer["server"]] =
                                      Append(@, Datagram("server", body))]
    BY <2>1 DEF SendTo, SendOn, At, Goto, locals, screen
  <2>3. peer["server"] # "server"
    BY <2>2 DEF PalindromesOK
  <2>4. DOMAIN mail' = Procs /\ mail'["server"] = mail["server"]
    BY <2>2, <2>3 DEF PalindromesOK
  <2>5. pc'["server"] = "recv" /\ \A c \in Clients : pc'[c] = pc[c]
    BY <2>2 DEF IInv, Domains
  <2> QED BY <2>2, <2>4, <2>5 DEF PalindromesOK
<1>4. ~Exit("server", "close")
  BY DEF PalindromesOK, Exit, At
<1> QED BY <1>1, <1>2, <1>3, <1>4 DEF PalindromeServer

(* A client that leaves takes nothing along.                               *)
LEMMA PalindromesKill ==
    ASSUME IInv, system.name = "palindromes", PalindromesOK, NEW c \in Clients, Kill({c})
    PROVE  PalindromesOK' /\ UNCHANGED said
<1> USE ServerSeparate
<1>1. /\ pc' = Ended({c}) /\ buf' = Forgotten({c}, buf) /\ var' = Forgotten({c}, var)
      /\ peer' = [p \in Procs |-> IF task[p] \in {c} THEN p ELSE peer[p]]
      /\ UNCHANGED <<mail, said>>
  BY DEF Kill, screen
<1>2. \A p \in Procs : task[p] = p
  BY DEF IInv, OwnTask
<1>3. /\ pc'["server"] = pc["server"] /\ buf'["server"] = buf["server"]
      /\ peer'["server"] = peer["server"]
      /\ DOMAIN buf' = Procs /\ DOMAIN var' = Procs /\ DOMAIN peer' = Procs
  BY <1>1, <1>2 DEF Ended, Forgotten
<1>4. \A d \in Clients : pc'[d] = "send" => pc[d] = "send" /\ var'[d] = var[d]
  <2> SUFFICES ASSUME NEW d \in Clients, pc'[d] = "send"
               PROVE  pc[d] = "send" /\ var'[d] = var[d]
    OBVIOUS
  <2>1. CASE d = c
    BY <1>1, <1>2, <2>1 DEF Ended
  <2>2. CASE d # c
    BY <1>1, <1>2, <2>2 DEF Ended, Forgotten
  <2> QED BY <2>1, <2>2
<1> QED BY <1>1, <1>3, <1>4 DEF PalindromesOK

LEMMA PalindromesClient ==
    ASSUME IInv, system.name = "palindromes", PalindromesSaid, PalindromesOK, NEW c \in Clients,
           PalindromeClient(c)
    PROVE  PalindromesOK' \/ (Typed(Halt)' /\ ~Gone')
<1> USE ServerSeparate
<1>1. CASE Type(c, "menu", Inputs(c, {<<97, 98, 65>>, <<98>>, Halt}, <<98, 97, 98>>), "send")
  <2>1. PICK m \in Inputs(c, {<<97, 98, 65>>, <<98>>, Halt}, <<98, 97, 98>>) :
          /\ var' = [var EXCEPT ![c] = m] /\ said' = [said EXCEPT ![c] = Append(@, m)]
          /\ pc' = [pc EXCEPT ![c] = "send"]
          /\ UNCHANGED <<mail, buf, peer>>
    BY <1>1 DEF Type, Goto, net
  <2>2. m \in Harmless \cup {Halt}
    BY <2>1 DEF Inputs, Harmless
  <2>3. m = Halt => Typed(Halt)' /\ ~Gone'
    <3>1. pc'["server"] = pc["server"] /\ pc["server"] # "done"
      BY <2>1 DEF PalindromesOK, IInv, Domains
    <3> QED BY <2>1, <2>2, <3>1, SaidLonger DEF PalindromesSaid, Gone
  <2>4. ASSUME m \in Harmless PROVE PalindromesOK'
    <3>1. /\ pc'["server"] = pc["server"] /\ DOMAIN var' = Procs /\ var'[c] = m
          /\ \A d \in Clients \ {c} : pc'[d] = pc[d] /\ var'[d] = var[d]
      BY <2>1 DEF PalindromesOK, IInv, Domains
    <3>2. \A d \in Clients : pc'[d] = "send" => var'[d] \in Harmless
      BY <2>4, <3>1 DEF PalindromesOK
    <3> QED BY <2>1, <3>1, <3>2 DEF PalindromesOK
  <2> QED BY <2>2, <2>3, <2>4
<1>2. CASE SendTo(c, "send", ServerOf(c), <<var[c]>>, Lossy, IF var[c] = Halt THEN "close" ELSE "reply")
  <2>1. PICK next \in {"close", "reply"} : SendTo(c, "send", ServerOf(c), <<var[c]>>, Lossy, next)
    BY <1>2
  <2>2. /\ pc[c] = "send" /\ pc' = [pc EXCEPT ![c] = next]
        /\ UNCHANGED <<buf, var, peer, said>>
        /\ mail' = mail \/ mail' = [mail EXCEPT ![ServerOf(c)] = Append(@, Datagram(c, <<var[c]>>))]
    BY <2>1 DEF SendTo, SendOn, At, Goto, locals, screen
  <2>3. Datagram(c, <<var[c]>>) \in Requests
    BY <2>2 DEF PalindromesOK, Requests, Datagram
  <2>4. DOMAIN mail' = Procs
        /\ (mail'["server"] = mail["server"]
            \/ mail'["server"] = Append(mail["server"], Datagram(c, <<var[c]>>)))
    BY <2>2 DEF PalindromesOK
  <2>5. mail'["server"] \in Seq(Requests)
    BY <2>3, <2>4 DEF PalindromesOK
  <2>6. /\ pc'["server"] = pc["server"] /\ pc'[c] = next
        /\ \A d \in Clients \ {c} : pc'[d] = pc[d]
    BY <2>2 DEF IInv, Domains
  <2> QED BY <2>1, <2>2, <2>4, <2>5, <2>6 DEF PalindromesOK
<1>3. CASE RecvFromPrint(c, "reply", 1, "menu")
  <2>1. PICK got, from, rest :
          /\ pc' = [pc EXCEPT ![c] = "menu"] /\ UNCHANGED <<var, said>>
          /\ buf' = [buf EXCEPT ![c] = got] /\ peer' = [peer EXCEPT ![c] = from]
          /\ mail' = [mail EXCEPT ![c] = rest]
    BY <1>3 DEF RecvFromPrint, ReceiveFrom, Goto
  <2>2. /\ DOMAIN buf' = Procs /\ DOMAIN peer' = Procs /\ DOMAIN mail' = Procs
        /\ buf'["server"] = buf["server"] /\ peer'["server"] = peer["server"]
        /\ mail'["server"] = mail["server"] /\ pc'["server"] = pc["server"]
        /\ pc'[c] = "menu" /\ \A d \in Clients \ {c} : pc'[d] = pc[d]
    BY <2>1 DEF PalindromesOK, IInv, Domains
  <2> QED BY <2>1, <2>2 DEF PalindromesOK
<1>4. CASE Exit(c, "close")
  <2>1. Kill({c})
    BY <1>4 DEF Exit, IInv, OwnTask
  <2> QED BY <2>1, PalindromesKill
<1> QED BY <1>1, <1>2, <1>3, <1>4 DEF PalindromeClient

(* Whoever types Halt has typed it for ever.                               *)
LEMMA PalindromesSay ==
    ASSUME IInv, system.name = "palindromes", PalindromesSaid, [Next]_vars
    PROVE  PalindromesSaid' /\ (Typed(Halt) => Typed(Halt)')
<1>1. CASE Server("server")
  <2>1. PalindromeServer("server")
    BY <1>1 DEF Server, Datagrams, Names, Lectures, Children, Daemons
  <2>2. UNCHANGED said
    BY <2>1 DEF PalindromeServer, RecvFrom, ReceiveFrom, Jump, SendTo, SendOn, Exit, Kill, screen
  <2> QED BY <2>2, SaidStays DEF PalindromesSaid
<1>2. ASSUME NEW c \in Clients, Client(c)
      PROVE  PalindromesSaid' /\ (Typed(Halt) => Typed(Halt)')
  <2>1. PalindromeClient(c)
    BY <1>2 DEF Client, Datagrams, Names, Lectures, Children, Daemons
  <2>2. CASE Type(c, "menu", Inputs(c, {<<97, 98, 65>>, <<98>>, Halt}, <<98, 97, 98>>), "send")
    <3>1. PICK m \in Inputs(c, {<<97, 98, 65>>, <<98>>, Halt}, <<98, 97, 98>>) :
            said' = [said EXCEPT ![c] = Append(@, m)]
      BY <2>2 DEF Type
    <3>2. m \in Harmless \cup {Halt}
      BY <3>1 DEF Inputs, Harmless
    <3> QED BY <3>1, <3>2, SaidLonger DEF PalindromesSaid
  <2>3. CASE UNCHANGED said
    BY <2>3, SaidStays DEF PalindromesSaid
  <2> QED BY <2>1, <2>2, <2>3 DEF PalindromeClient, RecvFromPrint, ReceiveFrom, SendTo, SendOn,
                                 Exit, Kill, screen
<1>3. CASE Leave
  <2>1. UNCHANGED said
    BY <1>3 DEF Leave, Quit, Kill, screen
  <2> QED BY <2>1, SaidStays DEF PalindromesSaid
<1>4. CASE UNCHANGED vars
  <2>1. UNCHANGED said
    BY <1>4 DEF vars, screen
  <2> QED BY <2>1, SaidStays DEF PalindromesSaid
<1> QED BY <1>1, <1>2, <1>3, <1>4 DEF Next, Programs

LEMMA PalindromesGo ==
    ASSUME IInv, system.name = "palindromes", PalindromesSaid, PalindromesOK, [Next]_vars
    PROVE  PalindromesOK' \/ (Typed(Halt)' /\ ~Gone')
<1>1. CASE Server("server")
  <2>1. PalindromeServer("server")
    BY <1>1 DEF Server, Datagrams, Names, Lectures, Children, Daemons
  <2> QED BY <2>1, PalindromesServer
<1>2. ASSUME NEW c \in Clients, Client(c)
      PROVE  PalindromesOK' \/ (Typed(Halt)' /\ ~Gone')
  <2>1. PalindromeClient(c)
    BY <1>2 DEF Client, Datagrams, Names, Lectures, Children, Daemons
  <2> QED BY <2>1, PalindromesClient
<1>3. CASE Leave
  <2>1. PICK c \in Varied : Kill({c})
    BY <1>3 DEF Leave, Quit
  <2>2. c \in Clients
    BY VariedAssumption
  <2> QED BY <2>1, <2>2, PalindromesKill
<1>4. CASE UNCHANGED vars
  <2>1. UNCHANGED <<pc, mail, buf, var, peer>>
    BY <1>4 DEF vars, locals, net
  <2> QED BY <2>1 DEF PalindromesOK
<1> QED BY <1>1, <1>2, <1>3, <1>4 DEF Next, Programs

LEMMA PalindromesStep ==
    ASSUME IInv, PalindromesInv, UNCHANGED system, [Next]_vars
    PROVE  PalindromesInv'
  BY PalindromesSay, PalindromesGo DEF PalindromesInv

-----------------------------------------------------------------------------
(* A server that serves its connections itself can end only by sending on  *)
(* one that was reset.  What a client does leaves a connection without a   *)
(* reset to the server as long as the server has sent nothing on it.       *)
Fresh(k) == k.in["c"] = <<>> /\ "s" \notin k.rst
Keepers == {{"kernel"}, {"server"}}

(* What a client's step may do to connection k.                            *)
Gently(k, l) ==
    /\ DOMAIN l.in = Ends
    /\ Fresh(k) => Fresh(l)
    /\ k.by["s"] \in Keepers => l.by["s"] = k.by["s"]

Streams == \A i \in 1 .. MaxConns : DOMAIN conn[i].in = Ends
Own == \A c \in Clients : task[c] = c /\ fd[c].end = "c"

Waitlist ==
    /\ backlog \in Seq(1 .. MaxConns)
    /\ \A k \in DOMAIN backlog : conn[backlog[k]].by["s"] = {"kernel"}
    /\ \A j, k \in DOMAIN backlog : j # k => backlog[j] # backlog[k]

Common ==
    /\ Streams /\ Own /\ Waitlist
    /\ DOMAIN var = Procs
    /\ listening = {"server"} /\ task["server"] = "server"

Took(q) ==
    /\ fd[q].end = "s" /\ fd[q].conn \in 1 .. MaxConns
    /\ conn[fd[q].conn].by["s"] = {"server"}

Enters(i) ==
    /\ backlog' = Append(backlog, i)
    /\ conn[i].by["s"] = {} /\ conn'[i].by["s"] = {"kernel"}
    /\ Fresh(conn'[i])

(* What a client's step may do.                                            *)
Gentle ==
    /\ task' = task /\ listening' = listening /\ disk' = disk
    /\ DOMAIN var' = Procs
    /\ \A q \in Procs \ Clients : pc'[q] = pc[q] /\ fd'[q] = fd[q] /\ var'[q] = var[q]
    /\ \A c \in Clients : fd'[c].end = "c"
    /\ \A i \in 1 .. MaxConns : Gently(conn[i], conn'[i])
    /\ backlog' = backlog \/ \E i \in 1 .. MaxConns : Enters(i)

LEMMA GentlySelf == ASSUME NEW k, DOMAIN k.in = Ends PROVE Gently(k, k)
  BY DEF Gently

LEMMA GentlyIn ==
    ASSUME NEW k, Shape(k), DOMAIN k.in = Ends, NEW e \in Ends, NEW v,
           e = "s" \/ k.in["c"] # <<>>
    PROVE  Gently(k, [k EXCEPT !.in[e] = v])
  BY DEF Gently, Fresh, Shape, Ends

LEMMA GentlyRst ==
    ASSUME NEW k, Shape(k), DOMAIN k.in = Ends
    PROVE  Gently(k, [k EXCEPT !.rst = @ \cup {"c"}])
  BY DEF Gently, Fresh, Shape

LEMMA DropFields ==
    ASSUME NEW k, Shape(k), NEW e \in Ends, NEW T
    PROVE  /\ Drop(k, e, T).in = k.in
           /\ Drop(k, e, T).rst = k.rst \cup (IF k.by[e] # {} /\ k.by[e] \subseteq T /\ k.in[e] # <<>>
                                              THEN {Other(e)} ELSE {})
<1>1. DOMAIN k = {"in", "by", "rst"}
  BY DEF Shape
<1> DEFINE r == IF k.by[e] # {} /\ k.by[e] \subseteq T /\ k.in[e] # <<>>
                THEN k.rst \cup {Other(e)} ELSE k.rst
<1>2. Drop(k, e, T) = [k EXCEPT !.by[e] = @ \ T, !.rst = r]
  BY DEF Drop
<1>3. Drop(k, e, T).in = k.in /\ Drop(k, e, T).rst = r
  BY <1>1, <1>2
<1> QED BY <1>3

LEMMA GentlyDrop ==
    ASSUME NEW k, Shape(k), DOMAIN k.in = Ends, NEW c \in Clients
    PROVE  Gently(k, Drop(k, "c", {c})) /\ Gently(k, Drop(Drop(k, "c", {c}), "s", {c}))
<1>1. c # "server" /\ c # "kernel" /\ "c" \in Ends /\ "s" \in Ends /\ "c" # "s"
  BY ServerAssumption, ClientsAssumption DEF Ends
<1> DEFINE l == Drop(k, "c", {c})
           m == Drop(l, "s", {c})
<1>2. Shape(l) /\ l.by["s"] = k.by["s"]
  BY <1>1, DropShape
<1>3. m.by["s"] = l.by["s"] \ {c}
  BY <1>1, <1>2, DropShape
<1>4. /\ l.in = k.in
      /\ l.rst = k.rst \cup (IF k.by["c"] # {} /\ k.by["c"] \subseteq {c} /\ k.in["c"] # <<>>
                             THEN {Other("c")} ELSE {})
  BY <1>1, DropFields
<1>5. /\ m.in = l.in
      /\ m.rst = l.rst \cup (IF l.by["s"] # {} /\ l.by["s"] \subseteq {c} /\ l.in["s"] # <<>>
                             THEN {Other("s")} ELSE {})
  BY <1>1, <1>2, DropFields
<1>6. Fresh(k) => Fresh(l) /\ Fresh(m)
  <2> SUFFICES ASSUME k.in["c"] = <<>>, "s" \notin k.rst
               PROVE  Fresh(l) /\ Fresh(m)
    BY DEF Fresh
  <2>1. l.rst = k.rst
    BY <1>4
  <2>2. "s" \notin m.rst
    BY <1>1, <1>5, <2>1 DEF Other
  <2> QED BY <1>4, <1>5, <2>1, <2>2 DEF Fresh
<1>7. k.by["s"] \in Keepers => l.by["s"] = k.by["s"] /\ m.by["s"] = k.by["s"]
  BY <1>1, <1>2, <1>3 DEF Keepers
<1> QED BY <1>4, <1>5, <1>6, <1>7 DEF Gently

-----------------------------------------------------------------------------
(* The calls of a client are gentle.                                       *)
LEMMA OneConn ==
    ASSUME IInv, Common, NEW j, NEW l, conn' = [conn EXCEPT ![j] = l],
           j \in 1 .. MaxConns => Gently(conn[j], l)
    PROVE  \A i \in 1 .. MaxConns : Gently(conn[i], conn'[i])
  BY GentlySelf DEF IInv, ConnOK, Common, Streams

LEMMA SameConns ==
    ASSUME IInv, Common, UNCHANGED conn
    PROVE  \A i \in 1 .. MaxConns : Gently(conn[i], conn'[i])
  BY GentlySelf DEF Common, Streams

LEMMA GentleMove ==
    ASSUME IInv, Common, NEW c \in Clients, NEW next, pc' = [pc EXCEPT ![c] = next],
           DOMAIN var' = Procs, \A q \in Procs \ Clients : var'[q] = var[q],
           UNCHANGED <<task, fd, backlog, listening, disk>>,
           \A i \in 1 .. MaxConns : Gently(conn[i], conn'[i])
    PROVE  Gentle
<1>1. \A q \in Procs \ Clients : pc'[q] = pc[q]
  BY DEF IInv, Domains
<1> QED BY <1>1 DEF Gentle, Common, Own

LEMMA TypeGentle ==
    ASSUME IInv, Common, NEW c \in Clients, NEW at, NEW inputs, NEW next,
           Type(c, at, inputs, next)
    PROVE  Gentle
<1>1. PICK m : var' = [var EXCEPT ![c] = m]
  BY DEF Type
<1>2. /\ pc' = [pc EXCEPT ![c] = next] /\ UNCHANGED <<task, fd, backlog, listening, disk, conn>>
  BY DEF Type, Goto, net
<1>3. DOMAIN var' = Procs /\ \A q \in Procs \ Clients : var'[q] = var[q]
  BY <1>1 DEF Common
<1> QED BY <1>2, <1>3, SameConns, GentleMove

LEMMA ShowGentle ==
    ASSUME IInv, Common, NEW c \in Clients, NEW at, NEW what, NEW next,
           Show(c, at, what, next) \/ Jump(c, at, next)
    PROVE  Gentle
<1>1. /\ pc' = [pc EXCEPT ![c] = next]
      /\ UNCHANGED <<task, fd, var, backlog, listening, disk, conn>>
  BY DEF Show, Jump, Goto, locals, net
<1>2. DOMAIN var' = Procs /\ \A q \in Procs \ Clients : var'[q] = var[q]
  BY <1>1 DEF Common
<1> QED BY <1>1, <1>2, SameConns, GentleMove

LEMMA ConnectGentle ==
    ASSUME IInv, Common, NEW c \in Clients, NEW at, NEW next, NEW refused,
           Connect(c, at, next, refused)
    PROVE  Gentle
<1>1. PICK i \in 1 .. MaxConns :
        /\ conn[i] = NoConn
        /\ conn' = [conn EXCEPT ![i].by = [c |-> {task[c]}, s |-> {"kernel"}]]
        /\ backlog' = Append(backlog, i)
        /\ fd' = [fd EXCEPT ![c] = [conn |-> i, end |-> "c"]]
        /\ pc' = [pc EXCEPT ![c] = next]
        /\ UNCHANGED <<task, var, listening, disk>>
  BY DEF Connect, Goto, Common
<1> DEFINE l == [NoConn EXCEPT !.by = [c |-> {task[c]}, s |-> {"kernel"}]]
<1>2. conn' = [conn EXCEPT ![i] = l]
  BY <1>1
<1>3. /\ l.in = NoConn.in /\ l.rst = {} /\ l.by["s"] = {"kernel"}
      /\ NoConn.by["s"] = {} /\ DOMAIN NoConn.in = Ends
      /\ NoConn.in["c"] = <<>> /\ NoConn.rst = {}
  BY DEF NoConn, Ends
<1>4. Fresh(l) /\ Gently(NoConn, l)
  BY <1>3 DEF Gently, Fresh, Keepers
<1>5. \A j \in 1 .. MaxConns : Gently(conn[j], conn'[j])
  BY <1>1, <1>2, <1>4, OneConn
<1>6. Enters(i)
  <2>1. conn'[i] = l
    BY <1>2 DEF IInv, ConnOK
  <2> QED BY <1>1, <1>3, <1>4, <2>1 DEF Enters
<1>7. /\ \A q \in Procs \ Clients : pc'[q] = pc[q] /\ fd'[q] = fd[q]
      /\ \A d \in Clients : fd'[d].end = "c"
  BY <1>1, ClientsAssumption DEF IInv, Domains, Common, Own
<1> QED BY <1>1, <1>5, <1>6, <1>7 DEF Gentle, Common

LEMMA ReceiveGentle ==
    ASSUME IInv, Common, NEW c \in Clients, NEW at, NEW n, NEW show, NEW next, NEW zero, NEW failed,
           Receive(c, at, n, show, next, zero, failed)
    PROVE  Gentle
<1>1. /\ \E to : pc' = [pc EXCEPT ![c] = to]
      /\ UNCHANGED <<task, fd, var, backlog, listening, disk>>
  BY DEF Receive, Goto
<1>2. DOMAIN var' = Procs /\ \A q \in Procs \ Clients : var'[q] = var[q]
  BY <1>1 DEF Common
<1>3. \A i \in 1 .. MaxConns : Gently(conn[i], conn'[i])
  <2>1. CASE Read(c, n, show)
    <3> DEFINE f == fd[c].conn
    <3>1. PICK k \in 1 .. Len(Arrived(c)) :
            conn' = [conn EXCEPT ![f].in[fd[c].end] = SubSeq(@, k + 1, Len(@))]
      BY <2>1 DEF Read
    <3>2. fd[c].end = "c" /\ Arrived(c) = conn[f].in["c"]
      BY DEF Common, Own, Arrived, Mine
    <3>3. conn[f].in["c"] # <<>>
      <4>1. Len(<<>>) = 0
        OBVIOUS
      <4>2. 1 .. 0 = {}
        OBVIOUS
      <4> QED BY <3>1, <3>2, <4>1, <4>2
    <3>4. PICK v : conn' = [conn EXCEPT ![f].in["c"] = v]
      BY <3>1, <3>2
    <3>5. f \in 1 .. MaxConns => Gently(conn[f], [conn[f] EXCEPT !.in["c"] = v])
      BY <3>3, GentlyIn DEF IInv, ConnOK, Common, Streams, Ends
    <3>6. conn' = [conn EXCEPT ![f] = [conn[f] EXCEPT !.in["c"] = v]]
      BY <3>4
    <3> QED BY <3>5, <3>6, OneConn
  <2>2. CASE UNCHANGED conn
    BY <2>2, SameConns
  <2> QED BY <2>1, <2>2 DEF Receive
<1> QED BY <1>1, <1>2, <1>3, GentleMove

LEMMA CloseGentle ==
    ASSUME IInv, Common, NEW c \in Clients, NEW at, NEW next, Close(c, at, next)
    PROVE  Gentle
<1> DEFINE f == fd[c].conn
<1>1. /\ pc' = [pc EXCEPT ![c] = next] /\ UNCHANGED <<task, fd, var, backlog, listening, disk>>
  BY DEF Close, Goto, locals
<1>2. DOMAIN var' = Procs /\ \A q \in Procs \ Clients : var'[q] = var[q]
  BY <1>1 DEF Common
<1>3. task[c] = c /\ fd[c].end = "c"
  BY DEF Common, Own
<1>4. \A i \in 1 .. MaxConns : Gently(conn[i], conn'[i])
  <2>1. CASE UNCHANGED conn
    BY <2>1, SameConns
  <2>2. CASE conn' = [conn EXCEPT ![f] = Drop(@, fd[c].end, {task[c]})]
    <3>1. conn' = [conn EXCEPT ![f] = Drop(conn[f], "c", {c})]
      BY <2>2, <1>3
    <3>2. f \in 1 .. MaxConns => Gently(conn[f], Drop(conn[f], "c", {c}))
      BY GentlyDrop DEF IInv, ConnOK, Common, Streams
    <3> QED BY <3>1, <3>2, OneConn
  <2> QED BY <2>1, <2>2 DEF Close
<1> QED BY <1>1, <1>2, <1>4, GentleMove

LEMMA KillGentle ==
    ASSUME IInv, Common, NEW c \in Clients,
           \A q \in Procs \ Clients : task[q] # c, Kill({c})
    PROVE  Gentle
<1>1. listening' = listening /\ ~(listening \subseteq {c}) /\ c # "server"
  BY ServerAssumption DEF Kill, Closed, Common
<1>2. UNCHANGED <<task, disk, backlog>>
  BY <1>1 DEF Kill, Closed
<1>3. conn' = [i \in DOMAIN conn |-> Drop(Drop(conn[i], "c", {c}), "s", {c})]
  BY <1>1 DEF Kill, Closed
<1>4. \A i \in 1 .. MaxConns : Gently(conn[i], conn'[i])
  BY <1>3, GentlyDrop DEF IInv, ConnOK, Common, Streams
<1>5. \A q \in Procs \ Clients : pc'[q] = pc[q] /\ fd'[q] = fd[q] /\ var'[q] = var[q]
  BY DEF Kill, Ended, Forgotten
<1>6. DOMAIN var' = Procs
  BY DEF Kill, Forgotten
<1>7. \A d \in Clients : fd'[d].end = "c"
  BY ClientsAssumption DEF Kill, Common, Own, NoFd
<1> QED BY <1>1, <1>2, <1>4, <1>5, <1>6, <1>7 DEF Gentle

LEMMA ExitGentle ==
    ASSUME IInv, Common, NEW c \in Clients, \A q \in Procs \ Clients : task[q] # c, NEW at,
           Exit(c, at)
    PROVE  Gentle
  BY KillGentle DEF Exit, Common, Own

LEMMA SendGentle ==
    ASSUME IInv, Common, NEW c \in Clients, \A q \in Procs \ Clients : task[q] # c, NEW at, NEW m,
           NEW next, Send(c, at, m, next)
    PROVE  Gentle
<1> DEFINE f == fd[c].conn
<1>1. task[c] = c /\ fd[c].end = "c"
  BY DEF Common, Own
<1>2. CASE Kill({task[c]})
  BY <1>1, <1>2, KillGentle
<1>3. ASSUME conn' = [conn EXCEPT ![f].rst = @ \cup {fd[c].end}]
      PROVE  \A i \in 1 .. MaxConns : Gently(conn[i], conn'[i])
  <2>1. conn' = [conn EXCEPT ![f] = [conn[f] EXCEPT !.rst = @ \cup {"c"}]]
    BY <1>1, <1>3
  <2>2. f \in 1 .. MaxConns => Gently(conn[f], [conn[f] EXCEPT !.rst = @ \cup {"c"}])
    BY GentlyRst DEF IInv, ConnOK, Common, Streams
  <2> QED BY <2>1, <2>2, OneConn
<1>4. ASSUME conn' = [conn EXCEPT ![f].in[Other(fd[c].end)] = @ \o m]
      PROVE  \A i \in 1 .. MaxConns : Gently(conn[i], conn'[i])
  <2>1. PICK v : conn' = [conn EXCEPT ![f] = [conn[f] EXCEPT !.in["s"] = v]]
    BY <1>1, <1>4 DEF Other
  <2>2. f \in 1 .. MaxConns => Gently(conn[f], [conn[f] EXCEPT !.in["s"] = v])
    BY GentlyIn DEF IInv, ConnOK, Common, Streams, Ends
  <2> QED BY <2>1, <2>2, OneConn
<1>5. DOMAIN var' = Procs /\ (var' = var => \A q \in Procs \ Clients : var'[q] = var[q])
  <2>1. DOMAIN var = Procs
    BY DEF Common
  <2>2. Kill({task[c]}) \/ var' = var
    BY DEF Send, SendOr, locals
  <2> QED BY <2>1, <2>2 DEF Kill, Forgotten
<1>6. \/ Kill({task[c]})
      \/ /\ pc' = [pc EXCEPT ![c] = next]
         /\ UNCHANGED <<task, fd, var, backlog, listening, disk>>
         /\ \/ UNCHANGED conn
            \/ conn' = [conn EXCEPT ![f].rst = @ \cup {fd[c].end}]
            \/ conn' = [conn EXCEPT ![f].in[Other(fd[c].end)] = @ \o m]
  BY DEF Send, SendOr, Goto, locals, net
<1>7. CASE /\ pc' = [pc EXCEPT ![c] = next]
           /\ UNCHANGED <<task, fd, var, backlog, listening, disk>>
           /\ \/ UNCHANGED conn
              \/ conn' = [conn EXCEPT ![f].rst = @ \cup {fd[c].end}]
              \/ conn' = [conn EXCEPT ![f].in[Other(fd[c].end)] = @ \o m]
  <2>1. \A i \in 1 .. MaxConns : Gently(conn[i], conn'[i])
    BY <1>3, <1>4, <1>7, SameConns
  <2> QED BY <1>5, <1>7, <2>1, GentleMove
<1> QED BY <1>2, <1>6, <1>7

(* After a gentle step a server has what it had.                           *)
LEMMA GentleCommon ==
    ASSUME IInv, Common, Gentle
    PROVE  /\ Common'
           /\ \A k \in DOMAIN backlog' :
                Enters(backlog'[k]) \/ (k \in DOMAIN backlog /\ backlog'[k] = backlog[k])
           /\ \A q \in Procs \ Clients : Took(q) => Took(q)'
<1>1. /\ listening' = {"server"} /\ task'["server"] = "server" /\ DOMAIN var' = Procs
      /\ Streams' /\ Own'
  BY DEF Gentle, Common, Streams, Own, Gently
<1>2. \A q \in Procs \ Clients : Took(q) => Took(q)'
  BY DEF Gentle, Took, Gently, Keepers
<1>3. /\ backlog \in Seq(1 .. MaxConns)
      /\ \A k \in DOMAIN backlog : backlog[k] \in 1 .. MaxConns
  <2>1. \A S : \A s \in Seq(S) : \A k \in DOMAIN s : s[k] \in S
    OBVIOUS
  <2>2. backlog \in Seq(1 .. MaxConns)
    BY DEF Common, Waitlist
  <2> QED BY ONLY <2>1, <2>2
<1>4. \A k \in DOMAIN backlog : conn'[backlog[k]].by["s"] = {"kernel"}
  <2> TAKE k \in DOMAIN backlog
  <2>1. backlog[k] \in 1 .. MaxConns
    BY <1>3
  <2>2. conn[backlog[k]].by["s"] = {"kernel"}
    BY DEF Common, Waitlist
  <2>3. Gently(conn[backlog[k]], conn'[backlog[k]])
    BY <2>1 DEF Gentle
  <2> QED BY <2>2, <2>3 DEF Gently, Keepers
<1>5. CASE backlog' = backlog
  <2>1. Waitlist'
    BY <1>3, <1>4, <1>5 DEF Common, Waitlist
  <2> QED BY <1>1, <1>2, <1>5, <2>1 DEF Common
<1>6. ASSUME NEW i \in 1 .. MaxConns, Enters(i)
      PROVE  /\ Waitlist'
             /\ \A k \in DOMAIN backlog' :
                  Enters(backlog'[k]) \/ (k \in DOMAIN backlog /\ backlog'[k] = backlog[k])
  <2>1. /\ backlog' \in Seq(1 .. MaxConns) /\ Len(backlog) \in Nat
        /\ DOMAIN backlog = 1 .. Len(backlog) /\ DOMAIN backlog' = 1 .. Len(backlog) + 1
        /\ backlog'[Len(backlog) + 1] = i
        /\ \A k \in 1 .. Len(backlog) : backlog'[k] = backlog[k]
    BY <1>3, <1>6 DEF Enters
  <2>2. \A k \in DOMAIN backlog' :
          \/ backlog'[k] = i /\ k = Len(backlog) + 1
          \/ k \in DOMAIN backlog /\ backlog'[k] = backlog[k]
    BY <2>1
  <2>3. \A k \in DOMAIN backlog : backlog[k] # i
    BY <1>6 DEF Enters, Common, Waitlist
  <2>4. \A j, k \in DOMAIN backlog : j # k => backlog[j] # backlog[k]
    BY DEF Common, Waitlist
  <2>5. \A j, k \in DOMAIN backlog' : j # k => backlog'[j] # backlog'[k]
    BY <2>2, <2>3, <2>4
  <2>6. \A k \in DOMAIN backlog' : conn'[backlog'[k]].by["s"] = {"kernel"}
    BY <1>4, <1>6, <2>2 DEF Enters
  <2> QED BY <1>6, <2>1, <2>2, <2>5, <2>6 DEF Waitlist
<1> QED BY <1>1, <1>2, <1>5, <1>6 DEF Gentle, Common

-----------------------------------------------------------------------------
(* The daemons serve one connection after the other and send once on each, *)
(* after which only a close follows.  The syslog daemon alone sends twice, *)
(* when stdio has held back what so many connections made it print.  The   *)
(* printf daemon may end, or be lost, where a mark has overrun its buffer. *)
Marked ==
    system.name = "printf" /\ pc["server"] = "overrun" => Len(var["server"]) > MAXSIZE

StdioFull == system.name = "syslog daemon" /\ Len(disk.log) >= StdioCap

Stdio ==
    system.name = "syslog daemon" =>
        /\ var["server"] \in Seq({"hello"})
        /\ DOMAIN disk = {"log", "database"} /\ disk.log \in Seq({"Connection"})
        /\ Len(var["server"]) <= Len(disk.log) + (IF pc["server"] = "log" THEN 1 ELSE 0)
        /\ pc["server"] \in {"flush", "flushed"} => Len(var["server"]) >= StdioCap

(* Where the daemon may be, and whether it has sent already.               *)
DaemonAt(l) ==
    /\ l # "done"
    /\ l \in {"start", "accept"} \/ Took("server")
    /\ \/ l \in {"start", "accept", "close"}
       \/ Fresh(conn[fd["server"].conn])
       \/ StdioFull /\ l \in {"flushed", "print", "log", "send"}

WaitingFresh == \A k \in DOMAIN backlog : Fresh(conn[backlog[k]])

DaemonOK == Common /\ WaitingFresh /\ DaemonAt(pc["server"])

DaemonInv ==
    system.name \in Daemons => Gone \/ (DaemonOK /\ Stdio /\ Marked)

LEMMA LengthNat == ASSUME NEW S, NEW s \in Seq(S) PROVE Len(s) \in Nat
  OBVIOUS

LEMMA StdioPlace == ASSUME Stdio, system.name = "syslog daemon", pc["server"] # "log"
                    PROVE  pc["server"] \in {"flush", "flushed"} => StdioFull
  <1> SUFFICES ASSUME pc["server"] \in {"flush", "flushed"} PROVE Len(disk.log) >= StdioCap
    BY DEF StdioFull
  <1>1. var["server"] \in Seq({"hello"}) /\ disk.log \in Seq({"Connection"})
    BY DEF Stdio
  <1>2. \A S : \A s \in Seq(S) : Len(s) \in Nat
    BY LengthNat
  <1>3. PICK a \in Nat, b \in Nat : a = Len(var["server"]) /\ b = Len(disk.log)
    BY ONLY <1>1, <1>2
  <1>4. a <= b + 0 /\ a >= StdioCap
    BY <1>3 DEF Stdio
  <1>5. StdioCap \in Nat
    BY StdioCapAssumption
  <1>6. b >= StdioCap
    BY ONLY <1>3, <1>4, <1>5
  <1> QED BY <1>3, <1>6

(* A gentle step of a client changes none of this.                         *)
LEMMA GentleDaemon ==
    ASSUME IInv, DaemonOK, Stdio, Marked, Gentle, UNCHANGED system
    PROVE  DaemonOK' /\ Stdio' /\ Marked'
<1>1. "server" \in Procs \ Clients
  BY ServerAssumption
<1>2. /\ pc'["server"] = pc["server"] /\ fd'["server"] = fd["server"]
      /\ var'["server"] = var["server"] /\ disk' = disk
  BY <1>1 DEF Gentle
<1>3. Stdio' /\ Marked'
  BY <1>2 DEF Stdio, Marked
<1>4. /\ Common' /\ (Took("server") => Took("server")')
      /\ \A k \in DOMAIN backlog' :
           Enters(backlog'[k]) \/ (k \in DOMAIN backlog /\ backlog'[k] = backlog[k])
  BY <1>1, GentleCommon DEF DaemonOK
<1>5. WaitingFresh'
  <2> SUFFICES ASSUME NEW k \in DOMAIN backlog' PROVE Fresh(conn'[backlog'[k]])
    BY DEF WaitingFresh
  <2>1. CASE Enters(backlog'[k])
    BY <2>1 DEF Enters
  <2>2. CASE k \in DOMAIN backlog /\ backlog'[k] = backlog[k]
    <3>1. Fresh(conn[backlog[k]])
      BY <2>2 DEF DaemonOK, WaitingFresh
    <3>2. \A S : \A s \in Seq(S) : \A j \in DOMAIN s : s[j] \in S
      OBVIOUS
    <3>3. backlog \in Seq(1 .. MaxConns)
      BY DEF DaemonOK, Common, Waitlist
    <3>4. backlog[k] \in 1 .. MaxConns
      BY ONLY <2>2, <3>2, <3>3
    <3> QED BY <2>2, <3>1, <3>4 DEF Gentle, Gently
  <2> QED BY <1>4, <2>1, <2>2
<1>6. Took("server") /\ Fresh(conn[fd["server"].conn]) => Fresh(conn'[fd["server"].conn])
  BY DEF Gentle, Gently, Took
<1>7. StdioFull => StdioFull'
  BY <1>2 DEF StdioFull
<1>8. DaemonAt(pc["server"])'
  BY <1>2, <1>4, <1>6, <1>7 DEF DaemonAt, DaemonOK
<1> QED BY <1>3, <1>4, <1>5, <1>8 DEF DaemonOK

LEMMA DaemonClients ==
    ASSUME IInv, system.name \in Daemons, DaemonOK, Stdio, NEW c \in Clients, Client(c)
    PROVE  Gentle
<1>1. system.name # "threads" /\ \A q \in Procs \ Clients : task[q] # c
  BY DEF Daemons, IInv, OwnTask
<1>2. Common
  BY DEF DaemonOK
<1>3. GreetingClient(c) \/ LogClient(c)
  BY DEF Client, Datagrams, Names, Lectures, Children, Daemons
<1>4. CASE GreetingClient(c)
  <2>1. CASE Run(c)
    BY <1>2, <2>1, TypeGentle DEF Run
  <2>2. CASE Connect(c, "connect", "send", "shell")
    BY <1>2, <2>2, ConnectGentle
  <2>3. CASE Send(c, "send", Greeting, "reply")
    BY <1>1, <1>2, <2>3, SendGentle
  <2>4. CASE RecvPrint(c, "reply", 1, "close", "close")
    BY <1>2, <2>4, ReceiveGentle DEF RecvPrint
  <2>5. CASE Close(c, "close", "shell")
    BY <1>2, <2>5, CloseGentle
  <2> QED BY <1>4, <2>1, <2>2, <2>3, <2>4, <2>5 DEF GreetingClient
<1>5. CASE LogClient(c)
  <2>1. CASE Run(c)
    BY <1>2, <2>1, TypeGentle DEF Run
  <2>2. CASE Connect(c, "connect", "send", "shell")
    BY <1>2, <2>2, ConnectGentle
  <2>3. CASE Send(c, "send", Greeting, "close")
    BY <1>1, <1>2, <2>3, SendGentle
  <2>4. CASE Close(c, "close", "shell")
    BY <1>2, <2>4, CloseGentle
  <2> QED BY <1>5, <2>1, <2>2, <2>3, <2>4 DEF LogClient
<1> QED BY <1>3, <1>4, <1>5

LEMMA DaemonLeave ==
    ASSUME IInv, system.name \in Daemons, DaemonOK, Leave
    PROVE  Gentle
<1>1. PICK c \in Varied : Kill({c})
  BY DEF Leave, Quit
<1>2. c \in Clients /\ \A q \in Procs \ Clients : task[q] # c
  BY VariedAssumption DEF Daemons, IInv, OwnTask
<1> QED BY <1>1, <1>2, KillGentle DEF DaemonOK

-----------------------------------------------------------------------------
(* The daemon's own calls.                                                 *)

(* It goes on without touching its connection.                             *)
LEMMA DaemonMoves ==
    ASSUME IInv, DaemonOK, NEW next, pc' = [pc EXCEPT !["server"] = next],
           UNCHANGED <<system, task, fd, conn, backlog, listening>>, DOMAIN var' = Procs,
           StdioFull => StdioFull', DaemonAt(next)
    PROVE  DaemonOK'
<1>1. pc'["server"] = next
  BY ServerAssumption DEF IInv, Domains
<1>2. Common'
  BY DEF DaemonOK, Common, Streams, Own, Waitlist
<1>3. WaitingFresh'
  BY DEF DaemonOK, WaitingFresh
<1>4. DaemonAt(next)'
  BY DEF DaemonAt, Took
<1> QED BY <1>1, <1>2, <1>3, <1>4 DEF DaemonOK

LEMMA DaemonAssigns ==
    ASSUME IInv, DaemonOK, NEW at, NEW v, NEW next, Assign("server", at, v, next),
           DaemonAt(next)
    PROVE  DaemonOK'
<1>1. /\ pc' = [pc EXCEPT !["server"] = next] /\ var' = [var EXCEPT !["server"] = v]
      /\ UNCHANGED <<system, task, fd, conn, backlog, listening, disk>>
  BY DEF Assign, Goto, net
<1>2. DOMAIN var' = Procs
  BY <1>1 DEF DaemonOK, Common
<1>3. StdioFull => StdioFull'
  BY <1>1 DEF StdioFull
<1> QED BY <1>1, <1>2, <1>3, DaemonMoves

LEMMA DaemonLogs ==
    ASSUME IInv, DaemonOK, Stdio, NEW at, NEW entry, NEW next, Logged("server", at, entry, next),
           system.name = "syslog daemon" => entry = "Connection",
           DaemonAt(next)
    PROVE  DaemonOK'
<1>1. /\ pc' = [pc EXCEPT !["server"] = next] /\ var' = [var EXCEPT !["server"] = var["server"]]
      /\ disk' = [disk EXCEPT !.log = Append(@, entry)]
      /\ UNCHANGED <<system, task, fd, conn, backlog, listening>>
  BY DEF Logged, Compute, Goto
<1>2. DOMAIN var' = Procs
  BY <1>1 DEF DaemonOK, Common
<1>3. StdioFull => StdioFull'
  <2> SUFFICES ASSUME StdioFull PROVE StdioFull'
    OBVIOUS
  <2>1. DOMAIN disk = {"log", "database"} /\ disk.log \in Seq({"Connection"}) /\ entry \in {"Connection"}
    BY DEF StdioFull, Stdio
  <2>2. disk'.log = Append(disk.log, entry)
    BY <1>1, <2>1
  <2>3. Len(disk'.log) = Len(disk.log) + 1 /\ Len(disk.log) \in Nat
    BY <2>1, <2>2
  <2>4. PICK b \in Nat : b = Len(disk.log)
    BY <2>3
  <2>5. StdioCap \in Nat /\ b >= StdioCap
    BY <2>4, StdioCapAssumption DEF StdioFull
  <2>6. b + 1 >= StdioCap
    BY ONLY <2>4, <2>5
  <2>7. Len(disk'.log) >= StdioCap
    BY <2>3, <2>4, <2>6
  <2> QED BY <1>1, <2>7 DEF StdioFull
<1> QED BY <1>1, <1>2, <1>3, DaemonMoves

LEMMA DaemonAccepts ==
    ASSUME IInv, DaemonOK, NEW next, next \notin {"start", "accept", "close", "done"},
           Accept("server", "accept", next)
    PROVE  DaemonOK'
<1> DEFINE h == Head(backlog)
<1>1. /\ backlog # <<>> /\ backlog' = Tail(backlog)
      /\ fd' = [fd EXCEPT !["server"] = [conn |-> h, end |-> "s"]]
      /\ conn' = [conn EXCEPT ![h].by["s"] = {"server"}]
      /\ pc' = [pc EXCEPT !["server"] = next]
      /\ UNCHANGED <<system, task, var, listening, disk>>
  BY DEF Accept, Goto, DaemonOK, Common
<1>2. backlog \in Seq(1 .. MaxConns)
  BY DEF DaemonOK, Common, Waitlist
<1>3. /\ 1 \in DOMAIN backlog /\ h = backlog[1] /\ h \in 1 .. MaxConns
      /\ backlog' \in Seq(1 .. MaxConns)
      /\ \A k \in DOMAIN backlog' : /\ k \in Nat /\ k + 1 \in DOMAIN backlog /\ k + 1 # 1
                                    /\ backlog'[k] = backlog[k + 1]
                                    /\ backlog'[k] \in 1 .. MaxConns
  <2>1. \A S : \A s \in Seq(S) : s # <<>> =>
          /\ 1 \in DOMAIN s /\ Head(s) = s[1] /\ Head(s) \in S /\ Tail(s) \in Seq(S)
          /\ \A k \in DOMAIN Tail(s) : /\ k \in Nat /\ k + 1 \in DOMAIN s /\ k + 1 # 1
                                       /\ Tail(s)[k] = s[k + 1]
    OBVIOUS
  <2>2. \A S : \A s \in Seq(S) : \A k \in DOMAIN s : s[k] \in S
    OBVIOUS
  <2> QED BY ONLY <1>1, <1>2, <2>1, <2>2
<1>4. conn'[h].by["s"] = {"server"}
  BY <1>1, <1>3 DEF IInv, ConnOK, Shape, Ends
<1>5. \A i \in 1 .. MaxConns : conn'[i].in = conn[i].in /\ conn'[i].rst = conn[i].rst
  BY <1>1 DEF IInv, ConnOK, Shape
<1>6. \A i \in 1 .. MaxConns : i # h => conn'[i] = conn[i]
  BY <1>1 DEF IInv, ConnOK
<1>7. pc'["server"] = next /\ fd'["server"].conn = h /\ fd'["server"].end = "s"
  BY <1>1, ServerAssumption DEF IInv, Domains
<1>8. \A c \in Clients : fd'[c] = fd[c]
  BY <1>1, ServerAssumption
<1>9. \A k \in DOMAIN backlog' : backlog'[k] # h /\ Fresh(conn[backlog'[k]])
                                 /\ conn[backlog'[k]].by["s"] = {"kernel"}
  <2> TAKE k \in DOMAIN backlog'
  <2>1. 1 \in DOMAIN backlog /\ k + 1 \in DOMAIN backlog /\ k + 1 # 1 /\ backlog'[k] = backlog[k + 1]
    BY <1>3
  <2>2. backlog[k + 1] # backlog[1] /\ conn[backlog[k + 1]].by["s"] = {"kernel"}
    BY <2>1 DEF DaemonOK, Common, Waitlist
  <2>3. Fresh(conn[backlog[k + 1]])
    BY <2>1 DEF DaemonOK, WaitingFresh
  <2> QED BY <1>3, <2>1, <2>2, <2>3
<1>10. \A j, k \in DOMAIN backlog' : j # k => backlog'[j] # backlog'[k]
  <2> SUFFICES ASSUME NEW j \in DOMAIN backlog', NEW k \in DOMAIN backlog', j # k
               PROVE  backlog'[j] # backlog'[k]
    OBVIOUS
  <2>1. j \in Nat /\ k \in Nat /\ j + 1 \in DOMAIN backlog /\ k + 1 \in DOMAIN backlog
    BY <1>3
  <2>2. j + 1 # k + 1
    BY <2>1
  <2>3. backlog[j + 1] # backlog[k + 1]
    BY <2>1, <2>2 DEF DaemonOK, Common, Waitlist
  <2> QED BY <1>3, <2>3
<1>11. Waitlist'
  <2>1. \A k \in DOMAIN backlog' : conn'[backlog'[k]].by["s"] = {"kernel"}
    BY <1>3, <1>6, <1>9
  <2> QED BY <1>3, <1>10, <2>1 DEF Waitlist
<1>12. Common'
  BY <1>1, <1>5, <1>8, <1>11 DEF DaemonOK, Common, Streams, Own
<1>13. WaitingFresh'
  BY <1>3, <1>6, <1>9 DEF WaitingFresh
<1>14. Took("server")'
  BY <1>3, <1>4, <1>7 DEF Took
<1>15. Fresh(conn'[h])
  BY <1>3, <1>5 DEF Fresh, DaemonOK, WaitingFresh
<1> QED BY <1>7, <1>12, <1>13, <1>14, <1>15 DEF DaemonOK, DaemonAt

(* A step that changes only the server's own connection, and leaves its end  *)
(* of it open or closed.                                                   *)
LEMMA DaemonUses ==
    ASSUME IInv, DaemonOK, Took("server"), NEW next, NEW l,
           pc' = [pc EXCEPT !["server"] = next],
           \A i \in 1 .. MaxConns : conn'[i] = IF i = fd["server"].conn THEN l ELSE conn[i],
           DOMAIN l.in = Ends,
           UNCHANGED <<system, task, fd, var, backlog, listening, disk>>,
           next # "done",
           next \in {"start", "accept"} \/ l.by["s"] = {"server"},
           \/ next \in {"start", "accept", "close"}
           \/ Fresh(conn[fd["server"].conn]) /\ Fresh(l)
           \/ StdioFull /\ next \in {"flushed", "print", "log", "send"}
    PROVE  DaemonOK'
<1> DEFINE f == fd["server"].conn
<1>1. f \in 1 .. MaxConns /\ conn[f].by["s"] = {"server"} /\ fd["server"].end = "s"
  BY DEF Took
<1>2. conn'[f] = l /\ \A i \in 1 .. MaxConns : i # f => conn'[i] = conn[i]
  BY <1>1
<1>3. pc'["server"] = next
  BY ServerAssumption DEF IInv, Domains
<1>4. \A k \in DOMAIN backlog : backlog[k] \in 1 .. MaxConns /\ backlog[k] # f
  <2> TAKE k \in DOMAIN backlog
  <2>1. \A S : \A s \in Seq(S) : \A j \in DOMAIN s : s[j] \in S
    OBVIOUS
  <2>2. backlog \in Seq(1 .. MaxConns)
    BY DEF DaemonOK, Common, Waitlist
  <2>3. backlog[k] \in 1 .. MaxConns
    BY ONLY <2>1, <2>2
  <2>4. conn[backlog[k]].by["s"] = {"kernel"}
    BY DEF DaemonOK, Common, Waitlist
  <2>5. "kernel" # "server"
    BY ServerAssumption
  <2> QED BY <1>1, <2>3, <2>4, <2>5
<1>5. Waitlist' /\ WaitingFresh'
  BY <1>2, <1>4 DEF DaemonOK, Common, Waitlist, WaitingFresh
<1>6. Common'
  BY <1>2, <1>5 DEF DaemonOK, Common, Streams, Own
<1>7. StdioFull => StdioFull'
  BY DEF StdioFull
<1>8. DaemonAt(next)'
  BY <1>1, <1>2, <1>7 DEF DaemonAt, Took
<1> QED BY <1>3, <1>5, <1>6, <1>8 DEF DaemonOK

LEMMA DaemonReceives ==
    ASSUME IInv, DaemonOK, NEW at, at \notin {"start", "accept", "close", "flushed", "print", "log", "send"},
           NEW n, NEW next, NEW end,
           {next, end} \cap {"start", "accept", "close", "done"} = {},
           Recv("server", at, n, next, end)
    PROVE  DaemonOK'
<1> DEFINE f == fd["server"].conn
<1>1. Took("server") /\ Fresh(conn[f])
  BY DEF DaemonOK, DaemonAt, Recv, Receive, At
<1>2. f \in 1 .. MaxConns /\ conn[f].by["s"] = {"server"} /\ fd["server"].end = "s"
  BY <1>1 DEF Took
<1>3. PICK to \in {next, end} : pc' = [pc EXCEPT !["server"] = to]
  BY DEF Recv, Receive, Goto
<1>4. to \notin {"start", "accept", "close", "done"}
  BY <1>3
<1>5. UNCHANGED <<system, task, fd, var, backlog, listening, disk>>
  BY DEF Recv, Receive, Goto
<1>6. PICK l : /\ \A i \in 1 .. MaxConns : conn'[i] = IF i = f THEN l ELSE conn[i]
               /\ DOMAIN l.in = Ends /\ l.by = conn[f].by /\ Fresh(l)
  <2>1. CASE UNCHANGED conn
    BY <1>1, <1>2, <2>1 DEF DaemonOK, Common, Streams
  <2>2. CASE Read("server", n, FALSE)
    <3>1. PICK v : conn' = [conn EXCEPT ![f].in["s"] = v]
      BY <1>2, <2>2 DEF Read
    <3> DEFINE m == [conn[f] EXCEPT !.in["s"] = v]
    <3>2. \A i \in 1 .. MaxConns : conn'[i] = IF i = f THEN m ELSE conn[i]
      BY <3>1 DEF IInv, ConnOK
    <3>3. DOMAIN m.in = Ends /\ m.by = conn[f].by /\ Fresh(m)
      BY <1>1, <1>2 DEF IInv, ConnOK, Shape, Fresh, Ends, DaemonOK, Common, Streams
    <3> QED BY <3>2, <3>3
  <2> QED BY <2>1, <2>2 DEF Recv, Receive
<1> QED BY <1>1, <1>2, <1>3, <1>4, <1>5, <1>6, DaemonUses

LEMMA DaemonCloses ==
    ASSUME IInv, DaemonOK, Close("server", "close", "accept")
    PROVE  DaemonOK'
<1> DEFINE f == fd["server"].conn
           l == Drop(conn[f], "s", {"server"})
<1>1. Took("server")
  BY DEF DaemonOK, DaemonAt, Close, At
<1>2. f \in 1 .. MaxConns /\ fd["server"].end = "s" /\ task["server"] = "server" /\ f # 0
  BY <1>1 DEF Took, DaemonOK, Common
<1>3. /\ pc' = [pc EXCEPT !["server"] = "accept"]
      /\ conn' = [conn EXCEPT ![f] = l]
      /\ UNCHANGED <<system, task, fd, var, backlog, listening, disk>>
  BY <1>2 DEF Close, Goto, locals
<1>5. \A i \in 1 .. MaxConns : conn'[i] = IF i = f THEN l ELSE conn[i]
  BY <1>3 DEF IInv, ConnOK
<1>4. DOMAIN l.in = Ends
  BY <1>2, DropFields DEF IInv, ConnOK, DaemonOK, Common, Streams, Ends
<1> QED BY <1>1, <1>3, <1>4, <1>5, DaemonUses

(* A send after which the daemon closes or goes on with stdio full, or one *)
(* that ends it: that takes stdio to be full.                              *)
LEMMA DaemonSends ==
    ASSUME IInv, DaemonOK, NEW at, at \notin {"start", "accept", "close"}, NEW m, NEW next,
           Send("server", at, m, next),
           \/ next = "close"
           \/ at = "flush" /\ next = "flushed" /\ StdioFull
    PROVE  \/ DaemonOK' /\ pc'["server"] = next /\ UNCHANGED <<system, var, disk>>
           \/ Gone' /\ StdioFull /\ UNCHANGED <<system, disk>>
<1> DEFINE f == fd["server"].conn
<1>1. Took("server")
  BY DEF DaemonOK, DaemonAt, Send, SendOr, At
<1>2. /\ f \in 1 .. MaxConns /\ fd["server"].end = "s" /\ task["server"] = "server"
      /\ conn[f].by["s"] = {"server"}
  BY <1>1 DEF Took, DaemonOK, Common
<1>3. \/ Reset("server") /\ Kill({"server"})
      \/ /\ pc' = [pc EXCEPT !["server"] = next]
         /\ UNCHANGED <<system, task, fd, var, backlog, listening, disk>>
         /\ \/ UNCHANGED conn
            \/ conn' = [conn EXCEPT ![f].rst = @ \cup {"s"}]
            \/ conn' = [conn EXCEPT ![f].in["c"] = @ \o m]
  BY <1>2 DEF Send, SendOr, Goto, locals, net, Other
<1>4. CASE Reset("server") /\ Kill({"server"})
  <2>1. ~Fresh(conn[f])
    BY <1>2, <1>4 DEF Reset, Mine, Fresh
  <2>2. StdioFull
    BY <2>1 DEF DaemonOK, DaemonAt, Send, SendOr, At
  <2>3. pc["server"] # "none"
    <3>1. pc["server"] \in {"flushed", "print", "log", "send"}
      BY <2>1 DEF DaemonOK, DaemonAt, Send, SendOr, At
    <3> QED BY <3>1
  <2>4. Gone'
    BY <1>2, <1>4, <2>3, ServerAssumption DEF Kill, Ended, Gone
  <2> QED BY <1>4, <2>2, <2>4 DEF Kill
<1>5. CASE /\ pc' = [pc EXCEPT !["server"] = next]
           /\ UNCHANGED <<system, task, fd, var, backlog, listening, disk>>
           /\ \/ UNCHANGED conn
              \/ conn' = [conn EXCEPT ![f].rst = @ \cup {"s"}]
              \/ conn' = [conn EXCEPT ![f].in["c"] = @ \o m]
  <2>1. PICK l : /\ \A i \in 1 .. MaxConns : conn'[i] = IF i = f THEN l ELSE conn[i]
                 /\ DOMAIN l.in = Ends /\ l.by = conn[f].by
    <3>1. CASE UNCHANGED conn
      BY <1>2, <3>1 DEF DaemonOK, Common, Streams
    <3>2. CASE conn' = [conn EXCEPT ![f].rst = @ \cup {"s"}]
      <4> DEFINE k == [conn[f] EXCEPT !.rst = @ \cup {"s"}]
      <4>1. \A i \in 1 .. MaxConns : conn'[i] = IF i = f THEN k ELSE conn[i]
        BY <3>2 DEF IInv, ConnOK
      <4>2. DOMAIN k.in = Ends /\ k.by = conn[f].by
        BY <1>2 DEF IInv, ConnOK, Shape, DaemonOK, Common, Streams
      <4> QED BY <4>1, <4>2
    <3>3. CASE conn' = [conn EXCEPT ![f].in["c"] = @ \o m]
      <4>1. PICK v : conn' = [conn EXCEPT ![f].in["c"] = v]
        BY <3>3
      <4> DEFINE k == [conn[f] EXCEPT !.in["c"] = v]
      <4>2. \A i \in 1 .. MaxConns : conn'[i] = IF i = f THEN k ELSE conn[i]
        BY <4>1 DEF IInv, ConnOK
      <4>3. DOMAIN k.in = Ends /\ k.by = conn[f].by
        BY <1>2 DEF IInv, ConnOK, Shape, Ends, DaemonOK, Common, Streams
      <4> QED BY <4>2, <4>3
    <3> QED BY <1>5, <3>1, <3>2, <3>3
  <2>2. DaemonOK'
    BY <1>1, <1>2, <1>5, <2>1, DaemonUses
  <2>3. pc'["server"] = next
    BY <1>5, ServerAssumption DEF IInv, Domains
  <2> QED BY <1>5, <2>2, <2>3
<1> QED BY <1>3, <1>4, <1>5

(* What stdio holds back is no more than what was logged.                  *)
LEMMA AppendLength ==
    ASSUME NEW S, NEW s \in Seq(S), NEW e \in S
    PROVE  Append(s, e) \in Seq(S) /\ Len(Append(s, e)) = Len(s) + 1
  OBVIOUS

LEMMA EmptyLength == Len(<<>>) = 0 /\ \A S : <<>> \in Seq(S)
  OBVIOUS

LEMMA AtMost ==
    ASSUME NEW a \in Nat, NEW b \in Nat
    PROVE  /\ 0 <= b + 0
           /\ a <= b + 0 => a <= b + 1 /\ a + 1 <= b + 1
           /\ a <= b + 1 => a <= (b + 1) + 0
           /\ ~(a < b) => a >= b
  OBVIOUS

LEMMA StdioLens ==
    ASSUME Stdio, system.name = "syslog daemon"
    PROVE  /\ \E a \in Nat, b \in Nat : a = Len(var["server"]) /\ b = Len(disk.log)
           /\ StdioCap \in Nat
<1>1. var["server"] \in Seq({"hello"}) /\ disk.log \in Seq({"Connection"})
  BY DEF Stdio
<1>2. Len(var["server"]) \in Nat /\ Len(disk.log) \in Nat
  BY ONLY <1>1, LengthNat
<1> QED BY <1>2, StdioCapAssumption

LEMMA StdioSame ==
    ASSUME Stdio, UNCHANGED <<system, var, disk>>, pc["server"] # "log",
           pc'["server"] \in {"flush", "flushed"} =>
               (system.name = "syslog daemon" => Len(var["server"]) >= StdioCap)
    PROVE  Stdio'
<1> SUFFICES ASSUME system.name = "syslog daemon"
             PROVE  /\ Len(var["server"]) <= Len(disk.log) + (IF pc'["server"] = "log" THEN 1 ELSE 0)
                    /\ pc'["server"] \in {"flush", "flushed"} => Len(var["server"]) >= StdioCap
  BY DEF Stdio
<1>1. PICK a \in Nat, b \in Nat : a = Len(var["server"]) /\ b = Len(disk.log)
  BY StdioLens
<1>2. a <= b + 0
  BY <1>1 DEF Stdio
<1>3. a <= b + 1
  BY <1>2, AtMost
<1>4. a <= b + (IF pc'["server"] = "log" THEN 1 ELSE 0)
  BY <1>2, <1>3
<1> QED BY <1>1, <1>4

LEMMA SyslogServer ==
    ASSUME IInv, system.name = "syslog daemon", DaemonOK, Stdio, SyslogDaemon("server")
    PROVE  UNCHANGED system /\ ((DaemonOK' /\ Stdio') \/ (Gone' /\ StdioFull))
<1>1. DOMAIN pc = Procs /\ DOMAIN var = Procs /\ "server" \in Procs
  BY ServerAssumption DEF IInv, Domains, DaemonOK, Common
<1>2. PICK a \in Nat, b \in Nat : a = Len(var["server"]) /\ b = Len(disk.log)
  BY StdioLens
<1>3. StdioCap \in Nat
  BY StdioLens
<1>4. CASE Accept("server", "accept", "recv")
  <2>1. DaemonOK'
    BY <1>4, DaemonAccepts
  <2>2. pc["server"] = "accept" /\ pc'["server"] = "recv" /\ UNCHANGED <<system, var, disk>>
    BY <1>1, <1>4 DEF Accept, At, Goto
  <2>3. Stdio'
    BY <2>2, StdioSame
  <2> QED BY <2>1, <2>2, <2>3
<1>5. CASE Recv("server", "recv", 1, PrintOrFlush("server"), PrintOrFlush("server"))
  <2>1. PrintOrFlush("server") \in {"print", "flush"}
    BY DEF PrintOrFlush
  <2>2. DaemonOK'
    <3>1. {PrintOrFlush("server"), PrintOrFlush("server")} \cap {"start", "accept", "close", "done"} = {}
      BY <2>1
    <3>2. "recv" \notin {"start", "accept", "close", "flushed", "print", "log", "send"}
      OBVIOUS
    <3> QED BY <1>5, <3>1, <3>2, DaemonReceives
  <2>3. /\ pc["server"] = "recv" /\ pc'["server"] = PrintOrFlush("server")
        /\ UNCHANGED <<system, var, disk>>
    BY <1>1, <1>5 DEF Recv, Receive, At, Goto
  <2>4. pc'["server"] = "flush" => Len(var["server"]) >= StdioCap
    <3>1. pc'["server"] = "flush" => ~(a < StdioCap)
      BY <1>2, <2>3 DEF PrintOrFlush
    <3>2. ~(a < StdioCap) => a >= StdioCap
      BY <1>3, AtMost
    <3> QED BY <1>2, <3>1, <3>2
  <2>5. Stdio'
    BY <2>1, <2>3, <2>4, StdioSame
  <2> QED BY <2>2, <2>3, <2>5
<1>6. CASE Send("server", "flush", <<<<"hello">>, <<"and more">>>>, "flushed")
  <2>1. PICK m : Send("server", "flush", m, "flushed")
    BY <1>6
  <2>2. pc["server"] = "flush"
    BY <2>1 DEF Send, SendOr, At
  <2>3. StdioFull
    BY <2>2, StdioPlace
  <2>4. \/ DaemonOK' /\ pc'["server"] = "flushed" /\ UNCHANGED <<system, var, disk>>
        \/ Gone' /\ StdioFull /\ UNCHANGED <<system, disk>>
    <3>1. "flush" \notin {"start", "accept", "close"}
      OBVIOUS
    <3> QED BY <2>1, <2>3, <3>1, DaemonSends
  <2>5. Len(var["server"]) >= StdioCap
    BY <2>2 DEF Stdio
  <2> QED BY <2>2, <2>4, <2>5, StdioSame
<1>7. CASE Assign("server", "flushed", <<>>, "print")
  <2>1. /\ pc["server"] = "flushed" /\ pc'["server"] = "print" /\ var'["server"] = <<>>
        /\ UNCHANGED <<system, disk>>
    BY <1>1, <1>7 DEF Assign, At, Goto, net
  <2>2. StdioFull
    BY <2>1, StdioPlace
  <2>3. DaemonAt("print")
    BY <2>1, <2>2 DEF DaemonOK, DaemonAt
  <2>4. DaemonOK'
    BY <1>7, <2>3, DaemonAssigns
  <2>5. Stdio'
    <3>1. Len(<<>>) = 0 /\ <<>> \in Seq({"hello"})
      BY EmptyLength
    <3>2. 0 <= b + 0
      BY AtMost
    <3>3. var'["server"] \in Seq({"hello"}) /\ Len(var'["server"]) = 0
      BY <2>1, <3>1
    <3>4. Len(var'["server"]) <= Len(disk'.log) + (IF pc'["server"] = "log" THEN 1 ELSE 0)
      <4>1. Len(disk'.log) = b /\ (IF pc'["server"] = "log" THEN 1 ELSE 0) = 0
        BY <1>2, <2>1
      <4> QED BY <3>2, <3>3, <4>1
    <3>5. pc'["server"] \notin {"flush", "flushed"}
      BY <2>1
    <3> QED BY <2>1, <3>3, <3>4, <3>5 DEF Stdio
  <2> QED BY <2>1, <2>4, <2>5
<1>8. CASE Assign("server", "print", Append(var["server"], "hello"), "log")
  <2>1. /\ pc["server"] = "print" /\ pc'["server"] = "log"
        /\ var'["server"] = Append(var["server"], "hello")
        /\ UNCHANGED <<system, disk>>
    BY <1>1, <1>8 DEF Assign, At, Goto, net
  <2>2. DaemonAt("log")
    BY <2>1 DEF DaemonOK, DaemonAt
  <2>3. DaemonOK'
    BY <1>8, <2>2, DaemonAssigns
  <2>4. var["server"] \in Seq({"hello"})
    BY DEF Stdio
  <2>5. var'["server"] \in Seq({"hello"}) /\ Len(var'["server"]) = a + 1
    <3>1. "hello" \in {"hello"}
      OBVIOUS
    <3>2. /\ Append(var["server"], "hello") \in Seq({"hello"})
          /\ Len(Append(var["server"], "hello")) = Len(var["server"]) + 1
      BY ONLY <2>4, <3>1, AppendLength
    <3> QED BY <1>2, <2>1, <3>2
  <2>6. a <= b + 0
    BY <1>2, <2>1 DEF Stdio
  <2>7. a + 1 <= b + 1
    BY <2>6, AtMost
  <2>8. Len(var'["server"]) <= Len(disk'.log) + (IF pc'["server"] = "log" THEN 1 ELSE 0)
    BY <1>2, <2>1, <2>5, <2>7
  <2>9. Stdio'
    BY <2>1, <2>5, <2>8 DEF Stdio
  <2> QED BY <2>1, <2>3, <2>9
<1>9. CASE Logged("server", "log", "Connection", "send")
  <2>1. /\ pc["server"] = "log" /\ pc'["server"] = "send" /\ var'["server"] = var["server"]
        /\ disk' = [disk EXCEPT !.log = Append(@, "Connection")]
        /\ UNCHANGED system
    BY <1>1, <1>9 DEF Logged, Compute, At, Goto
  <2>2. DaemonAt("send")
    BY <2>1 DEF DaemonOK, DaemonAt
  <2>3. DaemonOK'
    BY <1>9, <2>2, DaemonLogs
  <2>4. DOMAIN disk = {"log", "database"} /\ disk.log \in Seq({"Connection"})
    BY DEF Stdio
  <2>5. /\ DOMAIN disk' = {"log", "database"} /\ disk'.log = Append(disk.log, "Connection")
    BY <2>1, <2>4
  <2>6. disk'.log \in Seq({"Connection"}) /\ Len(disk'.log) = b + 1
    <3>1. "Connection" \in {"Connection"}
      OBVIOUS
    <3>2. /\ Append(disk.log, "Connection") \in Seq({"Connection"})
          /\ Len(Append(disk.log, "Connection")) = Len(disk.log) + 1
      BY ONLY <2>4, <3>1, AppendLength
    <3> QED BY <1>2, <2>5, <3>2
  <2>7. a <= b + 1
    BY <1>2, <2>1 DEF Stdio
  <2>8. a <= (b + 1) + 0
    BY <2>7, AtMost
  <2>9. Len(var'["server"]) <= Len(disk'.log) + (IF pc'["server"] = "log" THEN 1 ELSE 0)
    BY <1>2, <2>1, <2>6, <2>8
  <2>10. Stdio'
    BY <2>1, <2>5, <2>6, <2>9 DEF Stdio
  <2> QED BY <2>1, <2>3, <2>10
<1>10. CASE Send("server", "send", <<Greeting \o <<" (ACK by Daemon)">>>>, "close")
  <2>1. PICK m : Send("server", "send", m, "close")
    BY <1>10
  <2>2. pc["server"] = "send"
    BY <2>1 DEF Send, SendOr, At
  <2>3. \/ DaemonOK' /\ pc'["server"] = "close" /\ UNCHANGED <<system, var, disk>>
        \/ Gone' /\ StdioFull /\ UNCHANGED <<system, disk>>
    <3>1. "send" \notin {"start", "accept", "close"}
      OBVIOUS
    <3> QED BY <2>1, <3>1, DaemonSends
  <2> QED BY <2>2, <2>3, StdioSame
<1>11. CASE Close("server", "close", "accept")
  <2>1. DaemonOK'
    BY <1>11, DaemonCloses
  <2>2. pc["server"] = "close" /\ pc'["server"] = "accept" /\ UNCHANGED <<system, var, disk>>
    BY <1>1, <1>11 DEF Close, At, Goto, locals
  <2> QED BY <2>1, <2>2, StdioSame
<1> QED BY <1>4, <1>5, <1>6, <1>7, <1>8, <1>9, <1>10, <1>11 DEF SyslogDaemon

(* The other daemons have nothing to hold back.                            *)
LEMMA MarkedMove ==
    ASSUME IInv, NEW next, pc' = [pc EXCEPT !["server"] = next], next # "overrun"
    PROVE  Marked'
  BY ServerAssumption DEF IInv, Domains, Marked

LEMMA MarkedAssign ==
    ASSUME IInv, NEW at, NEW v, NEW next, Assign("server", at, v, next), next # "overrun"
    PROVE  Marked'
  BY MarkedMove DEF Assign, Goto

LEMMA PrintfServer ==
    ASSUME IInv, system.name = "printf", DaemonOK, Stdio, Marked, PrintfDaemon("server")
    PROVE  (DaemonOK' /\ Marked') \/ (Gone' /\ Len(var["server"]) > MAXSIZE)
<1>1. \A l \in {"mark", "overrun", "lost", "send"} :
        Took("server") /\ Fresh(conn[fd["server"].conn]) => DaemonAt(l)
  BY DEF DaemonAt
<1>2. DaemonAt("accept")
  BY DEF DaemonAt
<1>3. ~StdioFull
  BY DEF StdioFull
<1>4. pc["server"] \in {"recv", "received", "mark", "overrun", "send"} =>
        Took("server") /\ Fresh(conn[fd["server"].conn])
  BY <1>3 DEF DaemonOK, DaemonAt
<1>5. ASSUME NEW held, Assign("server", "start", held, "accept") PROVE DaemonOK' /\ Marked'
  BY <1>2, <1>5, DaemonAssigns, MarkedAssign
<1>6. CASE Accept("server", "accept", "recv")
  BY <1>6, DaemonAccepts, MarkedMove DEF Accept, Goto
<1>7. CASE Recv("server", "recv", 1, "received", "mark")
  <2>1. /\ {"received", "mark"} \cap {"start", "accept", "close", "done"} = {}
        /\ "recv" \notin {"start", "accept", "close", "flushed", "print", "log", "send"}
    OBVIOUS
  <2>2. PICK to \in {"received", "mark"} : pc' = [pc EXCEPT !["server"] = to]
    BY <1>7 DEF Recv, Receive, Goto
  <2> QED BY <1>7, <2>1, <2>2, DaemonReceives, MarkedMove
<1>8. ASSUME NEW v, Assign("server", "received", v, "mark") PROVE DaemonOK' /\ Marked'
  <2>1. DaemonOK'
    BY <1>1, <1>4, <1>8, DaemonAssigns DEF Assign, At
  <2> QED BY <1>8, <2>1, MarkedAssign
<1>9. ASSUME NEW v, Assign("server", "mark", v, IF Len(v) > MAXSIZE THEN "overrun" ELSE "send")
      PROVE  DaemonOK' /\ Marked'
  <2>1. PICK next \in {"overrun", "send"} :
          Assign("server", "mark", v, next) /\ (next = "overrun" => Len(v) > MAXSIZE)
    BY <1>9
  <2>2. DaemonOK'
    BY <1>1, <1>4, <2>1, DaemonAssigns DEF Assign, At
  <2>3. pc'["server"] = next /\ var'["server"] = v
    BY <2>1, ServerAssumption DEF Assign, Goto, IInv, Domains, DaemonOK, Common
  <2> QED BY <2>1, <2>2, <2>3 DEF Marked
<1>10. ASSUME NEW next \in {"send", "lost"}, Jump("server", "overrun", next)
       PROVE  DaemonOK' /\ Marked'
  <2>1. /\ pc["server"] = "overrun" /\ pc' = [pc EXCEPT !["server"] = next]
        /\ UNCHANGED <<system, task, fd, var, conn, backlog, listening, disk>>
    BY <1>10 DEF Jump, At, Goto, locals, net
  <2>2. DOMAIN var' = Procs /\ DaemonAt(next)
    BY <1>1, <1>4, <2>1 DEF DaemonOK, Common
  <2> QED BY <1>3, <2>1, <2>2, DaemonMoves, MarkedMove
<1>11. CASE Exit("server", "overrun")
  <2>1. pc["server"] = "overrun" /\ task["server"] = "server" /\ Kill({"server"})
    BY <1>11 DEF Exit, At, DaemonOK, Common
  <2>2. Gone'
    BY <2>1, ServerAssumption DEF Kill, Ended, Gone
  <2> QED BY <2>1, <2>2 DEF Marked
<1>12. ASSUME NEW m, Send("server", "send", m, "close") PROVE DaemonOK' /\ Marked'
  <2>1. "send" \notin {"start", "accept", "close"}
    OBVIOUS
  <2>2. DaemonOK' /\ pc'["server"] = "close"
    BY <1>3, <1>12, <2>1, DaemonSends
  <2> QED BY <2>2 DEF Marked
<1>13. CASE Close("server", "close", "accept")
  BY <1>13, DaemonCloses, MarkedMove DEF Close, Goto
<1> QED BY <1>5, <1>6, <1>7, <1>8, <1>9, <1>10, <1>11, <1>12, <1>13 DEF PrintfDaemon, Overrun

LEMMA LogServers ==
    ASSUME IInv, system.name \in {"log", "priorities"}, DaemonOK, Stdio, LogServer("server")
    PROVE  DaemonOK'
<1>1. ~StdioFull
  BY DEF StdioFull
<1>2. pc["server"] \in {"log", "warn"} => DaemonAt("send") /\ DaemonAt("close")
  BY <1>1 DEF DaemonOK, DaemonAt
<1>3. CASE Accept("server", "accept", "recv")
  BY <1>3, DaemonAccepts
<1>4. CASE Recv("server", "recv", 1, "log", "warn")
  <2>1. /\ {"log", "warn"} \cap {"start", "accept", "close", "done"} = {}
        /\ "recv" \notin {"start", "accept", "close", "flushed", "print", "log", "send"}
    OBVIOUS
  <2> QED BY <1>4, <2>1, DaemonReceives
<1>5. CASE Logged("server", "log", "received", "send")
  BY <1>2, <1>5, DaemonLogs DEF Logged, Compute, At
<1>6. ASSUME NEW next \in {"close", "send"}, Logged("server", "warn", "disconnected", next)
      PROVE  DaemonOK'
  BY <1>2, <1>6, DaemonLogs DEF Logged, Compute, At
<1>7. CASE Send("server", "send", <<"ACK">>, "close")
  <2>1. "send" \notin {"start", "accept", "close"}
    OBVIOUS
  <2> QED BY <1>1, <1>7, <2>1, DaemonSends
<1>8. CASE Close("server", "close", "accept")
  BY <1>8, DaemonCloses
<1> QED BY <1>3, <1>4, <1>5, <1>6, <1>7, <1>8 DEF LogServer

(* A daemon that has ended stays so.                                       *)
LEMMA GoneStays ==
    ASSUME IInv, system.name \in Daemons, Gone, [Next]_vars
    PROVE  Gone'
<1>1. system.name # "threads" /\ "server" \in Procs /\ \A c \in Clients : c # "server"
  BY ServerAssumption DEF Daemons
<1>2. ~Server("server")
  <2>1. ~PrintfDaemon("server")
    BY DEF Gone, PrintfDaemon, Accept, Recv, Receive, Send, SendOr, Assign, Overrun, Jump, Exit,
           Close, At
  <2>2. ~SyslogDaemon("server") /\ ~LogServer("server")
    BY DEF Gone, SyslogDaemon, LogServer, Accept, Recv, Receive, Send, SendOr, Assign, Logged,
           Compute, Close, At
  <2> QED BY <2>1, <2>2 DEF Server, Datagrams, Names, Lectures, Children, Daemons
<1>3. ASSUME NEW c \in Clients, Kill({c}) PROVE Gone'
  BY <1>1, <1>3 DEF Kill, Ended, Gone
<1>4. ASSUME NEW c \in Clients, NEW to, pc' = [pc EXCEPT ![c] = to]
      PROVE  Gone'
  BY <1>1, <1>4 DEF Gone, IInv, Domains
<1>5. ASSUME NEW c \in Clients, Client(c) PROVE Gone'
  <2>1. task[c] = c
    BY <1>1, ClientsAssumption DEF IInv, OwnTask
  <2>2. GreetingClient(c) \/ LogClient(c)
    BY <1>5 DEF Client, Datagrams, Names, Lectures, Children, Daemons
  <2>3. CASE Run(c)
    BY <1>4, <2>3 DEF Run, Type, Goto
  <2>4. CASE Connect(c, "connect", "send", "shell")
    BY <1>4, <2>4 DEF Connect, Goto
  <2>5. ASSUME NEW next, Send(c, "send", Greeting, next) PROVE Gone'
    BY <1>3, <1>4, <2>1, <2>5 DEF Send, SendOr, Goto
  <2>6. CASE RecvPrint(c, "reply", 1, "close", "close")
    BY <1>4, <2>6 DEF RecvPrint, Receive, Goto
  <2>7. CASE Close(c, "close", "shell")
    BY <1>4, <2>7 DEF Close, Goto
  <2> QED BY <2>2, <2>3, <2>4, <2>5, <2>6, <2>7 DEF GreetingClient, LogClient
<1>6. ASSUME Leave PROVE Gone'
  BY <1>3, <1>6, VariedAssumption DEF Leave, Quit
<1>7. ASSUME UNCHANGED vars PROVE Gone'
  BY <1>7 DEF vars, Gone
<1> QED BY <1>2, <1>5, <1>6, <1>7 DEF Next, Programs

LEMMA DaemonGo ==
    ASSUME IInv, system.name \in Daemons, DaemonOK, Stdio, Marked, UNCHANGED system, [Next]_vars
    PROVE  (DaemonOK' /\ Stdio' /\ Marked') \/ (Gone' /\ EndsFor)
<1>1. CASE Server("server")
  <2>1. \/ system.name = "printf" /\ PrintfDaemon("server")
        \/ system.name = "syslog daemon" /\ SyslogDaemon("server")
        \/ system.name \in {"log", "priorities"} /\ LogServer("server")
    BY <1>1 DEF Server, Datagrams, Names, Lectures, Children, Daemons
  <2>2. (system.name # "syslog daemon" => Stdio') /\ (system.name # "printf" => Marked')
    BY DEF Stdio, Marked
  <2>3. /\ StdioFull => EndsFor
        /\ system.name = "printf" /\ Len(var["server"]) > MAXSIZE => EndsFor
    BY DEF StdioFull, EndsFor
  <2> QED BY <2>1, <2>2, <2>3, PrintfServer, SyslogServer, LogServers
<1>2. ASSUME NEW c \in Clients, Client(c) PROVE DaemonOK' /\ Stdio' /\ Marked'
  BY <1>2, DaemonClients, GentleDaemon
<1>3. CASE Leave
  BY <1>3, DaemonLeave, GentleDaemon
<1>4. CASE UNCHANGED vars
  <2>1. UNCHANGED <<system, pc, task, fd, var, conn, backlog, listening, disk>>
    BY <1>4 DEF vars, locals, net
  <2>2. Stdio' /\ Marked' /\ Common' /\ WaitingFresh'
    BY <2>1 DEF Stdio, Marked, DaemonOK, Common, Streams, Own, Waitlist, WaitingFresh
  <2>3. DaemonAt(pc["server"])'
    BY <2>1 DEF DaemonOK, DaemonAt, Took, StdioFull
  <2> QED BY <2>2, <2>3 DEF DaemonOK
<1> QED BY <1>1, <1>2, <1>3, <1>4 DEF Next, Programs

LEMMA DaemonStep ==
    ASSUME IInv, DaemonInv, UNCHANGED system, [Next]_vars
    PROVE  DaemonInv'
  BY GoneStays, DaemonGo DEF DaemonInv

-----------------------------------------------------------------------------
(* The server of threads is one task: a thread that sent on a connection    *)
(* that was reset would end them all.  It never does, because a client and  *)
(* its thread take turns: while a request waits or is answered, nothing     *)
(* the server sent is unread.  That holds until somebody types the line     *)
(* that leaves no room for the acknowledgement.                            *)
Single(s) == \E a : s = <<a>>
One(s) == s = <<>> \/ Single(s)
Short(s) == Single(s) /\ s # Long
Asked(s) == s = <<>> \/ Short(s)

Active(w) == pc[w] \in {"read", "send", "close"}
Answering(i) == \E w \in Workers : pc[w] = "send" /\ fd[w].conn = i

Link(k, answering) ==
    /\ Asked(k.in["s"]) /\ One(k.in["c"])
    /\ k.in["s"] # <<>> \/ answering => Fresh(k)
    /\ k.in["s"] = <<>> \/ ~answering
    /\ k.by["c"] # {} => "s" \notin k.rst /\ k.by["s"] \in Keepers

Lockstep == \A i \in 1 .. MaxConns : Link(conn[i], Answering(i))

Tasks == \A q \in Procs \ Clients : task[q] \in {q, "server"}

Accepted ==
    /\ pc["server"] \in {"accept", "create"}
    /\ pc["server"] = "create" => Took("server")

ThreadTalks(w) ==
    /\ pc[w] \in {"none", "read", "send", "close", "return", "done"}
    /\ Active(w) => /\ task[w] = "server" /\ Took(w)
                    /\ \A v \in Workers \ {w} : Active(v) => fd[v].conn # fd[w].conn
                    /\ pc["server"] = "create" => fd["server"].conn # fd[w].conn
    /\ pc[w] = "close" => conn[fd[w].conn].by["c"] = {}
    /\ var[w] # Long

Quiet(i) == conn[i].in["s"] = <<>> /\ ~Answering(i) /\ conn[i].in["c"] = <<>>

ClientTalks(c) ==
    /\ pc[c] \in {"connect", "menu", "send", "reply", "show", "close", "done"}
    /\ pc[c] \in {"menu", "send", "reply", "show"} =>
          fd[c].conn \in 1 .. MaxConns /\ conn[fd[c].conn].by["c"] = {c}
    /\ pc[c] \in {"menu", "send", "show"} => Quiet(fd[c].conn)
    /\ pc[c] = "send" => Short(var[c])

ThreadsOK ==
    /\ Common /\ Tasks /\ Accepted /\ Lockstep
    /\ \A w \in Workers : ThreadTalks(w)
    /\ \A c \in Clients : ClientTalks(c)

ThreadsSaid == SaidFrom({Long, quit, <<"hi">>})
Buffers == DOMAIN buf = Procs

ThreadsInv ==
    system.name = "threads" => ThreadsSaid /\ Buffers /\ (Typed(Long) \/ ThreadsOK)

OnlyVar(c) == \A d \in Clients \ {c} : var'[d] = var[d]

LEMMA Separate ==
    /\ "server" \in Procs \ Clients
    /\ \A w \in Workers : w \in Procs \ Clients /\ w # "server"
    /\ \A c \in Clients : c \in Procs /\ c # "server" /\ c \notin Workers
  BY ServerAssumption, WorkersAssumption, ClientsAssumption

-----------------------------------------------------------------------------
(* A client's step: what is left to say when it is gentle.                 *)
LEMMA ClientTakesStep ==
    ASSUME IInv, ThreadsOK, Gentle,
           \A i \in 1 .. MaxConns :
               /\ conn[i].by["s"] = {"server"} /\ conn[i].by["c"] = {} => conn'[i].by["c"] = {}
               /\ Link(conn'[i], Answering(i)),
           \A c \in Clients : ClientTalks(c)'
    PROVE  ThreadsOK'
<1>1. /\ \A q \in Procs \ Clients : pc'[q] = pc[q] /\ fd'[q] = fd[q] /\ var'[q] = var[q]
      /\ task' = task
  BY DEF Gentle
<1>2. /\ \A w \in Workers : pc'[w] = pc[w] /\ fd'[w] = fd[w] /\ var'[w] = var[w]
      /\ pc'["server"] = pc["server"] /\ fd'["server"] = fd["server"]
  BY <1>1, Separate
<1>3. Common' /\ \A q \in Procs \ Clients : Took(q) => Took(q)'
  BY GentleCommon DEF ThreadsOK
<1>4. \A i : Answering(i)' <=> Answering(i)
  BY <1>2 DEF Answering
<1>5. Lockstep'
  BY <1>4 DEF Lockstep, Link, Fresh
<1>6. Tasks'
  BY <1>1 DEF ThreadsOK, Tasks
<1>7. Accepted'
  BY <1>2, <1>3, Separate DEF ThreadsOK, Accepted
<1>8. \A w \in Workers : ThreadTalks(w)'
  <2> SUFFICES ASSUME NEW w \in Workers PROVE ThreadTalks(w)'
    OBVIOUS
  <2>1. ThreadTalks(w) /\ w \in Procs \ Clients
    BY Separate DEF ThreadsOK
  <2>2. \A v \in Workers : Active(v)' <=> Active(v)
    BY <1>2 DEF Active
  <2>3. Took(w) => Took(w)'
    BY <1>3, <2>1
  <2>4. pc'[w] = "close" => conn'[fd'[w].conn].by["c"] = {}
    <3> SUFFICES ASSUME pc[w] = "close" PROVE conn'[fd[w].conn].by["c"] = {}
      BY <1>2
    <3>1. Took(w) /\ conn[fd[w].conn].by["c"] = {}
      BY <2>1 DEF ThreadTalks, Active
    <3> QED BY <3>1 DEF Took
  <2>5. Active(w)' => /\ task'[w] = "server" /\ Took(w)'
                      /\ \A v \in Workers \ {w} : Active(v)' => fd'[v].conn # fd'[w].conn
                      /\ pc'["server"] = "create" => fd'["server"].conn # fd'[w].conn
    BY <1>1, <1>2, <2>1, <2>2, <2>3 DEF ThreadTalks
  <2> QED BY <1>2, <2>1, <2>4, <2>5 DEF ThreadTalks
<1> QED BY <1>3, <1>5, <1>6, <1>7, <1>8 DEF ThreadsOK

(* It touches only the connection it has to itself.                        *)
LEMMA ClientUses ==
    ASSUME NEW c \in Clients, NEW next, NEW l, IInv, ThreadsOK, Gentle,
           pc[c] \in {"menu", "send", "reply", "show"},
           pc' = [pc EXCEPT ![c] = next],
           UNCHANGED fd, OnlyVar(c),
           \A i \in 1 .. MaxConns : conn'[i] = IF i = fd[c].conn THEN l ELSE conn[i],
           l.by["c"] = {c},
           Link(l, Answering(fd[c].conn)),
           next \in {"menu", "send", "reply", "show", "close"},
           next \in {"menu", "send", "show"} =>
               l.in["s"] = <<>> /\ ~Answering(fd[c].conn) /\ l.in["c"] = <<>>,
           next = "send" => Short(var'[c])
    PROVE  ThreadsOK'
<1> DEFINE f == fd[c].conn
<1>1. f \in 1 .. MaxConns /\ conn[f].by["c"] = {c}
  BY DEF ThreadsOK, ClientTalks
<1>2. conn'[f] = l
  BY <1>1
<1>3. /\ \A w \in Workers : pc'[w] = pc[w] /\ fd'[w] = fd[w]
      /\ pc'[c] = next /\ \A d \in Clients \ {c} : pc'[d] = pc[d]
  BY Separate DEF IInv, Domains
<1>4. \A i : Answering(i)' <=> Answering(i)
  BY <1>3 DEF Answering
<1>5. ASSUME NEW i \in 1 .. MaxConns
      PROVE  /\ conn[i].by["s"] = {"server"} /\ conn[i].by["c"] = {} => conn'[i].by["c"] = {}
             /\ Link(conn'[i], Answering(i))
  <2>1. CASE i = f
    BY <1>1, <1>2, <2>1
  <2>2. CASE i # f
    <3>1. conn'[i] = conn[i]
      BY <2>2
    <3>2. Link(conn[i], Answering(i))
      BY DEF ThreadsOK, Lockstep
    <3> QED BY <3>1, <3>2
  <2> QED BY <2>1, <2>2
<1>6. ClientTalks(c)'
  BY <1>1, <1>2, <1>3, <1>4 DEF ClientTalks, Quiet
<1>7. ASSUME NEW d \in Clients \ {c} PROVE ClientTalks(d)'
  <2>1. ClientTalks(d)
    BY DEF ThreadsOK
  <2>2. pc'[d] = pc[d] /\ fd'[d] = fd[d] /\ var'[d] = var[d]
    BY <1>3 DEF OnlyVar
  <2>3. pc[d] \in {"menu", "send", "reply", "show"} =>
          fd[d].conn \in 1 .. MaxConns /\ conn'[fd[d].conn] = conn[fd[d].conn]
    <3> SUFFICES ASSUME pc[d] \in {"menu", "send", "reply", "show"}
                 PROVE  fd[d].conn \in 1 .. MaxConns /\ conn'[fd[d].conn] = conn[fd[d].conn]
      OBVIOUS
    <3>1. fd[d].conn \in 1 .. MaxConns /\ conn[fd[d].conn].by["c"] = {d}
      BY <2>1 DEF ClientTalks
    <3>2. fd[d].conn # f
      BY <1>1, <3>1
    <3> QED BY <3>1, <3>2
  <2> QED BY <1>4, <2>1, <2>2, <2>3 DEF ClientTalks, Quiet
<1> QED BY <1>5, <1>6, <1>7, ClientTakesStep

LEMMA ClientMoves ==
    ASSUME NEW c \in Clients, NEW next, IInv, ThreadsOK, Gentle,
           pc[c] \in {"menu", "show"},
           pc' = [pc EXCEPT ![c] = next],
           UNCHANGED <<fd, conn>>, OnlyVar(c),
           next \in {"menu", "send"},
           next = "send" => Short(var'[c])
    PROVE  ThreadsOK'
<1> DEFINE f == fd[c].conn
<1>1. f \in 1 .. MaxConns /\ conn[f].by["c"] = {c} /\ Quiet(f)
  BY DEF ThreadsOK, ClientTalks
<1>2. Link(conn[f], Answering(f))
  BY <1>1 DEF ThreadsOK, Lockstep
<1>3. \A i \in 1 .. MaxConns : conn'[i] = IF i = f THEN conn[f] ELSE conn[i]
  OBVIOUS
<1>4. pc[c] \in {"menu", "send", "reply", "show"} /\ next \in {"menu", "send", "reply", "show", "close"}
  OBVIOUS
<1>5. next \in {"menu", "send", "show"} =>
        conn[f].in["s"] = <<>> /\ ~Answering(f) /\ conn[f].in["c"] = <<>>
  BY <1>1 DEF Quiet
<1> QED BY <1>1, <1>2, <1>3, <1>4, <1>5, ClientUses

LEMMA ClientTypes ==
    ASSUME IInv, ThreadsSaid, ThreadsOK, NEW c \in Clients,
           Type(c, "menu", Inputs(c, {Long, quit}, <<"hi">>), "send")
    PROVE  ThreadsOK' \/ (Typed(Long)' /\ ~Gone')
<1>1. PICK m \in Inputs(c, {Long, quit}, <<"hi">>) :
        var' = [var EXCEPT ![c] = m] /\ said' = [said EXCEPT ![c] = Append(@, m)]
  BY DEF Type
<1>2. m \in {Long, quit, <<"hi">>}
  BY <1>1 DEF Inputs
<1>3. /\ pc[c] = "menu" /\ pc' = [pc EXCEPT ![c] = "send"] /\ UNCHANGED <<fd, conn>>
  BY DEF Type, At, Goto, net
<1>4. CASE m = Long
  <2>1. Typed(Long)'
    BY <1>1, <1>2, <1>4, SaidLonger DEF ThreadsSaid
  <2>2. pc'["server"] = pc["server"] /\ pc["server"] # "done"
    BY <1>3, Separate DEF ThreadsOK, Accepted, IInv, Domains
  <2> QED BY <2>1, <2>2 DEF Gone
<1>5. CASE m # Long
  <2>1. Short(m)
    BY <1>2, <1>5 DEF quit, Short, Single
  <2>2. var'[c] = m /\ OnlyVar(c)
    BY <1>1, Separate DEF ThreadsOK, Common, OnlyVar
  <2>3. Gentle
    BY TypeGentle DEF ThreadsOK
  <2>4. PICK next \in {"menu", "send"} : pc' = [pc EXCEPT ![c] = next]
    BY <1>3
  <2>5. /\ pc[c] \in {"menu", "show"} /\ UNCHANGED <<fd, conn>>
        /\ next = "send" => Short(var'[c])
    BY <1>3, <2>1, <2>2
  <2> QED BY <2>2, <2>3, <2>4, <2>5, ClientMoves
<1> QED BY <1>4, <1>5

LEMMA ClientShows ==
    ASSUME IInv, ThreadsOK, NEW c \in Clients, NEW what, Show(c, "show", what, "menu")
    PROVE  ThreadsOK'
<1>1. pc[c] = "show" /\ pc' = [pc EXCEPT ![c] = "menu"] /\ UNCHANGED <<fd, conn, var>>
  BY DEF Show, At, Goto, locals, net
<1>2. Gentle
  BY ShowGentle DEF ThreadsOK
<1>3. PICK next \in {"menu", "send"} : pc' = [pc EXCEPT ![c] = next] /\ next = "menu"
  BY <1>1
<1>4. /\ pc[c] \in {"menu", "show"} /\ UNCHANGED <<fd, conn>>
      /\ next = "send" => Short(var'[c])
      /\ OnlyVar(c)
  BY <1>1, <1>3 DEF OnlyVar
<1> QED BY <1>2, <1>3, <1>4, ClientMoves

LEMMA ClientConnects ==
    ASSUME IInv, ThreadsOK, NEW c \in Clients, Connect(c, "connect", "menu", "done")
    PROVE  ThreadsOK'
<1>1. PICK i \in 1 .. MaxConns :
        /\ conn[i] = NoConn
        /\ conn' = [conn EXCEPT ![i].by = [c |-> {task[c]}, s |-> {"kernel"}]]
        /\ fd' = [fd EXCEPT ![c] = [conn |-> i, end |-> "c"]]
        /\ pc' = [pc EXCEPT ![c] = "menu"]
        /\ UNCHANGED var
  BY DEF Connect, Goto, ThreadsOK, Common
<1> DEFINE l == [NoConn EXCEPT !.by = [c |-> {task[c]}, s |-> {"kernel"}]]
<1>2. task[c] = c
  BY DEF ThreadsOK, Common, Own
<1>3. /\ l.in["s"] = <<>> /\ l.in["c"] = <<>> /\ l.rst = {} /\ l.by["s"] = {"kernel"}
      /\ l.by["c"] = {c}
      /\ NoConn.by["s"] = {} /\ NoConn.by["c"] = {}
  BY <1>2 DEF NoConn, Ends
<1>4. conn'[i] = l /\ \A j \in 1 .. MaxConns : j # i => conn'[j] = conn[j]
  BY <1>1 DEF IInv, ConnOK
<1>5. /\ \A w \in Workers : pc'[w] = pc[w] /\ fd'[w] = fd[w]
      /\ pc'[c] = "menu" /\ fd'[c].conn = i
      /\ \A d \in Clients \ {c} : pc'[d] = pc[d] /\ fd'[d] = fd[d]
  BY <1>1, Separate DEF IInv, Domains
<1>6. \A j : Answering(j)' <=> Answering(j)
  BY <1>5 DEF Answering
<1>7. ~Answering(i)
  <2> SUFFICES ASSUME NEW w \in Workers, pc[w] = "send", fd[w].conn = i PROVE FALSE
    BY DEF Answering
  <2>1. conn[i].by["s"] = {"server"}
    BY DEF ThreadsOK, ThreadTalks, Active, Took
  <2> QED BY <1>1, <1>3, <2>1
<1>8. Link(l, Answering(i))
  BY <1>3, <1>7 DEF Link, Asked, One, Keepers
<1>9. ASSUME NEW j \in 1 .. MaxConns
      PROVE  /\ conn[j].by["s"] = {"server"} /\ conn[j].by["c"] = {} => conn'[j].by["c"] = {}
             /\ Link(conn'[j], Answering(j))
  <2>1. CASE j = i
    BY <1>1, <1>3, <1>4, <1>8, <2>1
  <2>2. CASE j # i
    <3>1. conn'[j] = conn[j]
      BY <1>4, <2>2
    <3>2. Link(conn[j], Answering(j))
      BY DEF ThreadsOK, Lockstep
    <3> QED BY <3>1, <3>2
  <2> QED BY <2>1, <2>2
<1>10. ClientTalks(c)'
  BY <1>3, <1>4, <1>5, <1>6, <1>7 DEF ClientTalks, Quiet
<1>11. ASSUME NEW d \in Clients \ {c} PROVE ClientTalks(d)'
  <2>1. ClientTalks(d)
    BY DEF ThreadsOK
  <2>2. pc[d] \in {"menu", "send", "reply", "show"} =>
          fd[d].conn \in 1 .. MaxConns /\ conn'[fd[d].conn] = conn[fd[d].conn]
    <3> SUFFICES ASSUME pc[d] \in {"menu", "send", "reply", "show"}
                 PROVE  fd[d].conn \in 1 .. MaxConns /\ conn'[fd[d].conn] = conn[fd[d].conn]
      OBVIOUS
    <3>1. fd[d].conn \in 1 .. MaxConns /\ conn[fd[d].conn].by["c"] = {d}
      BY <2>1 DEF ClientTalks
    <3>2. fd[d].conn # i
      BY <1>1, <1>3, <3>1
    <3> QED BY <1>4, <3>1, <3>2
  <2> QED BY <1>1, <1>5, <1>6, <2>1, <2>2 DEF ClientTalks, Quiet
<1>12. Gentle
  BY ConnectGentle DEF ThreadsOK
<1> QED BY <1>9, <1>10, <1>11, <1>12, ClientTakesStep

(* A client that ends leaves a request or the answer behind, never both.   *)
LEMMA ClientEnds ==
    ASSUME IInv, ThreadsOK, NEW c \in Clients, pc[c] # "none", Kill({c})
    PROVE  ThreadsOK'
<1>1. \A q \in Procs \ Clients : task[q] # c
  BY Separate DEF ThreadsOK, Tasks
<1>2. Gentle
  BY <1>1, KillGentle DEF ThreadsOK
<1>3. ~(listening \subseteq {c})
  BY Separate DEF ThreadsOK, Common
<1>4. \A i \in 1 .. MaxConns : conn'[i] = Drop(Drop(conn[i], "c", {c}), "s", {c})
  BY <1>3 DEF Kill, Closed, IInv, ConnOK
<1>5. ASSUME NEW i \in 1 .. MaxConns
      PROVE  /\ conn'[i].in = conn[i].in
             /\ conn'[i].by["c"] = conn[i].by["c"] \ {c}
             /\ conn'[i].by["s"] = conn[i].by["s"] \ {c}
             /\ "s" \in conn'[i].rst => \/ "s" \in conn[i].rst
                                        \/ conn[i].by["c"] \subseteq {c} /\ conn[i].in["c"] # <<>>
  <2> DEFINE k == conn[i]
             l == Drop(k, "c", {c})
             m == Drop(l, "s", {c})
  <2>1. Shape(k) /\ "c" \in Ends /\ "s" \in Ends /\ "c" # "s"
    BY DEF IInv, ConnOK, Ends
  <2>2. Shape(l) /\ l.by["c"] = k.by["c"] \ {c} /\ l.by["s"] = k.by["s"]
    BY <2>1, DropShape
  <2>3. m.by["s"] = l.by["s"] \ {c} /\ m.by["c"] = l.by["c"]
    BY <2>1, <2>2, DropShape
  <2>4. /\ l.in = k.in
        /\ l.rst = k.rst \cup (IF k.by["c"] # {} /\ k.by["c"] \subseteq {c} /\ k.in["c"] # <<>>
                               THEN {Other("c")} ELSE {})
    BY <2>1, DropFields
  <2>5. /\ m.in = l.in
        /\ m.rst = l.rst \cup (IF l.by["s"] # {} /\ l.by["s"] \subseteq {c} /\ l.in["s"] # <<>>
                               THEN {Other("s")} ELSE {})
    BY <2>1, <2>2, DropFields
  <2>6. "s" \in m.rst => "s" \in l.rst
    BY <2>1, <2>5 DEF Other
  <2>7. "s" \in l.rst => "s" \in k.rst \/ (k.by["c"] \subseteq {c} /\ k.in["c"] # <<>>)
    BY <2>4
  <2> QED BY <1>4, <2>2, <2>3, <2>4, <2>5, <2>6, <2>7
<1>6. /\ \A w \in Workers : pc'[w] = pc[w] /\ fd'[w] = fd[w]
      /\ pc'[c] = "done"
      /\ \A d \in Clients \ {c} : pc'[d] = pc[d] /\ fd'[d] = fd[d] /\ var'[d] = var[d]
  <2>1. \A d \in Clients : task[d] = d
    BY DEF ThreadsOK, Common, Own
  <2> QED BY <1>1, <2>1, Separate DEF Kill, Ended, Forgotten
<1>7. \A j : Answering(j)' <=> Answering(j)
  BY <1>6 DEF Answering
<1>8. ASSUME NEW i \in 1 .. MaxConns
      PROVE  /\ conn[i].by["s"] = {"server"} /\ conn[i].by["c"] = {} => conn'[i].by["c"] = {}
             /\ Link(conn'[i], Answering(i))
  <2>1. Link(conn[i], Answering(i))
    BY DEF ThreadsOK, Lockstep
  <2>2. conn'[i].by["c"] # {} => "s" \notin conn'[i].rst /\ conn'[i].by["s"] \in Keepers
    <3> SUFFICES ASSUME conn'[i].by["c"] # {}
                 PROVE  "s" \notin conn'[i].rst /\ conn'[i].by["s"] \in Keepers
      OBVIOUS
    <3>1. conn[i].by["c"] # {} /\ ~(conn[i].by["c"] \subseteq {c})
      BY <1>5
    <3>2. "s" \notin conn[i].rst /\ conn[i].by["s"] \in Keepers
      BY <2>1, <3>1 DEF Link
    <3>3. conn'[i].by["s"] = conn[i].by["s"]
      BY <1>2, <3>2 DEF Gentle, Gently
    <3> QED BY <1>5, <3>1, <3>2, <3>3
  <2>3. conn[i].in["s"] # <<>> \/ Answering(i) => Fresh(conn'[i])
    <3> SUFFICES ASSUME conn[i].in["s"] # <<>> \/ Answering(i) PROVE Fresh(conn'[i])
      OBVIOUS
    <3>1. Fresh(conn[i])
      BY <2>1 DEF Link
    <3> QED BY <1>2, <3>1 DEF Gentle, Gently
  <2>4. Asked(conn'[i].in["s"]) /\ One(conn'[i].in["c"]) /\ (conn'[i].in["s"] = <<>> \/ ~Answering(i))
    BY <1>5, <2>1 DEF Link
  <2>5. Link(conn'[i], Answering(i))
    BY <1>5, <2>2, <2>3, <2>4 DEF Link
  <2> QED BY <1>5, <2>5
<1>9. ClientTalks(c)'
  BY <1>6 DEF ClientTalks
<1>10. ASSUME NEW d \in Clients \ {c} PROVE ClientTalks(d)'
  <2>1. ClientTalks(d)
    BY DEF ThreadsOK
  <2>2. pc[d] \in {"menu", "send", "reply", "show"} =>
          /\ fd[d].conn \in 1 .. MaxConns
          /\ conn'[fd[d].conn].by["c"] = {d} /\ conn'[fd[d].conn].in = conn[fd[d].conn].in
    BY <1>5, <2>1 DEF ClientTalks
  <2> QED BY <1>6, <1>7, <2>1, <2>2 DEF ClientTalks, Quiet
<1> QED BY <1>2, <1>8, <1>9, <1>10, ClientTakesStep

(* The conversation of a client, call by call.                             *)
LEMMA OneRead ==
    ASSUME NEW s, One(s), s # <<>>, NEW k \in 1 .. Len(s)
    PROVE  SubSeq(s, k + 1, Len(s)) = <<>> /\ SubSeq(s, 1, k) = s
<1>1. PICK a : s = <<a>>
  BY DEF One, Single
<1>2. Len(s) = 1 /\ k = 1
  BY <1>1
<1>3. SubSeq(s, 2, 1) = <<>>
  BY <1>1
<1>4. SubSeq(s, 1, 1) = s
  BY <1>1, OneWord
<1> QED BY <1>2, <1>3, <1>4

LEMMA OneSent == ASSUME NEW m, Single(m) PROVE <<>> \o m = m /\ m # <<>> /\ One(m)
<1>1. PICK a : m = <<a>>
  BY DEF Single
<1>2. \A S : \A s \in Seq(S) : <<>> \o s = s
  OBVIOUS
<1>3. <<a>> \in Seq({a})
  OBVIOUS
<1>4. <<>> \o <<a>> = <<a>>
  BY ONLY <1>2, <1>3
<1>5. <<a>> # <<>>
  OBVIOUS
<1> QED BY <1>1, <1>4, <1>5 DEF One

LEMMA ClientSends ==
    ASSUME IInv, ThreadsOK, NEW c \in Clients, Send(c, "send", var[c], "reply")
    PROVE  ThreadsOK'
<1> DEFINE f == fd[c].conn
           k == conn[f]
<1>1. pc[c] = "send"
  BY DEF Send, SendOr, At
<1>2. /\ f \in 1 .. MaxConns /\ k.by["c"] = {c} /\ Quiet(f) /\ Short(var[c])
      /\ task[c] = c /\ fd[c].end = "c"
  BY <1>1 DEF ThreadsOK, ClientTalks, Common, Own
<1>3. Link(k, Answering(f))
  BY <1>2 DEF ThreadsOK, Lockstep
<1>4. var[c] # <<>> /\ <<>> \o var[c] = var[c] /\ Asked(var[c])
  BY <1>2, OneSent DEF Short, Asked
<1>5. k.by["s"] \in Keepers /\ k.by["s"] # {} /\ "s" \notin k.rst
  BY <1>2, <1>3 DEF Link, Keepers
<1>6. \/ Kill({c})
      \/ /\ pc' = [pc EXCEPT ![c] = "reply"] /\ UNCHANGED <<fd, var>>
         /\ conn' = [conn EXCEPT ![f].in["s"] = @ \o var[c]]
  <2>1. Open(c) /\ ~PeerClosed(c)
    BY <1>2, <1>5 DEF Open, PeerClosed, Mine, Other
  <2> QED BY <1>2, <1>4, <2>1 DEF Send, SendOr, Goto, locals, Other
<1>7. CASE Kill({c})
  BY <1>1, <1>7, ClientEnds
<1>8. CASE /\ pc' = [pc EXCEPT ![c] = "reply"] /\ UNCHANGED <<fd, var>>
           /\ conn' = [conn EXCEPT ![f].in["s"] = @ \o var[c]]
  <2> DEFINE l == [k EXCEPT !.in["s"] = @ \o var[c]]
  <2>1. \A i \in 1 .. MaxConns : conn'[i] = IF i = f THEN l ELSE conn[i]
    BY <1>8 DEF IInv, ConnOK
  <2>2. /\ l.by = k.by /\ l.rst = k.rst
        /\ l.in["s"] = k.in["s"] \o var[c] /\ l.in["c"] = k.in["c"]
    BY <1>2 DEF IInv, ConnOK, Shape, ThreadsOK, Common, Streams, Ends
  <2>3. l.in["s"] = var[c] /\ l.in["c"] = <<>>
    BY <1>2, <1>4, <2>2 DEF Quiet
  <2>4. Link(l, Answering(f))
    BY <1>2, <1>4, <1>5, <2>2, <2>3 DEF Link, Fresh, One, Quiet
  <2>5. Gentle
    <3>1. \A q \in Procs \ Clients : task[q] # c
      BY Separate DEF ThreadsOK, Tasks
    <3> QED BY <3>1, SendGentle DEF ThreadsOK
  <2>6. OnlyVar(c)
    BY <1>8 DEF OnlyVar
  <2>7. PICK next : next = "reply"
    OBVIOUS
  <2>8. /\ pc[c] \in {"menu", "send", "reply", "show"} /\ pc' = [pc EXCEPT ![c] = next]
        /\ UNCHANGED fd
        /\ next \in {"menu", "send", "reply", "show", "close"}
        /\ next \in {"menu", "send", "show"} =>
             l.in["s"] = <<>> /\ ~Answering(f) /\ l.in["c"] = <<>>
        /\ next = "send" => Short(var'[c])
    BY <1>1, <1>8, <2>7
  <2>9. l.by["c"] = {c}
    BY <1>2, <2>2
  <2> HIDE DEF l
  <2> QED BY <2>1, <2>4, <2>5, <2>6, <2>8, <2>9, ClientUses
<1> QED BY <1>6, <1>7, <1>8

LEMMA ClientReceives ==
    ASSUME IInv, ThreadsOK, NEW c \in Clients, Receive(c, "reply", 1, FALSE, "show", "blank", "close")
    PROVE  ThreadsOK'
<1> DEFINE f == fd[c].conn
           k == conn[f]
<1>1. pc[c] = "reply"
  BY DEF Receive, At
<1>2. /\ f \in 1 .. MaxConns /\ k.by["c"] = {c} /\ task[c] = c /\ fd[c].end = "c"
  BY <1>1 DEF ThreadsOK, ClientTalks, Common, Own
<1>3. Link(k, Answering(f))
  BY <1>2 DEF ThreadsOK, Lockstep
<1>4. k.by["s"] # {}
  BY <1>2, <1>3 DEF Link, Keepers
<1>5. ~PeerClosed(c) /\ Arrived(c) = k.in["c"]
  BY <1>2, <1>4 DEF PeerClosed, Arrived, Mine, Other
<1>6. Gentle
  BY ReceiveGentle DEF ThreadsOK
<1>7. UNCHANGED <<fd, var>> /\ OnlyVar(c)
  BY DEF Receive, OnlyVar
<1>8. CASE Read(c, 1, FALSE) /\ pc' = [pc EXCEPT ![c] = "show"]
  <2>1. PICK n \in 1 .. Len(k.in["c"]) :
          conn' = [conn EXCEPT ![f].in["c"] = SubSeq(@, n + 1, Len(@))]
    BY <1>2, <1>5, <1>8 DEF Read
  <2>2. k.in["c"] # <<>>
    <3>1. Len(<<>>) = 0
      OBVIOUS
    <3>2. 1 .. 0 = {}
      OBVIOUS
    <3> QED BY <2>1, <3>1, <3>2
  <2>3. SubSeq(k.in["c"], n + 1, Len(k.in["c"])) = <<>>
    BY <1>3, <2>1, <2>2, OneRead DEF Link
  <2> DEFINE l == [k EXCEPT !.in["c"] = SubSeq(@, n + 1, Len(@))]
  <2>4. \A i \in 1 .. MaxConns : conn'[i] = IF i = f THEN l ELSE conn[i]
    BY <2>1 DEF IInv, ConnOK
  <2>5. /\ l.by = k.by /\ l.rst = k.rst
        /\ l.in["c"] = SubSeq(k.in["c"], n + 1, Len(k.in["c"])) /\ l.in["s"] = k.in["s"]
    BY <1>2 DEF IInv, ConnOK, Shape, ThreadsOK, Common, Streams, Ends
  <2>6. k.in["s"] = <<>> /\ ~Answering(f)
    BY <1>3, <2>2 DEF Link, Fresh
  <2>7. Link(l, Answering(f))
    BY <1>3, <2>3, <2>5, <2>6 DEF Link, Fresh, One
  <2>8. PICK next : next = "show"
    OBVIOUS
  <2>9. /\ pc[c] \in {"menu", "send", "reply", "show"} /\ pc' = [pc EXCEPT ![c] = next]
        /\ next \in {"menu", "send", "reply", "show", "close"}
        /\ next \in {"menu", "send", "show"} =>
             l.in["s"] = <<>> /\ ~Answering(f) /\ l.in["c"] = <<>>
        /\ next = "send" => Short(var'[c])
        /\ l.by["c"] = {c}
    BY <1>1, <1>2, <1>8, <2>3, <2>5, <2>6, <2>8
  <2> HIDE DEF l
  <2> QED BY <1>6, <1>7, <2>4, <2>7, <2>9, ClientUses
<1>9. CASE UNCHANGED conn /\ pc' = [pc EXCEPT ![c] = "close"]
  <2>1. PICK l : l = k
    OBVIOUS
  <2>2. \A i \in 1 .. MaxConns : conn'[i] = IF i = f THEN l ELSE conn[i]
    BY <1>9, <2>1
  <2>3. PICK next : next = "close"
    OBVIOUS
  <2>4. /\ pc[c] \in {"menu", "send", "reply", "show"} /\ pc' = [pc EXCEPT ![c] = next]
        /\ next \in {"menu", "send", "reply", "show", "close"}
        /\ next \in {"menu", "send", "show"} =>
             l.in["s"] = <<>> /\ ~Answering(f) /\ l.in["c"] = <<>>
        /\ next = "send" => Short(var'[c])
        /\ l.by["c"] = {c}
    BY <1>1, <1>2, <1>9, <2>1, <2>3
  <2>5. Link(l, Answering(f))
    BY <1>3, <2>1
  <2> QED BY <1>6, <1>7, <2>2, <2>4, <2>5, ClientUses
<1> QED BY <1>5, <1>8, <1>9 DEF Receive, Goto

LEMMA ThreadClientOK ==
    ASSUME IInv, ThreadsSaid, ThreadsOK, NEW c \in Clients, ThreadClient(c)
    PROVE  ThreadsOK' \/ (Typed(Long)' /\ ~Gone')
<1>1. pc[c] # "blank"
  BY DEF ThreadsOK, ClientTalks
<1>2. CASE Type(c, "menu", Inputs(c, {Long, quit}, <<"hi">>), "send")
  BY <1>2, ClientTypes
<1>3. ASSUME NEW what, Show(c, "show", what, "menu") PROVE ThreadsOK'
  BY <1>3, ClientShows
<1>4. CASE Exit(c, "close")
  <2>1. task[c] = c /\ pc[c] = "close" /\ Kill({task[c]})
    BY <1>4 DEF Exit, At, ThreadsOK, Common, Own
  <2> QED BY <2>1, ClientEnds
<1>5. ~Show(c, "blank", <<Blank>>, "menu")
  BY <1>1 DEF Show, At
<1> QED BY <1>2, <1>3, <1>4, <1>5, ClientConnects, ClientSends, ClientReceives DEF ThreadClient

LEMMA ThreadLeave ==
    ASSUME IInv, ThreadsOK, Leave
    PROVE  ThreadsOK'
<1>1. PICK c \in Varied : pc[c] # "none" /\ Kill({c})
  BY DEF Leave, Quit
<1>2. c \in Clients
  BY VariedAssumption
<1> QED BY <1>1, <1>2, ClientEnds

-----------------------------------------------------------------------------
(* The server's steps.                                                     *)

(* Who waits for a thread is still there.                                  *)
LEMMA ClientsStand ==
    ASSUME ThreadsOK, UNCHANGED <<task, var>>,
           \A c \in Clients : pc'[c] = pc[c] /\ fd'[c] = fd[c],
           \A i \in 1 .. MaxConns : conn'[i].by["c"] = conn[i].by["c"],
           \A c \in Clients : pc[c] \in {"menu", "send", "show"} => Quiet(fd[c].conn)'
    PROVE  \A c \in Clients : ClientTalks(c)'
<1> SUFFICES ASSUME NEW c \in Clients PROVE ClientTalks(c)'
  OBVIOUS
<1>1. ClientTalks(c)
  BY DEF ThreadsOK
<1>2. pc'[c] = pc[c] /\ fd'[c] = fd[c] /\ var'[c] = var[c]
  OBVIOUS
<1>4. pc[c] \in {"menu", "send", "show"} => Quiet(fd[c].conn)'
  OBVIOUS
<1>5. pc'[c] \in {"menu", "send", "reply", "show"} =>
          fd'[c].conn \in 1 .. MaxConns /\ conn'[fd'[c].conn].by["c"] = {c}
  BY <1>1, <1>2 DEF ClientTalks
<1> QED BY <1>1, <1>2, <1>4, <1>5 DEF ClientTalks, Quiet, Answering

(* No client is where it counts on the connection to be quiet.             *)
Unwatched(i) ==
    \A c \in Clients : ~(pc[c] \in {"menu", "send", "show"} /\ fd[c].conn = i)

(* A thread takes a step with the connection it was given.                 *)
LEMMA ThreadTakesStep ==
    ASSUME NEW w \in Workers, NEW next, NEW l, IInv, ThreadsOK, Active(w),
           pc' = [pc EXCEPT ![w] = next],
           next \in {"read", "send", "close", "return"},
           UNCHANGED <<system, task, fd, var, backlog, listening>>,
           \A i \in 1 .. MaxConns : conn'[i] = IF i = fd[w].conn THEN l ELSE conn[i],
           DOMAIN l.in = Ends,
           l.by["c"] = conn[fd[w].conn].by["c"],
           next # "return" => l.by["s"] = {"server"},
           next = "close" => l.by["c"] = {},
           next = "send" => Link(l, TRUE),
           next # "send" => Link(l, FALSE),
           Unwatched(fd[w].conn)
    PROVE  ThreadsOK'
<1> DEFINE f == fd[w].conn
<1>1. /\ task[w] = "server" /\ fd[w].end = "s" /\ f \in 1 .. MaxConns
      /\ conn[f].by["s"] = {"server"}
      /\ \A v \in Workers \ {w} : Active(v) => fd[v].conn # f
      /\ pc["server"] = "create" => fd["server"].conn # f
  BY DEF ThreadsOK, ThreadTalks, Took
<1>2. conn'[f] = l /\ \A i \in 1 .. MaxConns : i # f => conn'[i] = conn[i]
  BY <1>1
<1>3. /\ pc'[w] = next /\ \A v \in Workers \ {w} : pc'[v] = pc[v]
      /\ pc'["server"] = pc["server"] /\ \A c \in Clients : pc'[c] = pc[c]
  BY Separate DEF IInv, Domains
<1>4. \A k \in DOMAIN backlog : backlog[k] \in 1 .. MaxConns /\ backlog[k] # f
  <2> TAKE k \in DOMAIN backlog
  <2>1. \A S : \A s \in Seq(S) : \A j \in DOMAIN s : s[j] \in S
    OBVIOUS
  <2>2. backlog \in Seq(1 .. MaxConns)
    BY DEF ThreadsOK, Common, Waitlist
  <2>3. backlog[k] \in 1 .. MaxConns
    BY ONLY <2>1, <2>2
  <2>4. conn[backlog[k]].by["s"] = {"kernel"}
    BY DEF ThreadsOK, Common, Waitlist
  <2>5. "kernel" # "server"
    BY ServerAssumption
  <2> QED BY <1>1, <2>3, <2>4, <2>5
<1>5. Waitlist'
  BY <1>2, <1>4 DEF ThreadsOK, Common, Waitlist
<1>6. Common'
  BY <1>2, <1>5 DEF ThreadsOK, Common, Streams, Own
<1>7. \A i : i # f => (Answering(i)' <=> Answering(i))
  <2> SUFFICES ASSUME NEW i, i # f PROVE Answering(i)' <=> Answering(i)
    OBVIOUS
  <2>1. \A v \in Workers : fd[v].conn = i => v # w /\ pc'[v] = pc[v]
    BY <1>3
  <2> QED BY <2>1 DEF Answering
<1>8. Answering(f)' <=> next = "send"
  <2>1. \A v \in Workers \ {w} : ~(pc'[v] = "send" /\ fd[v].conn = f)
    BY <1>1, <1>3 DEF Active
  <2> QED BY <1>3, <2>1 DEF Answering
<1>9. Lockstep'
  <2> SUFFICES ASSUME NEW i \in 1 .. MaxConns PROVE Link(conn'[i], Answering(i)')
    BY DEF Lockstep, Link, Fresh
  <2>1. CASE i = f
    <3>1. CASE next = "send"
      BY <1>2, <1>8, <2>1, <3>1 DEF Link
    <3>2. CASE next # "send"
      BY <1>2, <1>8, <2>1, <3>2 DEF Link
    <3> QED BY <3>1, <3>2
  <2>2. CASE i # f
    <3>1. Link(conn[i], Answering(i))
      BY DEF ThreadsOK, Lockstep
    <3>2. conn'[i] = conn[i] /\ (Answering(i)' <=> Answering(i))
      BY <1>2, <1>7, <2>2
    <3> QED BY <3>1, <3>2 DEF Link
  <2> QED BY <2>1, <2>2
<1>10. Tasks'
  BY DEF ThreadsOK, Tasks
<1>11. Accepted'
  <2>1. pc["server"] = "create" => Took("server")'
    BY <1>1, <1>2 DEF ThreadsOK, Accepted, Took
  <2> QED BY <1>3, <2>1 DEF ThreadsOK, Accepted
<1>12. \A v \in Workers : Active(v)' => Active(v)
  BY <1>3 DEF Active
<1>13. ThreadTalks(w)'
  <2>1. Active(w)' => Took(w)'
    BY <1>1, <1>2, <1>3 DEF Took, Active
  <2>2. pc'[w] = "close" => conn'[fd'[w].conn].by["c"] = {}
    BY <1>2, <1>3
  <2>3. var'[w] # Long
    BY DEF ThreadsOK, ThreadTalks
  <2> QED BY <1>1, <1>3, <1>12, <2>1, <2>2, <2>3 DEF ThreadTalks
<1>14. ASSUME NEW v \in Workers \ {w} PROVE ThreadTalks(v)'
  <2>1. ThreadTalks(v)
    BY DEF ThreadsOK
  <2>2. Active(v) => fd[v].conn \in 1 .. MaxConns /\ conn'[fd[v].conn] = conn[fd[v].conn]
    BY <1>1, <1>2, <2>1 DEF ThreadTalks, Took
  <2>3. Active(v)' => Took(v)'
    BY <1>12, <2>1, <2>2 DEF ThreadTalks, Took
  <2>4. pc'[v] = "close" => conn'[fd'[v].conn].by["c"] = {}
    BY <1>3, <2>1, <2>2 DEF ThreadTalks, Active
  <2> QED BY <1>3, <1>12, <2>1, <2>3, <2>4 DEF ThreadTalks
<1>15. \A c \in Clients : ClientTalks(c)'
  <2>1. \A i \in 1 .. MaxConns : conn'[i].by["c"] = conn[i].by["c"]
    BY <1>2
  <2>2. ASSUME NEW c \in Clients, pc[c] \in {"menu", "send", "show"} PROVE Quiet(fd[c].conn)'
    <3>1. fd[c].conn \in 1 .. MaxConns /\ Quiet(fd[c].conn)
      BY <2>2 DEF ThreadsOK, ClientTalks
    <3>2. fd[c].conn # f
      BY <2>2 DEF Unwatched
    <3> QED BY <1>2, <1>7, <3>1, <3>2 DEF Quiet, Answering
  <2> QED BY <1>3, <2>1, <2>2, ClientsStand
<1> QED BY <1>6, <1>9, <1>10, <1>11, <1>13, <1>14, <1>15 DEF ThreadsOK

(* What a thread at work knows of its connection.                          *)
LEMMA ThreadKnows ==
    ASSUME NEW w \in Workers, IInv, ThreadsOK, Active(w)
    PROVE  /\ fd[w].conn \in 1 .. MaxConns /\ fd[w].end = "s" /\ task[w] = "server"
           /\ conn[fd[w].conn].by["s"] = {"server"} /\ Open(w)
           /\ Shape(conn[fd[w].conn]) /\ DOMAIN conn[fd[w].conn].in = Ends
           /\ Link(conn[fd[w].conn], Answering(fd[w].conn))
           /\ Answering(fd[w].conn) <=> pc[w] = "send"
           /\ \A c \in Clients : pc[c] \in {"menu", "send", "show"} /\ fd[c].conn = fd[w].conn =>
                Quiet(fd[w].conn) /\ conn[fd[w].conn].by["c"] # {}
<1>1. /\ fd[w].conn \in 1 .. MaxConns /\ fd[w].end = "s" /\ task[w] = "server"
      /\ conn[fd[w].conn].by["s"] = {"server"}
  BY DEF ThreadsOK, ThreadTalks, Took
<1>2. Open(w)
  BY <1>1 DEF Open, Mine
<1>3. Shape(conn[fd[w].conn]) /\ DOMAIN conn[fd[w].conn].in = Ends
  BY <1>1 DEF IInv, ConnOK, ThreadsOK, Common, Streams
<1>4. Link(conn[fd[w].conn], Answering(fd[w].conn))
  BY <1>1 DEF ThreadsOK, Lockstep
<1>5. Answering(fd[w].conn) <=> pc[w] = "send"
  BY DEF Answering, ThreadsOK, ThreadTalks, Active
<1>6. \A c \in Clients : pc[c] \in {"menu", "send", "show"} /\ fd[c].conn = fd[w].conn =>
        Quiet(fd[w].conn) /\ conn[fd[w].conn].by["c"] # {}
  BY DEF ThreadsOK, ClientTalks
<1> QED BY <1>1, <1>2, <1>3, <1>4, <1>5, <1>6

LEMMA ThreadReceives ==
    ASSUME NEW w \in Workers, IInv, Buffers, ThreadsOK,
           Recv(w, "read", 1, Appended(buf'[w]), "close")
    PROVE  ThreadsOK'
<1> DEFINE f == fd[w].conn
           k == conn[f]
<1>1. pc[w] = "read" /\ Active(w)
  BY DEF Recv, Receive, At, Active
<1>2. /\ f \in 1 .. MaxConns /\ fd[w].end = "s" /\ Open(w)
      /\ k.by["s"] = {"server"} /\ Shape(k) /\ DOMAIN k.in = Ends
      /\ Link(k, Answering(f)) /\ ~Answering(f)
  BY <1>1, ThreadKnows
<1>3. \A c \in Clients : pc[c] \in {"menu", "send", "show"} /\ fd[c].conn = f =>
        Quiet(f) /\ k.by["c"] # {}
  BY <1>1, ThreadKnows
<1>4. UNCHANGED <<system, task, fd, var, backlog, listening>>
  BY DEF Recv, Receive, Goto
<1>5. Arrived(w) = k.in["s"]
  BY <1>2 DEF Arrived, Mine
<1>6. ASSUME Read(w, 1, FALSE), pc' = [pc EXCEPT ![w] = Appended(buf'[w])]
      PROVE  ThreadsOK'
  <2>1. PICK n \in 1 .. Len(k.in["s"]) :
          /\ conn' = [conn EXCEPT ![f].in["s"] = SubSeq(@, n + 1, Len(@))]
          /\ buf' = [buf EXCEPT ![w] = SubSeq(k.in["s"], 1, n)]
    BY <1>2, <1>5, <1>6 DEF Read
  <2>2. k.in["s"] # <<>>
    <3>1. Len(<<>>) = 0
      OBVIOUS
    <3>2. 1 .. 0 = {}
      OBVIOUS
    <3> QED BY <2>1, <3>1, <3>2
  <2>3. SubSeq(k.in["s"], n + 1, Len(k.in["s"])) = <<>> /\ SubSeq(k.in["s"], 1, n) = k.in["s"]
    BY <1>2, <2>1, <2>2, OneRead DEF Link, Asked, Short, One
  <2>11. Appended(buf'[w]) = "send"
    <3>1. k.in["s"] # Long
      BY <1>2, <2>2 DEF Link, Asked, Short
    <3>2. buf'[w] = k.in["s"]
      BY <2>1, <2>3, Separate DEF Buffers
    <3> QED BY <3>1, <3>2 DEF Appended
  <2> DEFINE l == [k EXCEPT !.in["s"] = SubSeq(@, n + 1, Len(@))]
  <2>4. \A i \in 1 .. MaxConns : conn'[i] = IF i = f THEN l ELSE conn[i]
    BY <2>1 DEF IInv, ConnOK
  <2>5. /\ l.by = k.by /\ l.rst = k.rst /\ DOMAIN l.in = Ends
        /\ l.in["s"] = SubSeq(k.in["s"], n + 1, Len(k.in["s"])) /\ l.in["c"] = k.in["c"]
    BY <1>2 DEF Shape, Ends
  <2>6. Fresh(k)
    BY <1>2, <2>2 DEF Link
  <2>7. PICK next : next = "send"
    OBVIOUS
  <2>8. Link(l, TRUE)
    BY <1>2, <2>3, <2>5, <2>6 DEF Link, Fresh, Asked
  <2>9. Unwatched(f)
    BY <1>3, <2>2 DEF Quiet, Unwatched
  <2>10. /\ pc' = [pc EXCEPT ![w] = next] /\ next \in {"read", "send", "close", "return"}
         /\ l.by["c"] = k.by["c"]
         /\ next # "return" => l.by["s"] = {"server"}
         /\ next = "close" => l.by["c"] = {}
    BY <1>2, <1>6, <2>5, <2>7, <2>9, <2>11
  <2> HIDE DEF l
  <2> QED BY <1>1, <1>4, <2>4, <2>5, <2>7, <2>8, <2>9, <2>10, ThreadTakesStep
<1>7. ASSUME UNCHANGED conn, pc' = [pc EXCEPT ![w] = "close"], PeerClosed(w) \/ Reset(w)
      PROVE  ThreadsOK'
  <2>1. k.by["c"] = {}
    BY <1>2, <1>7 DEF Link, PeerClosed, Reset, Mine, Other
  <2>2. Unwatched(f)
    BY <1>3, <2>1 DEF Unwatched
  <2>3. PICK l : l = k
    OBVIOUS
  <2>4. PICK next : next = "close"
    OBVIOUS
  <2>5. Link(l, FALSE) /\ next # "send"
    BY <1>2, <2>3, <2>4 DEF Link
  <2>6. \A i \in 1 .. MaxConns : conn'[i] = IF i = f THEN l ELSE conn[i]
    BY <1>7, <2>3
  <2>7. /\ pc' = [pc EXCEPT ![w] = next] /\ next \in {"read", "send", "close", "return"}
        /\ l.by["c"] = k.by["c"] /\ DOMAIN l.in = Ends
        /\ next # "return" => l.by["s"] = {"server"}
        /\ next = "close" => l.by["c"] = {}
    BY <1>2, <1>7, <2>1, <2>2, <2>3, <2>4
  <2> QED BY <1>1, <1>4, <2>2, <2>5, <2>6, <2>7, ThreadTakesStep
<1> QED BY <1>2, <1>6, <1>7 DEF Recv, Receive, Goto

(* A thread never answers on a connection that was reset.                  *)
LEMMA ThreadSends ==
    ASSUME NEW w \in Workers, NEW a, IInv, ThreadsOK, Send(w, "send", <<a>>, "read")
    PROVE  ThreadsOK'
<1> DEFINE f == fd[w].conn
           k == conn[f]
<1>1. pc[w] = "send" /\ Active(w)
  BY DEF Send, SendOr, At, Active
<1>2. /\ f \in 1 .. MaxConns /\ fd[w].end = "s" /\ Open(w)
      /\ k.by["s"] = {"server"} /\ Shape(k) /\ DOMAIN k.in = Ends
      /\ Link(k, Answering(f)) /\ Answering(f)
  BY <1>1, ThreadKnows
<1>3. Unwatched(f)
  <2>1. \A c \in Clients : pc[c] \in {"menu", "send", "show"} /\ fd[c].conn = f => Quiet(f)
    BY <1>1, ThreadKnows
  <2> QED BY <1>2, <2>1 DEF Quiet, Unwatched
<1>4. Fresh(k) /\ ~Reset(w) /\ k.in["s"] = <<>>
  BY <1>2 DEF Link, Fresh, Reset, Mine
<1>5. PICK m : m = <<a>>
  OBVIOUS
<1>6. m # <<>> /\ <<>> \o m = m /\ One(m)
  BY <1>5, OneSent DEF Single
<1>7. PICK l : /\ conn' = [conn EXCEPT ![f] = l]
               /\ l.by = k.by /\ DOMAIN l.in = Ends /\ Link(l, FALSE)
  <2>1. CASE PeerClosed(w) /\ conn' = [conn EXCEPT ![f].rst = @ \cup {"s"}]
    <3> DEFINE l == [k EXCEPT !.rst = @ \cup {"s"}]
    <3>1. l.by = k.by /\ l.in = k.in
      BY <1>2 DEF Shape
    <3>2. k.by["c"] = {}
      BY <1>2, <2>1 DEF PeerClosed, Mine, Other
    <3>3. Link(l, FALSE)
      BY <1>2, <1>4, <3>1, <3>2 DEF Link
    <3>4. conn' = [conn EXCEPT ![f] = l]
      BY <2>1
    <3> QED BY <1>2, <3>1, <3>3, <3>4
  <2>2. CASE conn' = [conn EXCEPT ![f].in["c"] = @ \o m]
    <3> DEFINE l == [k EXCEPT !.in["c"] = @ \o m]
    <3>1. /\ l.by = k.by /\ l.rst = k.rst /\ DOMAIN l.in = Ends
          /\ l.in["c"] = k.in["c"] \o m /\ l.in["s"] = k.in["s"]
      BY <1>2 DEF Shape, Ends
    <3>2. l.in["c"] = m
      BY <1>4, <1>6, <3>1 DEF Fresh
    <3>3. Link(l, FALSE)
      BY <1>2, <1>4, <1>6, <3>1, <3>2 DEF Link
    <3>4. conn' = [conn EXCEPT ![f] = l]
      BY <2>2
    <3> QED BY <3>1, <3>3, <3>4
  <2>3. Send(w, "send", m, "read")
    BY <1>5
  <2>4. \/ PeerClosed(w) /\ conn' = [conn EXCEPT ![f].rst = @ \cup {"s"}]
        \/ conn' = [conn EXCEPT ![f].in["c"] = @ \o m]
    BY <1>2, <1>4, <1>6, <2>3 DEF Send, SendOr, Other
  <2> QED BY <2>1, <2>2, <2>4
<1>8. /\ pc' = [pc EXCEPT ![w] = "read"]
      /\ UNCHANGED <<system, task, fd, var, backlog, listening>>
  <2>1. Send(w, "send", m, "read")
    BY <1>5
  <2> QED BY <1>2, <1>4, <2>1 DEF Send, SendOr, Goto, locals, net
<1>9. PICK next : next = "read"
  OBVIOUS
<1>10. Link(l, FALSE) /\ next # "send"
  BY <1>7, <1>9
<1>11. \A i \in 1 .. MaxConns : conn'[i] = IF i = f THEN l ELSE conn[i]
  BY <1>7 DEF IInv, ConnOK
<1>12. /\ pc' = [pc EXCEPT ![w] = next] /\ next \in {"read", "send", "close", "return"}
       /\ l.by["c"] = k.by["c"] /\ DOMAIN l.in = Ends
       /\ next # "return" => l.by["s"] = {"server"}
       /\ next = "close" => l.by["c"] = {}
  BY <1>2, <1>3, <1>7, <1>8, <1>9
<1> QED BY <1>1, <1>3, <1>8, <1>10, <1>11, <1>12, ThreadTakesStep

LEMMA ThreadCloses ==
    ASSUME NEW w \in Workers, IInv, ThreadsOK, Close(w, "close", "return")
    PROVE  ThreadsOK'
<1> DEFINE f == fd[w].conn
           k == conn[f]
           l == Drop(k, "s", {"server"})
<1>1. pc[w] = "close" /\ Active(w)
  BY DEF Close, At, Active
<1>2. /\ f \in 1 .. MaxConns /\ fd[w].end = "s" /\ task[w] = "server" /\ f # 0
      /\ Shape(k) /\ DOMAIN k.in = Ends
      /\ Link(k, Answering(f)) /\ ~Answering(f)
  BY <1>1, ThreadKnows
<1>3. k.by["c"] = {}
  BY <1>1 DEF ThreadsOK, ThreadTalks
<1>4. Unwatched(f)
  <2>1. \A c \in Clients : pc[c] \in {"menu", "send", "show"} /\ fd[c].conn = f => k.by["c"] # {}
    BY <1>1, ThreadKnows
  <2> QED BY <1>3, <2>1 DEF Unwatched
<1>5. /\ pc' = [pc EXCEPT ![w] = "return"]
      /\ conn' = [conn EXCEPT ![f] = l]
      /\ UNCHANGED <<system, task, fd, var, backlog, listening>>
  BY <1>2 DEF Close, Goto, locals
<1>6. "s" \in Ends /\ "c" \in Ends /\ "c" # "s"
  BY DEF Ends
<1>7. l.by["c"] = k.by["c"]
  BY <1>2, <1>6, DropShape
<1>8. l.in = k.in /\ ("s" \in l.rst => "s" \in k.rst)
  <2>1. /\ l.in = k.in
        /\ l.rst = k.rst \cup (IF k.by["s"] # {} /\ k.by["s"] \subseteq {"server"} /\ k.in["s"] # <<>>
                               THEN {Other("s")} ELSE {})
    BY <1>2, <1>6, DropFields
  <2> QED BY <2>1 DEF Other
<1>9. PICK next : next = "return"
  OBVIOUS
<1>10. Link(l, FALSE) /\ next # "send"
  BY <1>2, <1>3, <1>7, <1>8, <1>9 DEF Link, Fresh
<1>11. \A i \in 1 .. MaxConns : conn'[i] = IF i = f THEN l ELSE conn[i]
  BY <1>5 DEF IInv, ConnOK
<1>12. /\ pc' = [pc EXCEPT ![w] = next] /\ next \in {"read", "send", "close", "return"}
       /\ l.by["c"] = k.by["c"] /\ DOMAIN l.in = Ends
       /\ next # "return" => l.by["s"] = {"server"}
       /\ next = "close" => l.by["c"] = {}
  BY <1>2, <1>4, <1>5, <1>7, <1>8, <1>9
<1> HIDE DEF l
<1> QED BY <1>1, <1>4, <1>5, <1>10, <1>11, <1>12, ThreadTakesStep

LEMMA ThreadReturns ==
    ASSUME NEW w \in Workers, IInv, ThreadsOK, Return(w, "return")
    PROVE  ThreadsOK'
<1>1. /\ pc[w] = "return" /\ pc' = [pc EXCEPT ![w] = "done"]
      /\ UNCHANGED <<system, task, fd, var, conn, backlog, listening>>
  BY DEF Return, Jump, At, Goto, locals, net
<1>2. /\ pc'[w] = "done" /\ \A v \in Workers \ {w} : pc'[v] = pc[v]
      /\ pc'["server"] = pc["server"] /\ \A c \in Clients : pc'[c] = pc[c]
  BY <1>1, Separate DEF IInv, Domains
<1>3. \A i : Answering(i)' <=> Answering(i)
  BY <1>1, <1>2 DEF Answering
<1>4. \A v \in Workers : Active(v)' <=> Active(v)
  BY <1>1, <1>2 DEF Active
<1>5. Common' /\ Tasks'
  BY <1>1 DEF ThreadsOK, Common, Streams, Own, Waitlist, Tasks
<1>6. Accepted'
  BY <1>1, <1>2 DEF ThreadsOK, Accepted, Took
<1>7. Lockstep'
  BY <1>1, <1>3 DEF ThreadsOK, Lockstep, Link, Fresh
<1>8. ASSUME NEW v \in Workers PROVE ThreadTalks(v)'
  <2>1. ThreadTalks(v)
    BY DEF ThreadsOK
  <2>2. Took(v)' <=> Took(v)
    BY <1>1 DEF Took
  <2>3. pc'[v] = pc[v] \/ pc'[v] = "done"
    BY <1>2
  <2> QED BY <1>1, <1>2, <1>4, <2>1, <2>2, <2>3 DEF ThreadTalks
<1>9. \A c \in Clients : ClientTalks(c)'
  <2>1. ASSUME NEW c \in Clients, pc[c] \in {"menu", "send", "show"} PROVE Quiet(fd[c].conn)'
    <3>1. Quiet(fd[c].conn)
      BY <2>1 DEF ThreadsOK, ClientTalks
    <3> QED BY <1>1, <1>3, <3>1 DEF Quiet, Answering
  <2> QED BY <1>1, <1>2, <2>1, ClientsStand
<1> QED BY <1>5, <1>6, <1>7, <1>8, <1>9 DEF ThreadsOK

LEMMA ThreadsAccept ==
    ASSUME IInv, ThreadsOK, Accept("server", "accept", "create")
    PROVE  ThreadsOK'
<1> DEFINE h == Head(backlog)
<1>1. /\ backlog # <<>> /\ backlog' = Tail(backlog)
      /\ fd' = [fd EXCEPT !["server"] = [conn |-> h, end |-> "s"]]
      /\ conn' = [conn EXCEPT ![h].by["s"] = {"server"}]
      /\ pc["server"] = "accept" /\ pc' = [pc EXCEPT !["server"] = "create"]
      /\ UNCHANGED <<system, task, var, listening>>
  BY DEF Accept, At, Goto, ThreadsOK, Common
<1>2. backlog \in Seq(1 .. MaxConns)
  BY DEF ThreadsOK, Common, Waitlist
<1>3. /\ 1 \in DOMAIN backlog /\ h = backlog[1] /\ h \in 1 .. MaxConns
      /\ backlog' \in Seq(1 .. MaxConns)
      /\ \A k \in DOMAIN backlog' : /\ k \in Nat /\ k + 1 \in DOMAIN backlog /\ k + 1 # 1
                                    /\ backlog'[k] = backlog[k + 1]
                                    /\ backlog'[k] \in 1 .. MaxConns
  <2>1. \A S : \A s \in Seq(S) : s # <<>> =>
          /\ 1 \in DOMAIN s /\ Head(s) = s[1] /\ Head(s) \in S /\ Tail(s) \in Seq(S)
          /\ \A k \in DOMAIN Tail(s) : /\ k \in Nat /\ k + 1 \in DOMAIN s /\ k + 1 # 1
                                       /\ Tail(s)[k] = s[k + 1]
    OBVIOUS
  <2>2. \A S : \A s \in Seq(S) : \A k \in DOMAIN s : s[k] \in S
    OBVIOUS
  <2> QED BY ONLY <1>1, <1>2, <2>1, <2>2
<1>4. conn[h].by["s"] = {"kernel"}
  BY <1>3 DEF ThreadsOK, Common, Waitlist
<1>5. \A i \in 1 .. MaxConns :
        /\ conn'[i].in = conn[i].in /\ conn'[i].rst = conn[i].rst
        /\ conn'[i].by["c"] = conn[i].by["c"]
        /\ i # h => conn'[i] = conn[i]
  BY <1>1 DEF IInv, ConnOK, Shape, Ends
<1>6. conn'[h].by["s"] = {"server"}
  BY <1>1, <1>3 DEF IInv, ConnOK, Shape, Ends
<1>7. /\ pc'["server"] = "create" /\ fd'["server"].conn = h /\ fd'["server"].end = "s"
      /\ \A q \in Clients \cup Workers : pc'[q] = pc[q] /\ fd'[q] = fd[q]
  BY <1>1, Separate DEF IInv, Domains
<1>8. \A i : Answering(i)' <=> Answering(i)
  BY <1>7 DEF Answering
<1>9. Waitlist'
  <2>1. \A k \in DOMAIN backlog' : backlog'[k] # h /\ conn[backlog'[k]].by["s"] = {"kernel"}
    <3> TAKE k \in DOMAIN backlog'
    <3>1. 1 \in DOMAIN backlog /\ k + 1 \in DOMAIN backlog /\ k + 1 # 1
          /\ backlog'[k] = backlog[k + 1]
      BY <1>3
    <3>2. backlog[k + 1] # backlog[1] /\ conn[backlog[k + 1]].by["s"] = {"kernel"}
      BY <3>1 DEF ThreadsOK, Common, Waitlist
    <3> QED BY <1>3, <3>1, <3>2
  <2>2. \A j, k \in DOMAIN backlog' : j # k => backlog'[j] # backlog'[k]
    <3> SUFFICES ASSUME NEW j \in DOMAIN backlog', NEW k \in DOMAIN backlog', j # k
                 PROVE  backlog'[j] # backlog'[k]
      OBVIOUS
    <3>1. j \in Nat /\ k \in Nat /\ j + 1 \in DOMAIN backlog /\ k + 1 \in DOMAIN backlog
      BY <1>3
    <3>2. j + 1 # k + 1
      BY <3>1
    <3>3. backlog[j + 1] # backlog[k + 1]
      BY <3>1, <3>2 DEF ThreadsOK, Common, Waitlist
    <3> QED BY <1>3, <3>3
  <2>3. \A k \in DOMAIN backlog' : conn'[backlog'[k]].by["s"] = {"kernel"}
    BY <1>3, <1>5, <2>1
  <2> QED BY <1>3, <2>2, <2>3 DEF Waitlist
<1>10. Common' /\ Tasks'
  <2>1. Streams' /\ Own'
    BY <1>1, <1>5, <1>7 DEF ThreadsOK, Common, Streams, Own
  <2> QED BY <1>1, <1>9, <2>1 DEF ThreadsOK, Common, Tasks
<1>11. Accepted'
  BY <1>3, <1>6, <1>7 DEF Accepted, Took
<1>12. Lockstep'
  <2> SUFFICES ASSUME NEW i \in 1 .. MaxConns PROVE Link(conn'[i], Answering(i))
    BY <1>8 DEF Lockstep, Link, Fresh
  <2>1. Link(conn[i], Answering(i))
    BY DEF ThreadsOK, Lockstep
  <2>2. conn[i].by["s"] \in Keepers => conn'[i].by["s"] \in Keepers
    BY <1>5, <1>6 DEF Keepers
  <2> QED BY <1>5, <2>1, <2>2 DEF Link, Fresh
<1>13. ASSUME NEW w \in Workers PROVE ThreadTalks(w)'
  <2>1. ThreadTalks(w) /\ pc'[w] = pc[w] /\ fd'[w] = fd[w]
    BY <1>7 DEF ThreadsOK
  <2>2. \A v \in Workers : Active(v)' <=> Active(v)
    BY <1>7 DEF Active
  <2>3. Active(w) => fd[w].conn # h /\ Took(w) /\ Took(w)'
    <3> SUFFICES ASSUME Active(w) PROVE fd[w].conn # h /\ Took(w) /\ Took(w)'
      OBVIOUS
    <3>1. Took(w)
      BY <2>1 DEF ThreadTalks
    <3>2. "kernel" # "server"
      BY ServerAssumption
    <3>3. fd[w].conn # h
      BY <1>4, <3>1, <3>2 DEF Took
    <3> QED BY <1>5, <2>1, <3>1, <3>3 DEF Took
  <2>4. pc[w] = "close" => conn'[fd[w].conn].by["c"] = {}
    <3> SUFFICES ASSUME pc[w] = "close" PROVE conn'[fd[w].conn].by["c"] = {}
      OBVIOUS
    <3>1. Took(w) /\ conn[fd[w].conn].by["c"] = {}
      BY <2>1, <2>3 DEF ThreadTalks, Active
    <3> QED BY <1>5, <3>1 DEF Took
  <2>5. Active(w)' => /\ task'[w] = "server" /\ Took(w)'
                      /\ \A v \in Workers \ {w} : Active(v)' => fd'[v].conn # fd'[w].conn
                      /\ pc'["server"] = "create" => fd'["server"].conn # fd'[w].conn
    BY <1>1, <1>7, <2>1, <2>2, <2>3 DEF ThreadTalks
  <2> QED BY <1>1, <2>1, <2>4, <2>5 DEF ThreadTalks
<1>14. \A c \in Clients : ClientTalks(c)'
  <2>1. ASSUME NEW c \in Clients, pc[c] \in {"menu", "send", "show"} PROVE Quiet(fd[c].conn)'
    <3>1. Quiet(fd[c].conn) /\ fd[c].conn \in 1 .. MaxConns
      BY <2>1 DEF ThreadsOK, ClientTalks
    <3>2. fd'[c] = fd[c]
      BY <1>7
    <3> QED BY <1>5, <1>8, <3>1, <3>2 DEF Quiet, Answering
  <2> QED BY <1>1, <1>5, <1>7, <2>1, ClientsStand
<1> QED BY <1>10, <1>11, <1>12, <1>13, <1>14 DEF ThreadsOK

LEMMA ThreadsCreate ==
    ASSUME IInv, ThreadsOK, Thread("server", "create", Workers, "read", "accept")
    PROVE  ThreadsOK'
<1>1. PICK w \in Workers :
        /\ pc[w] = "none"
        /\ pc' = [pc EXCEPT !["server"] = "accept", ![w] = "read"]
        /\ task' = [task EXCEPT ![w] = task["server"]]
        /\ fd' = [fd EXCEPT ![w] = fd["server"]]
  BY DEF Thread
<1>2. pc["server"] = "create" /\ UNCHANGED <<system, var, conn, backlog, listening>>
  BY DEF Thread, At, net
<1>3. /\ Took("server") /\ task["server"] = "server"
      /\ \A v \in Workers : Active(v) => fd[v].conn # fd["server"].conn
  BY <1>2 DEF ThreadsOK, Accepted, Common, ThreadTalks
<1>4. /\ pc'["server"] = "accept" /\ pc'[w] = "read"
      /\ \A q \in (Clients \cup Workers) \ {w} : pc'[q] = pc[q]
  BY <1>1, Separate DEF IInv, Domains
<1>5. /\ fd'[w] = fd["server"] /\ task'[w] = "server"
      /\ \A q \in Procs \ {w} : fd'[q] = fd[q] /\ task'[q] = task[q]
  BY <1>1, <1>3, Separate DEF IInv, Domains
<1>6. \A i : Answering(i)' <=> Answering(i)
  <2>1. \A v \in Workers : pc[v] = "send" <=> pc'[v] = "send"
    BY <1>1, <1>4
  <2>2. \A v \in Workers : pc[v] = "send" => fd'[v] = fd[v]
    BY <1>1, <1>5, Separate
  <2> QED BY <2>1, <2>2 DEF Answering
<1>7. Common' /\ Tasks'
  <2>1. task'["server"] = "server" /\ Own'
    BY <1>3, <1>5, Separate DEF ThreadsOK, Common, Own
  <2>2. Tasks'
    BY <1>5 DEF ThreadsOK, Tasks
  <2> QED BY <1>2, <2>1, <2>2 DEF ThreadsOK, Common, Streams, Waitlist
<1>8. Accepted'
  BY <1>4 DEF Accepted
<1>9. Lockstep'
  BY <1>2, <1>6 DEF ThreadsOK, Lockstep, Link, Fresh
<1>10. \A v \in Workers : Active(v)' <=> Active(v) \/ v = w
  BY <1>1, <1>4 DEF Active
<1>11. ThreadTalks(w)'
  <2>1. Took(w)'
    BY <1>2, <1>3, <1>5 DEF Took
  <2>2. \A v \in Workers \ {w} : Active(v)' => fd'[v].conn # fd'[w].conn
    BY <1>3, <1>5, <1>10, Separate
  <2>3. var'[w] # Long
    BY <1>2 DEF ThreadsOK, ThreadTalks
  <2> QED BY <1>4, <1>5, <2>1, <2>2, <2>3 DEF ThreadTalks
<1>12. ASSUME NEW v \in Workers \ {w} PROVE ThreadTalks(v)'
  <2>1. ThreadTalks(v) /\ v \in Procs
    BY Separate DEF ThreadsOK
  <2>2. pc'[v] = pc[v] /\ fd'[v] = fd[v] /\ task'[v] = task[v]
    BY <1>4, <1>5, <2>1
  <2>3. Took(v) => Took(v)'
    BY <1>2, <2>2 DEF Took
  <2>4. Active(v)' => \A u \in Workers \ {v} : Active(u)' => fd'[u].conn # fd'[v].conn
    <3> SUFFICES ASSUME Active(v)', NEW u \in Workers \ {v}, Active(u)'
                 PROVE  fd'[u].conn # fd'[v].conn
      OBVIOUS
    <3>1. Active(v)
      BY <1>10
    <3>2. CASE u = w
      BY <1>3, <1>5, <2>2, <3>1, <3>2
    <3>3. CASE u # w
      <4>1. Active(u) /\ fd'[u] = fd[u]
        BY <1>5, <1>10, <3>3, Separate
      <4> QED BY <2>1, <2>2, <3>1, <4>1 DEF ThreadTalks
    <3> QED BY <3>2, <3>3
  <2> QED BY <1>2, <1>4, <1>10, <2>1, <2>2, <2>3, <2>4 DEF ThreadTalks
<1>13. \A c \in Clients : ClientTalks(c)'
  <2> SUFFICES ASSUME NEW c \in Clients PROVE ClientTalks(c)'
    OBVIOUS
  <2>1. pc'[c] = pc[c] /\ fd'[c] = fd[c] /\ var' = var /\ conn' = conn
    BY <1>2, <1>4, <1>5, Separate
  <2>2. ClientTalks(c)
    BY DEF ThreadsOK
  <2> QED BY <1>6, <2>1, <2>2 DEF ClientTalks, Quiet
<1> QED BY <1>7, <1>8, <1>9, <1>11, <1>12, <1>13 DEF ThreadsOK

(* Whoever typed the long line has typed it for ever.                      *)
LEMMA ThreadsSay ==
    ASSUME IInv, system.name = "threads", ThreadsSaid, Buffers, [Next]_vars
    PROVE  ThreadsSaid' /\ Buffers' /\ (Typed(Long) => Typed(Long)')
<1> DEFINE Stay == UNCHANGED said /\ Buffers'
<1>1. CASE Server("server")
  <2>1. ThreadServer("server", Workers)
    BY <1>1 DEF Server, Datagrams, Names, Lectures, Children, Daemons
  <2>2. ASSUME Accept("server", "accept", "create") \/ Thread("server", "create", Workers, "read", "accept")
        PROVE  Stay
    BY <2>2 DEF Accept, Thread, screen, Buffers
  <2>3. ASSUME NEW w \in Workers, Recv(w, "read", 1, Appended(buf'[w]), "close") PROVE Stay
    BY <2>3 DEF Recv, Receive, Read, Buffers
  <2>4. ASSUME NEW w \in Workers,
               \/ Assign(w, "append", Long, "overrun") \/ Close(w, "close", "return")
               \/ \E at, next : Jump(w, at, next)
        PROVE  Stay
    BY <2>4 DEF Assign, Close, Jump, locals, screen, Buffers
  <2>5. ASSUME NEW w \in Workers, NEW m, NEW at,
               Send(w, at, m, "read") \/ Exit(w, at)
        PROVE  Stay
    BY <2>5 DEF Send, SendOr, Exit, Kill, Forgotten, locals, screen, Buffers
  <2>6. Stay
    <3>1. CASE \E w \in Workers : Send(w, "send", <<AnswerOf(buf[w][1])>>, "read")
      BY <3>1, <2>5
    <3> QED BY <2>1, <2>2, <2>3, <2>4, <2>5, <3>1 DEF ThreadServer, Overrun, Return
  <2> QED BY <2>6, SaidStays DEF ThreadsSaid
<1>2. ASSUME NEW c \in Clients, Client(c)
      PROVE  ThreadsSaid' /\ Buffers' /\ (Typed(Long) => Typed(Long)')
  <2>1. ThreadClient(c)
    BY <1>2 DEF Client, Datagrams, Names, Lectures, Children, Daemons
  <2>2. CASE Type(c, "menu", Inputs(c, {Long, quit}, <<"hi">>), "send")
    <3>1. PICK m \in Inputs(c, {Long, quit}, <<"hi">>) : said' = [said EXCEPT ![c] = Append(@, m)]
      BY <2>2 DEF Type
    <3>2. m \in {Long, quit, <<"hi">>} /\ Buffers'
      BY <2>2, <3>1 DEF Type, Inputs, Buffers
    <3> QED BY <3>1, <3>2, SaidLonger DEF ThreadsSaid
  <2>3. CASE Connect(c, "connect", "menu", "done") \/ \E at, what : Show(c, at, what, "menu")
    <3>1. Stay
      BY <2>3 DEF Connect, Show, locals, screen, Buffers
    <3> QED BY <3>1, SaidStays DEF ThreadsSaid
  <2>4. CASE Send(c, "send", var[c], "reply") \/ Exit(c, "close")
    <3>1. Stay
      BY <2>4 DEF Send, SendOr, Exit, Kill, Forgotten, locals, screen, Buffers
    <3> QED BY <3>1, SaidStays DEF ThreadsSaid
  <2>5. CASE Receive(c, "reply", 1, FALSE, "show", "blank", "close")
    <3>1. Stay
      BY <2>5 DEF Receive, Read, Buffers
    <3> QED BY <3>1, SaidStays DEF ThreadsSaid
  <2> QED BY <2>1, <2>2, <2>3, <2>4, <2>5 DEF ThreadClient
<1>3. CASE Leave
  <2>1. Stay
    BY <1>3 DEF Leave, Quit, Kill, Forgotten, screen, Buffers
  <2> QED BY <2>1, SaidStays DEF ThreadsSaid
<1>4. CASE UNCHANGED vars
  <2>1. Stay
    BY <1>4 DEF vars, locals, screen, Buffers
  <2> QED BY <2>1, SaidStays DEF ThreadsSaid
<1> QED BY <1>1, <1>2, <1>3, <1>4 DEF Next, Programs

LEMMA ThreadsGo ==
    ASSUME IInv, system.name = "threads", ThreadsSaid, Buffers, ThreadsOK, [Next]_vars
    PROVE  ThreadsOK' \/ (Typed(Long)' /\ ~Gone')
<1>2. CASE Server("server")
  <2>1. ThreadServer("server", Workers)
    BY <1>2 DEF Server, Datagrams, Names, Lectures, Children, Daemons
  <2>2. ASSUME NEW w \in Workers, Send(w, "send", <<AnswerOf(buf[w][1])>>, "read")
        PROVE  ThreadsOK'
    <3>1. PICK a : Send(w, "send", <<a>>, "read")
      BY <2>2
    <3> QED BY <3>1, ThreadSends
  <2>3. ASSUME NEW w \in Workers
        PROVE  /\ ~Assign(w, "append", Long, "overrun") /\ ~Overrun(w, "overrun", "send")
               /\ ~(var[w] = Long /\ Exit(w, "return"))
    <3>1. pc[w] \notin {"append", "overrun"} /\ var[w] # Long
      BY DEF ThreadsOK, ThreadTalks
    <3> QED BY <3>1 DEF Assign, Overrun, Jump, Exit, At
  <2> QED BY <2>1, <2>2, <2>3, ThreadsAccept, ThreadsCreate, ThreadReceives, ThreadCloses,
             ThreadReturns
          DEF ThreadServer
<1>3. ASSUME NEW c \in Clients, Client(c) PROVE ThreadsOK' \/ (Typed(Long)' /\ ~Gone')
  <2>1. ThreadClient(c)
    BY <1>3 DEF Client, Datagrams, Names, Lectures, Children, Daemons
  <2> QED BY <2>1, ThreadClientOK
<1>4. CASE Leave
  BY <1>4, ThreadLeave
<1>5. CASE UNCHANGED vars
  <2>1. UNCHANGED <<pc, task, fd, var, conn, backlog, listening>>
    BY <1>5 DEF vars, locals, net
  <2>2. Common' /\ Tasks' /\ Accepted'
    BY <2>1 DEF ThreadsOK, Common, Streams, Own, Waitlist, Tasks, Accepted, Took
  <2>3. \A i : Answering(i)' <=> Answering(i)
    BY <2>1 DEF Answering
  <2>4. Lockstep'
    BY <2>1, <2>3 DEF ThreadsOK, Lockstep, Link, Fresh
  <2>5. \A w \in Workers : ThreadTalks(w)'
    BY <2>1 DEF ThreadsOK, ThreadTalks, Active, Took
  <2>6. \A c \in Clients : ClientTalks(c)'
    BY <2>1, <2>3 DEF ThreadsOK, ClientTalks, Quiet
  <2> QED BY <2>2, <2>4, <2>5, <2>6 DEF ThreadsOK
<1> QED BY <1>2, <1>3, <1>4, <1>5 DEF Next, Programs

LEMMA ThreadsStep ==
    ASSUME IInv, ThreadsInv, UNCHANGED system, [Next]_vars
    PROVE  ThreadsInv'
  BY ThreadsSay, ThreadsGo DEF ThreadsInv

-----------------------------------------------------------------------------
LivesInv ==
    /\ SteadyInv
    /\ PalindromesInv
    /\ DaemonInv
    /\ ThreadsInv

LEMMA LivesInit == Init => LivesInv
<1> SUFFICES ASSUME Init PROVE LivesInv
  OBVIOUS
<1>1. /\ task = [p \in Procs |-> p] /\ fd = [p \in Procs |-> NoFd]
      /\ peer = [p \in Procs |-> p] /\ buf = [p \in Procs |-> <<>>]
      /\ var = [p \in Procs |-> <<>>] /\ mail = [p \in Procs |-> <<>>]
      /\ said = [p \in Procs |-> <<>>]
      /\ conn = [i \in 1 .. MaxConns |-> NoConn]
      /\ backlog = <<>> /\ listening = {"server"}
      /\ \E present : disk = [log |-> <<>>, database |-> present]
  BY DEF Init, SocketsInit
<1>2. /\ pc["server"] = ServerStart
      /\ \A c \in Clients : pc[c] = ClientStart
      /\ \A w \in Workers : pc[w] = IF system.name \in Names THEN "recv" ELSE "none"
  <2>1. pc = [p \in Procs |->
                CASE p = "server" -> ServerStart
                  [] p \in Clients -> ClientStart
                  [] p \in Workers -> IF system.name \in Names THEN "recv" ELSE "none"
                  [] p = "query" -> "none"]
    BY DEF Init, SocketsInit
  <2>2. "query" \notin Workers
    BY WorkersAssumption
  <2>3. pc["server"] = ServerStart
    BY <2>1, Separate
  <2>4. ASSUME NEW c \in Clients PROVE pc[c] = ClientStart
    <3>1. c # "server" /\ c \in Procs /\ c \notin Workers
      BY Separate
    <3>2. c # "query"
      BY ServerAssumption
    <3> QED BY <2>1, <3>1, <3>2
  <2>5. ASSUME NEW w \in Workers PROVE pc[w] = IF system.name \in Names THEN "recv" ELSE "none"
    <3>1. w # "server" /\ w \in Procs /\ w \notin Clients /\ w # "query"
      BY <2>2, Separate
    <3> QED BY <2>1, <3>1
  <2> QED BY <2>3, <2>4, <2>5
<1>3. system.name \in Datagrams \cup Names \cup Lectures \cup Children \cup Daemons
  BY DEF Init
<1>4. pc["server"] \in {"recv", "start", "type", "select", "accept"}
  BY <1>2, <1>3 DEF ServerStart, Names
<1>5. SteadyInv
  BY <1>4 DEF SteadyInv, Gone
<1>6. PalindromesInv
  <2> SUFFICES ASSUME system.name = "palindromes" PROVE PalindromesSaid /\ PalindromesOK
    BY DEF PalindromesInv
  <2>1. pc["server"] = "recv"
    BY <1>2 DEF ServerStart, Daemons, Datagrams, Names, Lectures, Children
  <2>2. \A c \in Clients : pc[c] = "menu"
    BY <1>2 DEF ClientStart, Daemons, Datagrams, Names, Lectures, Children
  <2>3. \A S : <<>> \in Seq(S)
    BY EmptyLength
  <2>4. PalindromesSaid
    BY <1>1, <2>3, Separate DEF PalindromesSaid, SaidFrom
  <2> QED BY <1>1, <2>1, <2>2, <2>3, <2>4, Separate DEF PalindromesOK
<1>7. Common
  <2>1. Streams /\ Own
    BY <1>1, Separate DEF Streams, Own, NoConn, NoFd, Ends
  <2>2. Waitlist
    <3>1. <<>> \in Seq(1 .. MaxConns) /\ DOMAIN <<>> = {}
      BY EmptyLength
    <3> QED BY <1>1, <3>1 DEF Waitlist
  <2> QED BY <1>1, <2>1, <2>2, Separate DEF Common
<1>8. DaemonInv
  <2> SUFFICES ASSUME system.name \in Daemons PROVE DaemonOK /\ Stdio /\ Marked
    BY DEF DaemonInv
  <2>1. pc["server"] \in {"start", "accept"}
    BY <1>2 DEF ServerStart, Daemons, Datagrams, Names, Lectures, Children
  <2>2. WaitingFresh
    <3>1. DOMAIN <<>> = {}
      OBVIOUS
    <3> QED BY <1>1, <3>1 DEF WaitingFresh
  <2>3. Stdio
    <3>1. Len(<<>>) = 0 /\ \A S : <<>> \in Seq(S)
      BY EmptyLength
    <3>2. var["server"] = <<>> /\ disk.log = <<>> /\ DOMAIN disk = {"log", "database"}
      BY <1>1, Separate
    <3>3. 0 <= 0 + (IF pc["server"] = "log" THEN 1 ELSE 0)
      BY <2>1
    <3>4. pc["server"] \notin {"flush", "flushed"}
      BY <2>1
    <3> QED BY <3>1, <3>2, <3>3, <3>4 DEF Stdio
  <2> QED BY <1>7, <2>1, <2>2, <2>3 DEF DaemonOK, DaemonAt, Marked
<1>9. ThreadsInv
  <2> SUFFICES ASSUME system.name = "threads" PROVE ThreadsSaid /\ Buffers /\ ThreadsOK
    BY DEF ThreadsInv
  <2>1. pc["server"] = "accept"
    BY <1>2 DEF ServerStart, Daemons, Datagrams, Names, Lectures, Children
  <2>2. \A w \in Workers : pc[w] = "none"
    BY <1>2 DEF Names
  <2>3. \A c \in Clients : pc[c] = "connect"
    BY <1>2 DEF ClientStart, Daemons, Datagrams, Names, Lectures, Children
  <2>4. Tasks
    BY <1>1 DEF Tasks
  <2>5. Accepted
    BY <2>1 DEF Accepted
  <2>6. Lockstep
    BY <1>1, <2>2 DEF Lockstep, Link, Asked, One, NoConn, Ends, Answering
  <2>7. \A w \in Workers : ThreadTalks(w)
    <3>1. <<>> # Long
      BY DEF Long
    <3>2. \A w \in Workers : var[w] = <<>>
      BY <1>1, Separate
    <3> QED BY <2>2, <3>1, <3>2 DEF ThreadTalks, Active
  <2>8. \A c \in Clients : ClientTalks(c)
    BY <2>3 DEF ClientTalks
  <2>9. \A S : <<>> \in Seq(S)
    BY EmptyLength
  <2>10. ThreadsSaid /\ Buffers
    BY <1>1, <2>9, Separate DEF ThreadsSaid, SaidFrom, Buffers
  <2> QED BY <1>7, <2>4, <2>5, <2>6, <2>7, <2>8, <2>10 DEF ThreadsOK
<1> QED BY <1>5, <1>6, <1>8, <1>9 DEF LivesInv

LEMMA LivesStep == ASSUME IInv, LivesInv, [Next]_vars PROVE LivesInv'
<1>1. IInv' /\ UNCHANGED system
  BY NextKeeps
<1>2. SteadyInv'
  BY <1>1, SteadyStep DEF LivesInv, SteadyInv
<1>3. PalindromesInv'
  BY <1>1, PalindromesStep DEF LivesInv
<1>4. DaemonInv'
  BY <1>1, DaemonStep DEF LivesInv
<1>5. ThreadsInv'
  BY <1>1, ThreadsStep DEF LivesInv
<1> QED BY <1>2, <1>3, <1>4, <1>5 DEF LivesInv

LEMMA LivesOutlive ==
    ASSUME IInv, LivesInv, [Next]_vars, ~Gone, Gone',
           system.name \in Datagrams \cup Names \cup Lectures \cup Children \cup Daemons
    PROVE  EndsFor
<1>1. UNCHANGED system
  BY NextKeeps
<1>2. system.name \notin Steady
  BY SteadyStep
<1>3. CASE system.name = "palindromes"
  <2>1. CASE Typed(Halt)
    BY <1>3, <2>1 DEF EndsFor
  <2>2. CASE PalindromesSaid /\ PalindromesOK
    <3>1. PalindromesOK'
      BY <1>3, <2>2, PalindromesGo
    <3> QED BY <3>1 DEF PalindromesOK, Gone
  <2> QED BY <1>3, <2>1, <2>2 DEF LivesInv, PalindromesInv
<1>4. CASE system.name \in Daemons
  <2>1. DaemonOK /\ Stdio /\ Marked
    BY <1>4 DEF LivesInv, DaemonInv
  <2>2. ~DaemonOK'
    BY DEF DaemonOK, DaemonAt, Gone
  <2> QED BY <1>1, <1>4, <2>1, <2>2, DaemonGo
<1>5. CASE system.name = "threads"
  <2>1. CASE Typed(Long)
    BY <1>5, <2>1 DEF EndsFor
  <2>2. CASE ThreadsSaid /\ Buffers /\ ThreadsOK
    <3>1. ThreadsOK'
      BY <1>5, <2>2, ThreadsGo
    <3> QED BY <3>1 DEF ThreadsOK, Accepted, Gone
  <2> QED BY <1>5, <2>1, <2>2 DEF LivesInv, ThreadsInv
<1> QED BY <1>2, <1>3, <1>4, <1>5 DEF Steady

(* A server ends in the four cases of EndsFor only, however many clients,  *)
(* connections and runs there are, whichever of the inputs of UnitServers, *)
(* DatagramServers and NameServers their users type, and whenever they     *)
(* leave: Halt; a reset while stdio of the syslog daemon is full; marks    *)
(* that overrun the buffer of the printf daemon; a line that overruns the   *)
(* buffer of a thread.  In the other fourteen systems it never ends.  That *)
(* accept and pthread_create succeed is part of the model, and so is that  *)
(* no input is longer than those.                                          *)
THEOREM ServerAlwaysOutlivesClients == Spec => ServerOutlivesClients
<1> DEFINE Known == system.name \in Datagrams \cup Names \cup Lectures \cup Children \cup Daemons
<1>1. Init => IInv /\ LivesInv /\ Known
  BY InitInv, LivesInit DEF Init
<1>2. IInv /\ LivesInv /\ Known /\ [Next]_vars => IInv' /\ LivesInv' /\ Known'
  BY NextKeeps, LivesStep
<1>3. IInv /\ LivesInv /\ Known /\ [Next]_vars => [~Gone /\ Gone' => EndsFor]_vars
  BY LivesOutlive
<1> QED BY <1>1, <1>2, <1>3, PTL DEF Spec, ServerOutlivesClients
=============================================================================
