--------------------------- MODULE ConversationsProofs ---------------------------
(***************************************************************************)
(* Proofs about the conversations.  In the chat of Lab03/quo1 no exit ever *)
(* ends a reading process, whatever the users type and in whatever order   *)
(* the four processes run.  The programs that take turns stay in turn:     *)
(* their proof has the events of a turn first, then what calls do to the   *)
(* connection or to the mail, then each program's steps from the two.      *)
(***************************************************************************)
EXTENDS MCConversations, TLAPS

EndOf(x) == IF x = "server" THEN "s" ELSE "c"

(* A process of the chat that has the connection in hand.                  *)
Talking(p) == pc[p] \in {"fork", "type", "write", "close", "read"}

Shape(k) == DOMAIN k = {"in", "by", "rst"} /\ DOMAIN k.by = Ends
Lines == {hi, exit, <<"^C">>}

SaidTypes == DOMAIN said = Procs /\ \A x \in Sides : said[x] \in Seq(Lines)

ChatTypes ==
    /\ DOMAIN pc = Procs /\ DOMAIN fd = Procs /\ task = [p \in Procs |-> p]
    /\ DOMAIN conn = 1 .. MaxConns /\ \A i \in 1 .. MaxConns : Shape(conn[i])

(* A process that talks has a reader, which reads.                         *)
ChatPlaces ==
    /\ pc["server"] \in {"accept", "fork", "type", "write", "close", "done"}
    /\ pc["client"] \in {"connect", "fork", "type", "write", "close", "done"}
    /\ \A x \in Sides :
         /\ pc[ReaderOf(x)] \in {"none", "read"}
         /\ pc[ReaderOf(x)] = "read" <=> pc[x] \in {"type", "write", "close", "done"}

(* The server, or the child that has a copy of its descriptor, listens.    *)
ChatListens ==
    /\ pc["server"] # "done" => "server" \in listening
    /\ pc["server_reader"] = "read" => "server_reader" \in listening

Link == fd["client"].conn

(* Both ends of the one connection are held, and it is never reset.         *)
ChatLinked ==
    /\ pc["client"] = "connect" => backlog = <<>> /\ pc["server"] = "accept"
    /\ pc["client"] # "connect" =>
         /\ Link \in 1 .. MaxConns
         /\ conn[Link].rst = {}
         /\ \A x \in Sides : \A p \in {x, ReaderOf(x)} :
              Talking(p) => /\ fd[p].conn = Link /\ fd[p].end = EndOf(x)
                            /\ p \in conn[Link].by[EndOf(x)]
         /\ pc["server"] = "accept" => backlog = <<Link>> /\ "kernel" \in conn[Link].by["s"]

ChatOK == ChatPlaces /\ ChatListens /\ ChatLinked
ChatInv == system = "chat" => SaidTypes /\ (~Interrupted => ChatTypes /\ ChatOK)

-----------------------------------------------------------------------------
(* What calls do to a connection.                                          *)

LEMMA FourProcs ==
    /\ \A x \in Sides : x \in Procs /\ ReaderOf(x) \in Procs /\ x # ReaderOf(x)
                        /\ EndOf(x) \in Ends
    /\ \A x, y \in Sides : x # ReaderOf(y) /\ (x # y => ReaderOf(x) # ReaderOf(y)
                                                        /\ EndOf(x) = Other(EndOf(y)))
    /\ Sides = {"server", "client"}
  BY ChatAssumption DEF Sides, ReaderOf, EndOf, Ends, Other

InChanged(i, e, v) == [conn EXCEPT ![i].in[e] = v]

LEMMA InShape ==
    ASSUME ChatTypes, NEW i, NEW e, NEW v, conn' = InChanged(i, e, v)
    PROVE  /\ DOMAIN conn' = 1 .. MaxConns
           /\ \A j \in 1 .. MaxConns :
                Shape(conn'[j]) /\ conn'[j].by = conn[j].by /\ conn'[j].rst = conn[j].rst
<1>1. ASSUME NEW k, Shape(k), NEW v2
      PROVE  LET m == [k EXCEPT !.in = v2] IN Shape(m) /\ m.by = k.by /\ m.rst = k.rst
  BY <1>1 DEF Shape
<1> QED BY <1>1 DEF ChatTypes, InChanged

LEMMA DropShape ==
    ASSUME NEW k, Shape(k), NEW e \in Ends, NEW T
    PROVE  /\ Shape(Drop(k, e, T))
           /\ Drop(k, e, T).by[e] = k.by[e] \ T
           /\ \A d \in Ends \ {e} : Drop(k, e, T).by[d] = k.by[d]
           /\ ~(k.by[e] \subseteq T) => Drop(k, e, T).rst = k.rst
  BY DEF Shape, Drop

(* Tasks T give up both ends; "kernel" is no end of a connection that has   *)
(* been accepted.                                                          *)
LEMMA ClosedEffect ==
    ASSUME ChatTypes, NEW T, Closed(T)
    PROVE  /\ DOMAIN conn' = 1 .. MaxConns
           /\ \A j \in 1 .. MaxConns :
                /\ Shape(conn'[j])
                /\ conn'[j].by["c"] = conn[j].by["c"] \ T
                /\ ~(listening \subseteq T) => conn'[j].by["s"] = conn[j].by["s"] \ T
                /\ (/\ ~(listening \subseteq T)
                    /\ ~(conn[j].by["c"] \subseteq T)
                    /\ ~(conn[j].by["s"] \subseteq T)) => conn'[j].rst = conn[j].rst
<1> DEFINE refused == IF listening \subseteq T THEN T \cup {"kernel"} ELSE T
           first(j) == Drop(conn[j], "c", T)
<1>1. conn' = [j \in 1 .. MaxConns |-> Drop(first(j), "s", refused)]
  BY DEF Closed, ChatTypes
<1>2. ASSUME NEW j \in 1 .. MaxConns
      PROVE  /\ Shape(conn'[j])
             /\ conn'[j].by["c"] = conn[j].by["c"] \ T
             /\ conn'[j].by["s"] = conn[j].by["s"] \ refused
             /\ ~(conn[j].by["c"] \subseteq T) /\ ~(conn[j].by["s"] \subseteq refused)
                  => conn'[j].rst = conn[j].rst
  <2>1. /\ Shape(first(j)) /\ first(j).by["s"] = conn[j].by["s"]
        /\ first(j).by["c"] = conn[j].by["c"] \ T
        /\ ~(conn[j].by["c"] \subseteq T) => first(j).rst = conn[j].rst
    BY DropShape DEF ChatTypes, Ends
  <2>2. conn'[j] = Drop(first(j), "s", refused)
    BY <1>1
  <2> HIDE DEF first, refused
  <2>3. /\ Shape(conn'[j]) /\ conn'[j].by["s"] = first(j).by["s"] \ refused
        /\ conn'[j].by["c"] = first(j).by["c"]
        /\ ~(first(j).by["s"] \subseteq refused) => conn'[j].rst = first(j).rst
    BY <2>1, <2>2, DropShape DEF Ends
  <2> QED BY <2>1, <2>3
<1>3. ~(listening \subseteq T) => refused = T
  OBVIOUS
<1>4. DOMAIN conn' = 1 .. MaxConns
  BY <1>1
<1> HIDE DEF refused
<1> QED BY <1>2, <1>3, <1>4

-----------------------------------------------------------------------------
(* Who talks is connected, and the other side is.                          *)
LEMMA NotCut ==
    ASSUME ChatTypes, ChatOK, NEW x \in Sides, NEW p \in {x, ReaderOf(x)}, Talking(p)
    PROVE  /\ Open(p) /\ ~PeerClosed(p) /\ ~Reset(p)
           /\ pc["client"] # "connect"
           /\ fd[p].conn = Link /\ fd[p].end = EndOf(x)
           /\ \E q \in conn[Link].by[Other(EndOf(x))] : q # x /\ q # ReaderOf(x)
<1>1. pc["client"] # "connect"
  <2>1. CASE x = "client"
    BY <2>1 DEF Talking, ChatOK, ChatPlaces, ReaderOf, Sides
  <2>2. CASE x = "server"
    BY <2>2 DEF Talking, ChatOK, ChatPlaces, ChatLinked, ReaderOf, Sides
  <2> QED BY <2>1, <2>2 DEF Sides
<1>2. /\ Link \in 1 .. MaxConns /\ conn[Link].rst = {}
      /\ fd[p].conn = Link /\ fd[p].end = EndOf(x) /\ p \in conn[Link].by[EndOf(x)]
  BY <1>1 DEF ChatOK, ChatLinked
<1>3. Open(p) /\ ~Reset(p)
  BY <1>2, FourProcs DEF Open, Reset, Mine, ChatTypes
<1>4. \E q \in conn[Link].by[Other(EndOf(x))] : q # x /\ q # ReaderOf(x)
  <2>1. PICK y \in Sides : y # x
    BY FourProcs
  <2>2. Other(EndOf(x)) = EndOf(y)
    BY <2>1, FourProcs
  <2>3. CASE y = "server" /\ pc["server"] = "accept"
    BY <1>1, <2>2, <2>3, FourProcs, ChatAssumption DEF ChatOK, ChatLinked, EndOf
  <2>4. CASE ~(y = "server" /\ pc["server"] = "accept")
    <3>1. Talking(y) \/ Talking(ReaderOf(y))
      BY <1>1, <2>4 DEF Talking, ChatOK, ChatPlaces, Sides
    <3> QED BY <1>1, <2>1, <2>2, <3>1, FourProcs DEF ChatOK, ChatLinked
  <2> QED BY <2>3, <2>4
<1>5. ~PeerClosed(p)
  BY <1>2, <1>4 DEF PeerClosed, Mine
<1> QED BY <1>1, <1>2, <1>3, <1>4, <1>5

-----------------------------------------------------------------------------
(* The steps of the chat.                                                  *)

(* A process goes on where it was, and data comes or goes.                 *)
LEMMA TalkOn ==
    ASSUME ChatTypes, ChatOK, NEW x \in Sides, NEW p \in {x, ReaderOf(x)}, Talking(p),
           NEW next,
           IF p = x THEN pc[x] # "fork" /\ next \in {"type", "write", "close"}
                    ELSE next = "read",
           pc' = [pc EXCEPT ![p] = next],
           UNCHANGED <<task, fd, listening, backlog>>,
           UNCHANGED conn \/ \E i, e, v : conn' = InChanged(i, e, v)
    PROVE  ChatTypes' /\ ChatOK'
<1>1. /\ DOMAIN conn' = 1 .. MaxConns
      /\ \A j \in 1 .. MaxConns :
           Shape(conn'[j]) /\ conn'[j].by = conn[j].by /\ conn'[j].rst = conn[j].rst
  BY InShape DEF ChatTypes
<1>2. ChatTypes'
  BY <1>1 DEF ChatTypes
<1>3. /\ pc'[p] = next /\ \A q \in Procs \ {p} : pc'[q] = pc[q]
      /\ p \in Procs
  BY FourProcs DEF ChatTypes
<1>4. ChatPlaces' /\ ChatListens'
  <2>1. CASE p = x
    <3>1. pc[x] \in {"type", "write", "close"}
      BY <2>1, FourProcs DEF Talking, ChatOK, ChatPlaces
    <3>2. next \in {"type", "write", "close"}
      BY <2>1
    <3>3. pc'[ReaderOf("server")] = pc[ReaderOf("server")]
          /\ pc'[ReaderOf("client")] = pc[ReaderOf("client")]
      BY <1>3, <2>1, FourProcs
    <3>4. CASE x = "server"
      <4>1. pc'["server"] = next /\ pc'["client"] = pc["client"]
        BY <1>3, <2>1, <3>4, FourProcs
      <4> QED BY <3>1, <3>2, <3>3, <3>4, <4>1
              DEF ChatOK, ChatPlaces, ChatListens, ReaderOf, Sides
    <3>5. CASE x = "client"
      <4>1. pc'["client"] = next /\ pc'["server"] = pc["server"]
        BY <1>3, <2>1, <3>5, FourProcs
      <4> QED BY <3>1, <3>2, <3>3, <3>5, <4>1
              DEF ChatOK, ChatPlaces, ChatListens, ReaderOf, Sides
    <3> QED BY <3>4, <3>5 DEF Sides
  <2>2. CASE p # x
    <3>1. p = ReaderOf(x) /\ next = "read" /\ pc[p] = "read"
      BY <2>2 DEF Talking, ChatOK, ChatPlaces
    <3>2. /\ \A y \in Sides : pc'[y] = pc[y] /\ pc'[ReaderOf(y)] = pc[ReaderOf(y)]
          /\ pc'["server"] = pc["server"] /\ pc'["client"] = pc["client"]
          /\ pc'["server_reader"] = pc["server_reader"]
      BY <1>3, <3>1, FourProcs, ChatAssumption DEF Sides
    <3> QED BY <3>2 DEF ChatOK, ChatPlaces, ChatListens
  <2> QED BY <2>1, <2>2
<1>5. ChatLinked'
  <2>1. pc["client"] # "connect" /\ pc'["client"] # "connect"
    BY <1>4, NotCut DEF ChatPlaces, ChatOK
  <2>2. pc'["server"] = "accept" => pc["server"] = "accept"
    BY <1>3, FourProcs DEF Sides
  <2>3. \A y \in Sides : \A q \in {y, ReaderOf(y)} : Talking(q)' => Talking(q)
    BY <1>3, FourProcs DEF Talking
  <2> QED BY <1>1, <2>1, <2>2, <2>3 DEF ChatOK, ChatLinked, Link
<1> QED BY <1>2, <1>4, <1>5 DEF ChatOK

LEMMA AcceptStep ==
    ASSUME ChatTypes, ChatOK, Accept("server", "accept", "fork")
    PROVE  ChatTypes' /\ ChatOK'
<1>1. /\ pc["server"] = "accept" /\ pc' = [pc EXCEPT !["server"] = "fork"]
      /\ backlog # <<>> /\ backlog' = Tail(backlog)
      /\ fd' = [fd EXCEPT !["server"] = [conn |-> Head(backlog), end |-> "s"]]
      /\ conn' = [conn EXCEPT ![Head(backlog)].by["s"] = {task["server"]}]
      /\ UNCHANGED <<task, listening, said>>
  BY DEF Accept, At, Goto, screen
<1>2. pc["client"] # "connect" /\ backlog = <<Link>> /\ Link \in 1 .. MaxConns
      /\ task["server"] = "server"
  BY <1>1, FourProcs DEF ChatOK, ChatLinked, ChatTypes
<1>3. Head(backlog) = Link
  BY <1>2
<1>4. /\ DOMAIN conn' = 1 .. MaxConns
      /\ \A j \in 1 .. MaxConns : Shape(conn'[j])
      /\ conn'[Link].by["s"] = {"server"} /\ conn'[Link].by["c"] = conn[Link].by["c"]
      /\ conn'[Link].rst = conn[Link].rst
  BY <1>1, <1>2, <1>3 DEF ChatTypes, Shape, Ends
<1>5. ChatTypes'
  BY <1>1, <1>4 DEF ChatTypes
<1>6. /\ pc'["server"] = "fork" /\ \A q \in Procs \ {"server"} : pc'[q] = pc[q] /\ fd'[q] = fd[q]
      /\ fd'["server"].conn = Link /\ fd'["server"].end = "s"
  BY <1>1, <1>3, FourProcs DEF ChatTypes
<1>7. ChatPlaces' /\ ChatListens'
  BY <1>1, <1>6, FourProcs DEF ChatOK, ChatPlaces, ChatListens, ReaderOf
<1>8. Link' = Link /\ pc'["client"] # "connect"
  BY <1>2, <1>6, FourProcs DEF Link
<1>9. ASSUME NEW x \in Sides, NEW p \in {x, ReaderOf(x)}, Talking(p)'
      PROVE  /\ fd'[p].conn = Link /\ fd'[p].end = EndOf(x)
             /\ p \in conn'[Link].by[EndOf(x)]
  <2>1. CASE p = "server"
    BY <1>4, <1>6, <1>9, <2>1, FourProcs DEF EndOf
  <2>2. CASE p # "server"
    <3>1. Talking(p) /\ fd'[p] = fd[p] /\ p \in Procs
      BY <1>6, <1>9, <2>2, FourProcs DEF Talking
    <3>2. x = "client"
      BY <1>1, <1>9, <2>2, <3>1 DEF Talking, ChatOK, ChatPlaces, Sides, ReaderOf
    <3> QED BY <1>2, <1>4, <3>1, <3>2 DEF ChatOK, ChatLinked, EndOf
  <2> QED BY <2>1, <2>2
<1>10. conn'[Link].rst = {}
  BY <1>2, <1>4 DEF ChatOK, ChatLinked
<1>11. ChatLinked'
  BY <1>2, <1>6, <1>8, <1>9, <1>10 DEF ChatLinked
<1> QED BY <1>5, <1>7, <1>11 DEF ChatOK

LEMMA ConnectStep ==
    ASSUME ChatTypes, ChatOK, Connect("client", "connect", "fork", "close")
    PROVE  ChatTypes' /\ ChatOK'
<1>1. pc["client"] = "connect" /\ pc["server"] = "accept" /\ backlog = <<>>
  BY DEF Connect, At, ChatOK, ChatLinked
<1>2. listening # {}
  BY <1>1 DEF ChatOK, ChatListens
<1>3. PICK i \in 1 .. MaxConns :
        /\ conn[i] = NoConn
        /\ conn' = [conn EXCEPT ![i].by = [c |-> {task["client"]}, s |-> {"kernel"}]]
        /\ backlog' = Append(backlog, i)
        /\ fd' = [fd EXCEPT !["client"] = [conn |-> i, end |-> "c"]]
        /\ pc' = [pc EXCEPT !["client"] = "fork"]
        /\ UNCHANGED <<task, listening, said>>
  BY <1>2 DEF Connect, Goto, screen
<1>4. task["client"] = "client"
  BY FourProcs DEF ChatTypes
<1>5. /\ DOMAIN conn' = 1 .. MaxConns
      /\ \A j \in 1 .. MaxConns : Shape(conn'[j])
      /\ conn'[i].by["s"] = {"kernel"} /\ conn'[i].by["c"] = {"client"}
      /\ conn'[i].rst = {}
  BY <1>3, <1>4 DEF ChatTypes, Shape, Ends, NoConn
<1>6. ChatTypes'
  BY <1>3, <1>5 DEF ChatTypes
<1>7. /\ pc'["client"] = "fork" /\ \A q \in Procs \ {"client"} : pc'[q] = pc[q]
      /\ fd'["client"].conn = i /\ fd'["client"].end = "c"
      /\ backlog' = <<i>>
  BY <1>1, <1>3, FourProcs DEF ChatTypes
<1>8. ChatPlaces' /\ ChatListens'
  BY <1>1, <1>3, <1>7, FourProcs DEF ChatOK, ChatPlaces, ChatListens, ReaderOf
<1>9. ASSUME NEW x \in Sides, NEW p \in {x, ReaderOf(x)}, Talking(p)'
      PROVE  p = "client" /\ x = "client"
  BY <1>1, <1>7, <1>8, <1>9, FourProcs DEF Talking, ChatPlaces, ReaderOf
<1>10. ChatLinked'
  BY <1>5, <1>7, <1>9 DEF ChatLinked, Link, EndOf
<1> QED BY <1>6, <1>8, <1>10 DEF ChatOK

LEMMA ForkStep ==
    ASSUME ChatTypes, ChatOK, NEW x \in Sides,
           Fork(x, "fork", {ReaderOf(x)}, "read", "type")
    PROVE  ChatTypes' /\ ChatOK'
<1> DEFINE r == ReaderOf(x)
<1>1. (CHOOSE v \in {r} : pc[v] \in {"none", "done"}) = r
  BY DEF Fork
<1>2. /\ pc[x] = "fork" /\ pc' = [pc EXCEPT ![x] = "type", ![r] = "read"]
      /\ fd' = [fd EXCEPT ![r] = fd[x]]
      /\ conn' = [i \in DOMAIN conn |-> [conn[i] EXCEPT !.by =
                    [e \in Ends |-> IF task[x] \in @[e] THEN @[e] \cup {r} ELSE @[e]]]]
      /\ listening' = IF task[x] \in listening THEN listening \cup {r} ELSE listening
      /\ UNCHANGED <<task, backlog>>
  BY <1>1 DEF Fork, At
<1>3. task[x] = x /\ r \in Procs /\ x # r
  BY FourProcs DEF ChatTypes
<1> HIDE DEF r
<1>4. /\ DOMAIN conn' = 1 .. MaxConns
      /\ \A j \in 1 .. MaxConns :
           /\ Shape(conn'[j]) /\ conn'[j].rst = conn[j].rst
           /\ \A e \in Ends : conn[j].by[e] \subseteq conn'[j].by[e]
           /\ \A e \in Ends : x \in conn[j].by[e] => r \in conn'[j].by[e]
  BY <1>2, <1>3 DEF ChatTypes, Shape
<1>5. ChatTypes'
  BY <1>2, <1>4 DEF ChatTypes
<1>6. /\ pc'[x] = "type" /\ pc'[r] = "read" /\ fd'[r] = fd[x] /\ fd'[x] = fd[x]
      /\ \A q \in Procs \ {x, r} : pc'[q] = pc[q] /\ fd'[q] = fd[q]
  BY <1>2, <1>3, FourProcs DEF ChatTypes
<1>7. ChatPlaces'
  <2>1. ASSUME NEW y \in Sides, y # x
        PROVE  pc'[y] = pc[y] /\ pc'[ReaderOf(y)] = pc[ReaderOf(y)]
    BY <1>6, <2>1, FourProcs DEF r
  <2> QED BY <1>2, <1>6, <2>1 DEF ChatOK, ChatPlaces, Sides, r
<1>8. ChatListens'
  <2>1. CASE x = "server"
    <3>1. "server" \in listening' /\ "server_reader" \in listening'
      BY <1>2, <1>3, <2>1 DEF ChatOK, ChatListens, r, ReaderOf
    <3> QED BY <3>1 DEF ChatListens
  <2>2. CASE x = "client"
    <3>1. /\ pc'["server"] = pc["server"] /\ pc'["server_reader"] = pc["server_reader"]
      BY <1>6, <2>2, ChatAssumption DEF r, ReaderOf
    <3> QED BY <1>2, <3>1 DEF ChatOK, ChatListens
  <2> QED BY <2>1, <2>2 DEF Sides
<1>9. /\ pc["client"] # "connect" /\ fd[x].conn = Link /\ fd[x].end = EndOf(x)
      /\ x \in conn[Link].by[EndOf(x)] /\ Link \in 1 .. MaxConns
      /\ conn[Link].rst = {}
  <2>1. Talking(x)
    BY <1>2 DEF Talking
  <2>2. pc["client"] # "connect"
    BY <2>1, NotCut
  <2> QED BY <2>1, <2>2 DEF ChatOK, ChatLinked
<1>10. Link' = Link /\ pc'["client"] # "connect"
  <2>1. fd'["client"] = fd["client"]
    BY <1>6, FourProcs DEF Sides, r
  <2>2. pc'["client"] # "connect"
    BY <1>6, <1>9, FourProcs DEF Sides, r
  <2> QED BY <2>1, <2>2 DEF Link
<1>11. ASSUME NEW y \in Sides, NEW p \in {y, ReaderOf(y)}, Talking(p)'
       PROVE  /\ fd'[p].conn = Link /\ fd'[p].end = EndOf(y)
              /\ p \in conn'[Link].by[EndOf(y)]
  <2>1. CASE p \in {x, r}
    <3>1. y = x
      BY <2>1, FourProcs DEF r
    <3>2. x \in conn'[Link].by[EndOf(x)] /\ r \in conn'[Link].by[EndOf(x)]
      BY <1>4, <1>9, FourProcs
    <3>3. fd'[p] = fd[x]
      BY <1>6, <2>1
    <3> QED BY <1>9, <2>1, <3>1, <3>2, <3>3
  <2>2. CASE p \notin {x, r}
    <3>1. Talking(p) /\ fd'[p] = fd[p]
      BY <1>6, <1>11, <2>2, FourProcs DEF Talking
    <3>2. fd[p].conn = Link /\ fd[p].end = EndOf(y) /\ p \in conn[Link].by[EndOf(y)]
      BY <1>9, <3>1 DEF ChatOK, ChatLinked
    <3>3. conn[Link].by[EndOf(y)] \subseteq conn'[Link].by[EndOf(y)]
      BY <1>4, <1>9, FourProcs
    <3> QED BY <3>1, <3>2, <3>3
  <2> QED BY <2>1, <2>2
<1>12. pc'["server"] = "accept" =>
         backlog' = <<Link>> /\ "kernel" \in conn'[Link].by["s"]
  <2>1. pc'["server"] = "accept" => pc["server"] = "accept"
    BY <1>6, FourProcs DEF Sides, r
  <2> QED BY <1>2, <1>4, <1>9, <2>1 DEF ChatOK, ChatLinked, Ends
<1>13. ChatLinked'
  BY <1>4, <1>9, <1>10, <1>11, <1>12 DEF ChatLinked
<1> QED BY <1>5, <1>7, <1>8, <1>13 DEF ChatOK

LEMMA ExitStep ==
    ASSUME ChatTypes, ChatOK, NEW x \in Sides, Exit(x, "close")
    PROVE  ChatTypes' /\ ChatOK'
<1> DEFINE r == ReaderOf(x)
<1>1. /\ pc[x] = "close" /\ pc' = Ended({x}) /\ Closed({x})
      /\ fd' = [p \in Procs |-> IF task[p] \in {x} /\ fd[p].end = "s" THEN NoFd ELSE fd[p]]
      /\ UNCHANGED task
  BY FourProcs DEF Exit, At, Kill, ChatTypes
<1>2. /\ pc'[x] = "done" /\ \A q \in Procs \ {x} : pc'[q] = pc[q] /\ fd'[q] = fd[q]
      /\ fd[x].end = "c" => fd'[x] = fd[x]
      /\ DOMAIN pc' = Procs /\ DOMAIN fd' = Procs
  BY <1>1, FourProcs DEF Ended, ChatTypes
<1>3. pc[r] = "read" /\ r # x /\ r \in Procs
  BY <1>1, FourProcs DEF ChatOK, ChatPlaces
<1>4. ~(listening \subseteq {x})
  <2>1. CASE x = "server"
    BY <1>3, <2>1 DEF ChatOK, ChatListens, ReaderOf
  <2>2. CASE x = "client"
    <3>1. CASE pc["server"] # "done"
      BY <2>2, <3>1 DEF ChatOK, ChatListens
    <3>2. CASE pc["server"] = "done"
      <4>1. pc["server_reader"] = "read"
        BY <3>2 DEF ChatOK, ChatPlaces, ReaderOf, Sides
      <4> QED BY <2>2, <4>1 DEF ChatOK, ChatListens
    <3> QED BY <3>1, <3>2
  <2> QED BY <2>1, <2>2 DEF Sides
<1>5. /\ DOMAIN conn' = 1 .. MaxConns
      /\ \A j \in 1 .. MaxConns :
           /\ Shape(conn'[j])
           /\ \A e \in Ends : conn'[j].by[e] = conn[j].by[e] \ {x}
           /\ ~(conn[j].by["c"] \subseteq {x}) /\ ~(conn[j].by["s"] \subseteq {x})
                => conn'[j].rst = conn[j].rst
  BY <1>1, <1>4, ClosedEffect DEF Ends
<1>6. ChatTypes'
  BY <1>1, <1>2, <1>5 DEF ChatTypes
<1>7. Talking(x) /\ Talking(r)
  BY <1>1, <1>3 DEF Talking
<1>8. /\ pc["client"] # "connect" /\ fd[x].end = EndOf(x)
      /\ \E q \in conn[Link].by[Other(EndOf(x))] : q # x
  BY <1>7, NotCut
<1>9. Link \in 1 .. MaxConns /\ conn[Link].rst = {} /\ r \in conn[Link].by[EndOf(x)]
  BY <1>7, <1>8 DEF ChatOK, ChatLinked
<1>10. conn'[Link].rst = {}
  BY <1>3, <1>5, <1>8, <1>9 DEF EndOf, Other
<1>11. ChatPlaces' /\ ChatListens'
  <2>1. ASSUME NEW y \in Sides
        PROVE  pc'[ReaderOf(y)] = pc[ReaderOf(y)] /\ (y # x => pc'[y] = pc[y])
    BY <1>2, <2>1, FourProcs
  <2>2. ChatPlaces'
    BY <1>1, <1>2, <2>1 DEF ChatOK, ChatPlaces, Sides
  <2>3. listening' = listening \ {x}
    BY <1>1 DEF Closed
  <2>4. pc'["server"] # "done" => x # "server" /\ pc["server"] # "done"
    BY <1>2, <2>1 DEF Sides
  <2>5. pc'["server_reader"] = pc["server_reader"] /\ x # "server_reader"
    BY <2>1, FourProcs DEF Sides, ReaderOf
  <2> QED BY <2>2, <2>3, <2>4, <2>5 DEF ChatOK, ChatListens
<1>12. Link' = Link /\ pc'["client"] # "connect"
  <2>1. CASE x = "client"
    BY <1>2, <1>8, <2>1 DEF EndOf, Link
  <2>2. CASE x # "client"
    BY <1>2, <1>8, <2>2, FourProcs DEF Link, Sides
  <2> QED BY <2>1, <2>2
<1>13. ASSUME NEW y \in Sides, NEW p \in {y, ReaderOf(y)}, Talking(p)'
       PROVE  /\ fd'[p].conn = Link /\ fd'[p].end = EndOf(y)
              /\ p \in conn'[Link].by[EndOf(y)]
  <2>1. p # x
    BY <1>2, <1>13 DEF Talking
  <2>2. Talking(p) /\ fd'[p] = fd[p]
    BY <1>2, <1>13, <2>1, FourProcs DEF Talking
  <2> QED BY <1>5, <1>8, <1>9, <2>1, <2>2, FourProcs DEF ChatOK, ChatLinked
<1>14. pc'["server"] = "accept" =>
         backlog' = <<Link>> /\ "kernel" \in conn'[Link].by["s"]
  <2>1. pc'["server"] = "accept" => pc["server"] = "accept"
    BY <1>2, FourProcs DEF Sides
  <2>2. backlog' = backlog
    BY <1>1, <1>4 DEF Closed
  <2> QED BY <1>5, <1>8, <1>9, <2>1, <2>2, FourProcs, ChatAssumption
          DEF ChatOK, ChatLinked, Ends
<1>15. ChatLinked'
  BY <1>9, <1>10, <1>12, <1>13, <1>14 DEF ChatLinked
<1> QED BY <1>6, <1>11, <1>15 DEF ChatOK

LEMMA TypeStep ==
    ASSUME ChatTypes, ChatOK, NEW x \in Sides, Type(x, "type", {hi, exit}, "write")
    PROVE  ChatTypes' /\ ChatOK'
<1>1. /\ pc[x] = "type" /\ pc' = [pc EXCEPT ![x] = "write"]
      /\ UNCHANGED <<task, fd, listening, backlog, conn>>
  BY DEF Type, At, Goto, net
<1>2. Talking(x)
  BY <1>1 DEF Talking
<1> QED BY <1>1, <1>2, TalkOn

LEMMA WriteStep ==
    ASSUME ChatTypes, ChatOK, NEW x \in Sides,
           SendUnix(x, "write", var[x], IF var[x] = exit THEN "close" ELSE "type")
    PROVE  ChatTypes' /\ ChatOK'
<1> DEFINE next == IF var[x] = exit THEN "close" ELSE "type"
<1>1. pc[x] = "write" /\ Talking(x)
  BY DEF SendUnix, At, Talking
<1>2. Open(x) /\ ~PeerClosed(x) /\ ~Reset(x)
  BY <1>1, NotCut
<1>3. Send(x, "write", var[x], next)
  BY <1>2 DEF SendUnix
<1>4. next \in {"type", "write", "close"}
  OBVIOUS
<1> HIDE DEF next
<1>5. /\ pc' = [pc EXCEPT ![x] = next] /\ UNCHANGED <<task, fd, listening, backlog>>
      /\ UNCHANGED conn \/ \E i, e, v : conn' = InChanged(i, e, v)
  <2>1. CASE Goto(x, next) /\ UNCHANGED <<locals, net, screen>>
    BY <2>1 DEF Goto, locals, net
  <2>2. CASE /\ conn' = [conn EXCEPT ![fd[x].conn].in[Other(fd[x].end)] = @ \o var[x]]
             /\ Goto(x, next)
             /\ UNCHANGED <<locals, backlog, listening, mail, disk, screen>>
    <3>1. conn' = InChanged(fd[x].conn, Other(fd[x].end),
                            conn[fd[x].conn].in[Other(fd[x].end)] \o var[x])
      BY <2>2 DEF InChanged
    <3> QED BY <2>2, <3>1 DEF Goto, locals
  <2> QED BY <1>2, <1>3, <2>1, <2>2 DEF Send, SendOr
<1> QED BY <1>1, <1>4, <1>5, TalkOn

LEMMA ReadStep ==
    ASSUME ChatTypes, ChatOK, NEW x \in Sides,
           RecvPrint(ReaderOf(x), "read", 2, "read", "gone")
    PROVE  ChatTypes' /\ ChatOK'
<1> DEFINE r == ReaderOf(x)
<1>1. pc[r] = "read" /\ Talking(r)
  BY DEF RecvPrint, Receive, At, Talking
<1>2. Open(r) /\ ~PeerClosed(r) /\ ~Reset(r)
  BY <1>1, NotCut
<1>3. /\ Read(r, 2, TRUE) /\ Goto(r, "read")
      /\ UNCHANGED <<task, fd, listening, backlog>>
  BY <1>2 DEF RecvPrint, Receive
<1> HIDE DEF r
<1>4. \E i, e, v : conn' = InChanged(i, e, v)
  <2>1. PICK k \in 1 .. Len(Arrived(r)) :
          conn' = [conn EXCEPT ![fd[r].conn].in[fd[r].end] = SubSeq(@, k + 1, Len(@))]
    BY <1>3 DEF Read
  <2>2. conn' = InChanged(fd[r].conn, fd[r].end,
                          SubSeq(conn[fd[r].conn].in[fd[r].end], k + 1,
                                 Len(conn[fd[r].conn].in[fd[r].end])))
    BY <2>1 DEF InChanged
  <2> QED BY <2>2
<1>5. r # x /\ r \in {x, ReaderOf(x)}
  BY FourProcs DEF r
<1> QED BY <1>1, <1>3, <1>4, <1>5, TalkOn DEF Goto

(* One step of the chat other than Ctrl-C.                                 *)
LEMMA ChatStep ==
    ASSUME ChatTypes, ChatOK, NEW x \in Sides, system = "chat", ChatProgram(x)
    PROVE  ChatTypes' /\ ChatOK'
<1> DEFINE r == ReaderOf(x)
<1>1. \/ x = "server" /\ Accept(x, "accept", "fork")
      \/ x = "client" /\ Connect(x, "connect", "fork", "close")
      \/ ChatLoops(x, r)
  BY DEF ChatProgram, ChatServer, ChatClient
<1>2. CASE x = "server" /\ Accept(x, "accept", "fork")
  BY <1>2, AcceptStep
<1>3. CASE x = "client" /\ Connect(x, "connect", "fork", "close")
  BY <1>3, ConnectStep
<1>4. CASE ChatLoops(x, r)
  <2>1. CASE Exit(r, "gone")
    BY <2>1 DEF Exit, At, ChatOK, ChatPlaces
  <2> QED BY <1>4, <2>1, ForkStep, TypeStep, WriteStep, ExitStep, ReadStep DEF ChatLoops
<1> QED BY <1>1, <1>2, <1>3, <1>4

-----------------------------------------------------------------------------
(* No program becomes another one.                                         *)

LEMMA CallsKeep ==
    /\ \A p, at, next : Jump(p, at, next) => UNCHANGED system
    /\ \A p, at, v, next : Assign(p, at, v, next) => UNCHANGED system
    /\ \A p, at, inputs, next : Type(p, at, inputs, next) => UNCHANGED system
    /\ \A p, at, next, refused : Connect(p, at, next, refused) => UNCHANGED system
    /\ \A p, at, next : Accept(p, at, next) => UNCHANGED system
    /\ \A p, at, n, show, next, zero, failed :
         Receive(p, at, n, show, next, zero, failed) => UNCHANGED system
    /\ \A p, at, n, next, end : RecvPrint(p, at, n, next, end) => UNCHANGED system
    /\ \A p, at : Exit(p, at) => UNCHANGED system
    /\ \A p, T : Interrupt(p, T) => UNCHANGED system
    /\ \A p, at : Return(p, at) => UNCHANGED system
    /\ \A p, at, next : Close(p, at, next) => UNCHANGED system
    /\ \A p, at, next : CloseListener(p, at, next) => UNCHANGED system
<1>1. \A p, at, next : Jump(p, at, next) => UNCHANGED system
  BY DEF Jump, Goto
<1>2. \A p, at, v, next : Assign(p, at, v, next) => UNCHANGED system
  BY DEF Assign, Goto
<1>3. \A p, at, inputs, next : Type(p, at, inputs, next) => UNCHANGED system
  BY DEF Type, Goto
<1>4. \A p, at, next, refused : Connect(p, at, next, refused) => UNCHANGED system
  BY DEF Connect, Goto
<1>5. \A p, at, next : Accept(p, at, next) => UNCHANGED system
  BY DEF Accept, Goto
<1>6. \A p, at, n, show, next, zero, failed :
        Receive(p, at, n, show, next, zero, failed) => UNCHANGED system
  BY DEF Receive, Goto
<1>7. \A p, at, n, next, end : RecvPrint(p, at, n, next, end) => UNCHANGED system
  BY <1>6 DEF RecvPrint
<1>8. \A p, at : Exit(p, at) => UNCHANGED system
  BY DEF Exit, Kill
<1>9. \A p, T : Interrupt(p, T) => UNCHANGED system
  BY DEF Interrupt
<1>10. \A p, at : Return(p, at) => UNCHANGED system
  BY <1>1 DEF Return
<1>11. \A p, at, next : Close(p, at, next) => UNCHANGED system
  BY DEF Close, Goto
<1>12. \A p, at, next : CloseListener(p, at, next) => UNCHANGED system
  BY DEF CloseListener, Goto
<1> QED BY <1>1, <1>2, <1>3, <1>4, <1>5, <1>6, <1>7, <1>8, <1>9, <1>10, <1>11, <1>12

LEMMA SendsKeep ==
    /\ \A p, at, m, next : Send(p, at, m, next) => UNCHANGED system
    /\ \A p, at, m, next : SendWindows(p, at, m, next) => UNCHANGED system
    /\ \A p, at, m, next : SendUnix(p, at, m, next) => UNCHANGED system
    /\ \A p, at, to, body, mayLose, next :
         SendTo(p, at, to, body, mayLose, next) => UNCHANGED system
    /\ \A p, at, n, next : RecvFromPrint(p, at, n, next) => UNCHANGED system
    /\ \A p, at, kids, child, next : Fork(p, at, kids, child, next) => UNCHANGED system
    /\ \A p, at, kids, start, next : Thread(p, at, kids, start, next) => UNCHANGED system
<1>1. \A p, at, m, next : Send(p, at, m, next) => UNCHANGED system
  BY DEF Send, SendOr, Goto, Kill
<1>2. \A p, at, m, next : SendWindows(p, at, m, next) => UNCHANGED system
  BY DEF SendWindows, SendOr, Goto
<1>3. \A p, at, m, next : SendUnix(p, at, m, next) => UNCHANGED system
  BY <1>1 DEF SendUnix, Kill
<1>4. \A p, at, to, body, mayLose, next :
        SendTo(p, at, to, body, mayLose, next) => UNCHANGED system
  BY DEF SendTo, SendOn, Goto
<1>5. \A p, at, n, next : RecvFromPrint(p, at, n, next) => UNCHANGED system
  BY DEF RecvFromPrint, ReceiveFrom, Goto
<1>6. \A p, at, kids, child, next : Fork(p, at, kids, child, next) => UNCHANGED system
  BY DEF Fork
<1>7. \A p, at, kids, start, next : Thread(p, at, kids, start, next) => UNCHANGED system
  BY DEF Thread
<1> QED BY <1>1, <1>2, <1>3, <1>4, <1>5, <1>6, <1>7

LEMMA SystemKept == Next => UNCHANGED system
<1>1. ASSUME NEW x \in Sides, ChatProgram(x) PROVE UNCHANGED system
  <2> DEFINE r == ReaderOf(x)
  <2>1. ChatServer(x, r) \/ ChatClient(x, r) => UNCHANGED system
    BY CallsKeep, SendsKeep DEF ChatServer, ChatClient, ChatLoops
  <2>2. ForkChatServer(x, r) \/ ForkChatClient(x, r) => UNCHANGED system
    BY CallsKeep, SendsKeep DEF ForkChatServer, ForkChatClient, ForkChatLoops
  <2>3. ThreadChatServer(x, r) \/ ThreadChatClient(x, r) => UNCHANGED system
    BY CallsKeep, SendsKeep DEF ThreadChatServer, ThreadChatClient, ThreadLoops
  <2>4. WinChatServer(x, r) \/ WinChatClient(x, r) => UNCHANGED system
    BY CallsKeep, SendsKeep DEF WinChatServer, WinChatClient, WinLoops
  <2>5. HalfDuplexServer(x, r) \/ HalfDuplexClient(x, r) => UNCHANGED system
    BY CallsKeep, SendsKeep DEF HalfDuplexServer, HalfDuplexClient, HalfDuplexLoops
  <2> QED BY <1>1, <2>1, <2>2, <2>3, <2>4, <2>5 DEF ChatProgram
<1>2. ASSUME NEW x \in Sides, TurnProgram(x) PROVE UNCHANGED system
  <2>1. TalkServer(x) \/ TalkClient(x) => UNCHANGED system
    BY CallsKeep, SendsKeep DEF TalkServer, TalkClient
  <2>2. TalkServerUDP(x) \/ TalkClientUDP(x) => UNCHANGED system
    BY CallsKeep, SendsKeep DEF TalkServerUDP, TalkClientUDP
  <2>3. FirstServer(x) \/ FirstClient(x) => UNCHANGED system
    BY CallsKeep, SendsKeep DEF FirstServer, FirstClient
  <2>4. EchoServer(x) \/ EchoClient(x) => UNCHANGED system
    BY CallsKeep, SendsKeep DEF EchoServer, EchoClient
  <2>5. WinTurnServer(x) \/ WinTurnClient(x) => UNCHANGED system
    BY CallsKeep, SendsKeep DEF WinTurnServer, WinTurnClient
  <2>6. GreetingServer(x) \/ GreetingClient(x) => UNCHANGED system
    BY CallsKeep, SendsKeep DEF GreetingServer, GreetingClient
  <2> QED BY <1>2, <2>1, <2>2, <2>3, <2>4, <2>5, <2>6 DEF TurnProgram
<1>3. ASSUME NEW x \in Sides, ExchangeProgram(x) PROVE UNCHANGED system
  <2>1. BlockingServer(x) \/ BlockingClient(x) => UNCHANGED system
    BY CallsKeep, SendsKeep DEF BlockingServer, BlockingClient
  <2>2. PollingServer(x) \/ PollingClient(x) => UNCHANGED system
    BY CallsKeep, SendsKeep DEF PollingServer, PollingClient
  <2>3. SelectServer(x) \/ SelectClient(x) => UNCHANGED system
    BY CallsKeep, SendsKeep DEF SelectServer, SelectClient
  <2>4. WinsockServer(x) \/ WinsockClient(x) => UNCHANGED system
    BY CallsKeep, SendsKeep DEF WinsockServer, WinsockClient
  <2> QED BY <1>3, <2>1, <2>2, <2>3, <2>4 DEF ExchangeProgram
<1> QED BY <1>1, <1>2, <1>3, CallsKeep
        DEF Next, ChatNext, TurnNext, ExchangeNext, Leave, Sides

-----------------------------------------------------------------------------
(* Lines are only added to what was typed, and Ctrl-C is one.              *)
LEMMA SaidGrows ==
    ASSUME SaidTypes, NEW x \in Sides, NEW m \in Lines,
           said' = said \/ said' = [said EXCEPT ![x] = Append(@, m)]
    PROVE  SaidTypes' /\ (Interrupted => Interrupted')
<1>1. CASE said' = said
  BY <1>1 DEF SaidTypes, Interrupted
<1>2. CASE said' = [said EXCEPT ![x] = Append(@, m)]
  <2>1. /\ said[x] \in Seq(Lines) /\ said'[x] = Append(said[x], m)
        /\ \A y \in Sides \ {x} : said'[y] = said[y]
        /\ DOMAIN said' = Procs
    BY <1>2, FourProcs DEF SaidTypes
  <2>2. /\ said'[x] \in Seq(Lines)
        /\ \A k \in DOMAIN said[x] : k \in DOMAIN said'[x] /\ said'[x][k] = said[x][k]
    BY <2>1
  <2>3. SaidTypes'
    BY <2>1, <2>2 DEF SaidTypes
  <2>4. \A y \in Sides : \A k \in DOMAIN said[y] :
          k \in DOMAIN said'[y] /\ said'[y][k] = said[y][k]
    BY <2>1, <2>2
  <2>5. Interrupted => Interrupted'
    BY <2>4 DEF Interrupted
  <2> QED BY <2>3, <2>5
<1> QED BY <1>1, <1>2

LEMMA ChatSaid ==
    ASSUME NEW x \in Sides, system = "chat", ChatProgram(x)
    PROVE  said' = said \/ \E m \in Lines : said' = [said EXCEPT ![x] = Append(@, m)]
<1> DEFINE r == ReaderOf(x)
<1>1. \/ Accept(x, "accept", "fork") \/ Connect(x, "connect", "fork", "close")
      \/ ChatLoops(x, r)
  BY DEF ChatProgram, ChatServer, ChatClient
<1>2. Accept(x, "accept", "fork") \/ Connect(x, "connect", "fork", "close") => said' = said
  BY DEF Accept, Connect, screen
<1>3. Fork(x, "fork", {r}, "read", "type") => said' = said
  BY DEF Fork, screen
<1>4. \A p, at : Exit(p, at) => said' = said
  BY DEF Exit, Kill, screen
<1>5. RecvPrint(r, "read", 2, "read", "gone") => said' = said
  BY DEF RecvPrint, Receive
<1>6. \A p, at, m, next : SendUnix(p, at, m, next) => said' = said
  BY DEF SendUnix, Send, SendOr, Kill, screen
<1>7. Type(x, "type", {hi, exit}, "write")
        => \E m \in Lines : said' = [said EXCEPT ![x] = Append(@, m)]
  BY DEF Type, Lines
<1> QED BY <1>1, <1>2, <1>3, <1>4, <1>5, <1>6, <1>7 DEF ChatLoops

LEMMA LeaveShows ==
    ASSUME SaidTypes, NEW x \in Sides, Leave(x)
    PROVE  SaidTypes' /\ Interrupted'
<1>1. said' = [said EXCEPT ![x] = Append(@, <<"^C">>)] /\ <<"^C">> \in Lines
  BY DEF Leave, Interrupt, Lines
<1>2. SaidTypes'
  BY <1>1, SaidGrows
<1>3. said[x] \in Seq(Lines) /\ said'[x] = Append(said[x], <<"^C">>)
  BY <1>1, FourProcs DEF SaidTypes
<1>4. Len(said[x]) + 1 \in DOMAIN said'[x] /\ said'[x][Len(said[x]) + 1] = <<"^C">>
  BY <1>3
<1> QED BY <1>2, <1>4 DEF Interrupted

LEMMA ChatInitially == Init => ChatInv
<1> SUFFICES ASSUME Init, system = "chat" PROVE SaidTypes /\ ChatTypes /\ ChatOK
  BY DEF ChatInv
<1>1. SocketsInit([p \in Procs |-> CASE p = "server" -> "accept"
                                     [] p = "client" -> "connect"
                                     [] OTHER -> "none"], {"server"}, <<>>)
  BY DEF Init, ChatInit, TurnInit, ExchangeInit, TCPTurns, UDPTurns, ExchangeSystems
<1>2. /\ pc["server"] = "accept" /\ pc["client"] = "connect"
      /\ \A x \in Sides : pc[ReaderOf(x)] = "none"
      /\ DOMAIN pc = Procs
  BY <1>1, FourProcs, ChatAssumption DEF SocketsInit, Sides, ReaderOf
<1>3. SaidTypes
  BY <1>1, FourProcs DEF SocketsInit, SaidTypes
<1>4. ChatTypes
  BY <1>1, <1>2 DEF SocketsInit, ChatTypes, NoConn, Shape
<1>5. ChatPlaces
  BY <1>2 DEF ChatPlaces, Sides
<1>6. ChatListens /\ ChatLinked
  BY <1>1, <1>2 DEF SocketsInit, ChatListens, ChatLinked, Sides, ReaderOf
<1> QED BY <1>3, <1>4, <1>5, <1>6 DEF ChatOK

LEMMA ChatKept == ChatInv /\ [Next]_vars => ChatInv'
<1> SUFFICES ASSUME ChatInv, [Next]_vars, system' = "chat"
             PROVE  SaidTypes' /\ (~Interrupted' => ChatTypes' /\ ChatOK')
  BY DEF ChatInv
<1>1. system = "chat"
  BY SystemKept DEF vars
<1>2. SaidTypes /\ (~Interrupted => ChatTypes /\ ChatOK)
  BY <1>1 DEF ChatInv
<1>3. CASE UNCHANGED vars
  BY <1>2, <1>3 DEF vars, net, locals, screen, SaidTypes, Interrupted, ChatTypes, ChatOK,
                    ChatPlaces, ChatListens, ChatLinked, Link, Talking
<1>4. CASE Next
  <2>1. PICK x \in Sides : ChatProgram(x) \/ Leave(x)
    BY <1>1, <1>4 DEF Next, ChatNext, TurnNext, ExchangeNext, TCPTurns, UDPTurns,
                      ExchangeSystems
  <2>2. CASE Leave(x)
    BY <1>2, <2>2, LeaveShows
  <2>3. CASE ChatProgram(x)
    <3>1. SaidTypes' /\ (Interrupted => Interrupted')
      <4>1. CASE said' = said
        BY <1>2, <4>1 DEF SaidTypes, Interrupted
      <4>2. CASE \E m \in Lines : said' = [said EXCEPT ![x] = Append(@, m)]
        BY <1>2, <4>2, SaidGrows
      <4> QED BY <1>1, <2>3, <4>1, <4>2, ChatSaid
    <3>2. ~Interrupted => ChatTypes' /\ ChatOK'
      BY <1>1, <1>2, <2>3, ChatStep
    <3> QED BY <3>1, <3>2
  <2> QED BY <2>1, <2>2, <2>3
<1> QED BY <1>3, <1>4

(* The invariant of Lab03/quo1, for every bound on the users' lines: both  *)
(* ends of the connection stay open, and each reading process reads.        *)
THEOREM Invariant == Spec => []ChatInv
  BY ChatInitially, ChatKept, PTL DEF Spec

(* Whatever the two users type, in whatever order the four processes run:  *)
(* unless Ctrl-C is pressed, neither child of Lab03/quo1 ever ends, the one *)
(* whose parent has exited included.                                       *)
THEOREM ReadersStay == Spec => []ExitLeavesReaders
<1>1. ChatInv => ExitLeavesReaders
  BY DEF ChatInv, ExitLeavesReaders, ChatOK, ChatPlaces
<1> QED BY <1>1, Invariant, PTL

-----------------------------------------------------------------------------
(* The programs that take turns.  The client asks, the server answers: at  *)
(* any moment at most one message is under way, and the places of the two  *)
(* tell which.                                                             *)

TurnLines == {word, stop, long, <<"^C">>}
TCPTalks == {"talk", "first", "win_turn"}
UDPTalks == {"talk_udp", "talk_udp_lossy"}
Talks == TCPTalks \cup UDPTalks

Asked == Len(said["client"])
Answered == Len(said["server"])
Answer == said["server"][Answered]
Cut(a) == IF Len(a) <= ClientBuffer THEN a ELSE SubSeq(a, 1, ClientBuffer)
Reply == IF system = "first" THEN <<Answer[1], "padding">> ELSE Answer

(* What waits for x to read it is the message b, or nothing.               *)
Pending(x, b) ==
    IF system \in UDPTalks
    THEN mail[x] = IF b = <<>> THEN <<>> ELSE <<Datagram(PeerOf(x), b)>>
    ELSE pc["client"] # "connect" => conn[Link].in[EndOf(x)] = b
Quiet == Pending("server", <<>>) /\ Pending("client", <<>>)

(* Where the server is once it has sent its answer.                        *)
Rests == IF system = "first" THEN {"close", "done"}
         ELSE IF system # "win_turn" /\ Answer = stop THEN {"end", "done"} ELSE {"recv"}

Hearing == pc["server"] \in {"accept", "recv"}
Known == Answered > 0 => buf["client"] = Cut(Answer)

(* A read of the client cannot return part of such an answer.              *)
Short == system \in {"talk", "win_turn"} => Len(Answer) = 1

Asks ==
    /\ Hearing /\ Quiet /\ Known
    /\ Asked = IF pc["client"] = "send" THEN Answered + 1 ELSE Answered
    /\ pc["client"] = "send" => var["client"] = word \/ (system \notin {"first", "win_turn"}
                                                         /\ var["client"] = stop)
    /\ pc["server"] = "accept" \/ system = "first" => Answered = 0

IsAsked ==
    /\ Hearing
    /\ Pending("server", word) /\ Pending("client", <<>>)
    /\ Asked = Answered + 1
    /\ pc["server"] = "accept" \/ system = "first" => Answered = 0

Answers ==
    /\ Quiet
    /\ \/ pc["server"] = "heard" /\ Asked = Answered + 1 /\ buf["server"] = word
       \/ pc["server"] = "type" /\ Asked = Answered + 1
       \/ /\ pc["server"] = "send" /\ Asked = Answered /\ Answered > 0
          /\ var["server"] = Answer /\ Short
    /\ system = "first" => Asked = 1
    /\ system \in UDPTalks => peer["server"] = "client"

HasAnswered ==
    /\ Asked = Answered /\ Answered > 0 /\ pc["server"] \in Rests
    /\ Pending("server", <<>>) /\ Pending("client", Reply) /\ Short

Lost == Lossy /\ pc["server"] \in {"recv", "end", "done"} /\ Quiet

Learnt ==
    /\ Asked = Answered /\ Answered > 0 /\ Known
    /\ pc["server"] \in Rests /\ (system # "first" => Quiet)

InTurn ==
    /\ pc["client"] \in {"connect", "type", "send"} => Asks
    /\ pc["client"] = "recv" => IsAsked \/ Answers \/ HasAnswered \/ Lost
    /\ pc["client"] \in {"heard", "close"} => Learnt

(* The connection is held by the two sides, and never reset while both     *)
(* are there.                                                              *)
Held(x) ==
    /\ Link \in 1 .. MaxConns
    /\ fd[x].conn = Link /\ fd[x].end = EndOf(x)
    /\ conn[Link].by[EndOf(x)] = {x}

Wired ==
    /\ pc["client"] = "connect" => backlog = <<>> /\ pc["server"] = "accept"
    /\ pc["server"] = "accept" => "server" \in listening
    /\ pc["client"] # "connect" =>
         /\ Held("client")
         /\ pc["server"] = "accept" =>
              /\ backlog = <<Link>> /\ conn[Link].by["s"] = {"kernel"}
              /\ conn[Link].in["c"] = <<>>
         /\ pc["server"] \notin {"accept", "done"} => Held("server")
         /\ pc["server"] # "done" => conn[Link].rst = {}

TurnPlaces ==
    /\ pc["client"] \in {"connect", "type", "send", "recv", "heard", "end", "close"}
    /\ pc["server"] \in {"accept", "recv", "heard", "type", "send", "end", "done"}
                            \cup IF system = "first" THEN {"close"} ELSE {}
    /\ system \in UDPTalks => pc["client"] # "connect" /\ pc["server"] # "accept"
    /\ pc["client"] = "close" => system = "first"
    /\ system \in {"first", "win_turn"} => pc["client"] # "heard" /\ pc["server"] # "heard"

Segments == {"word", "stop", "head", "middle", "rest", "padding"}
Wire(k) == Shape(k) /\ k.in \in [Ends -> Seq(Segments)]

TurnTypes ==
    /\ DOMAIN fd = Procs /\ task = [p \in Procs |-> p]
    /\ DOMAIN buf = Procs /\ DOMAIN var = Procs /\ DOMAIN peer = Procs /\ DOMAIN mail = Procs
    /\ DOMAIN conn = 1 .. MaxConns /\ \A i \in 1 .. MaxConns : Wire(conn[i])
    /\ \A x \in Sides : pc[x] = "send" => var[x] \in {word, stop, long}

(* Over TCP somebody's word is on its way whenever both sides read.        *)
Moving ==
    pc["client"] = "recv" /\ Hearing => \E e \in Ends : conn[Link].in[e] # <<>>

(* From here on no turn is taken any more, or not in step.                 *)
TurnsOver == pc["client"] = "done" \/ (OverlongWord /\ pc["server"] = "done")

TurnSaid ==
    DOMAIN pc = Procs /\ DOMAIN said = Procs /\ \A x \in Sides : said[x] \in Seq(TurnLines)

TurnOK ==
    /\ TurnTypes /\ TurnPlaces
    /\ system \in TCPTalks => Wired /\ Moving
    /\ OverlongWord \/ InTurn

TurnInv == system \in Talks => TurnSaid /\ (~Left => TurnsOver \/ TurnOK)

-----------------------------------------------------------------------------
(* The events of a turn, over whatever the messages travel.                *)

PendingKept == \A x \in Sides : \A b : Pending(x, b) => Pending(x, b)'

LEMMA TurnNames ==
    /\ Sides = {"server", "client"} /\ "server" \in Procs /\ "client" \in Procs
    /\ PeerOf("server") = "client" /\ PeerOf("client") = "server"
    /\ EndOf("server") = "s" /\ EndOf("client") = "c"
    /\ Other("s") = "c" /\ Other("c") = "s" /\ Ends = {"c", "s"}
    /\ word # stop /\ word # <<>> /\ stop # <<>> /\ long # <<>> /\ long # stop /\ long # word
  BY ChatAssumption DEF Sides, PeerOf, EndOf, Other, Ends, word, stop, long

LEMMA QuietKept == PendingKept /\ Quiet => Quiet'
  BY TurnNames DEF PendingKept, Quiet

(* The server accepts, looks at what it has heard, or ends.                *)
LEMMA ServerGoesOn ==
    ASSUME TurnSaid, TurnPlaces, InTurn, NEW next, PendingKept,
           pc["client"] # "connect",
           pc' = [pc EXCEPT !["server"] = next], UNCHANGED <<system, said>>,
           buf'["client"] = buf["client"], var'["client"] = var["client"],
           \/ pc["server"] = "accept" /\ next = "recv"
           \/ /\ pc["server"] = "heard" /\ peer' = peer
              /\ next = IF Hears("server", stop) THEN "end" ELSE "type"
           \/ pc["server"] \in {"end", "close"} /\ next = "done"
    PROVE  InTurn'
<1>1. pc'["client"] = pc["client"] /\ pc'["server"] = next
  BY TurnNames DEF TurnSaid
<1>2. /\ Asked' = Asked /\ Answered' = Answered /\ Answer' = Answer /\ Reply' = Reply
      /\ Rests' = Rests /\ (Known => Known') /\ Lossy' = Lossy /\ Short' = Short
  BY DEF Asked, Answered, Answer, Reply, Rests, Known, Cut, ClientBuffer, Lossy, Short
<1>3. CASE pc["client"] \in {"type", "send"}
  <2>1. Asks
    BY <1>3 DEF InTurn
  <2>2. pc["server"] = "accept" /\ next = "recv"
    BY <2>1 DEF Asks, Hearing
  <2>3. Asks'
    BY <1>1, <1>2, <2>1, <2>2, QuietKept DEF Asks, Hearing
  <2> QED BY <1>1, <1>3, <2>3 DEF InTurn
<1>4. CASE pc["client"] = "recv"
  <2>1. CASE IsAsked
    <3>1. pc["server"] = "accept" /\ next = "recv"
      BY <2>1 DEF IsAsked, Hearing
    <3>2. Pending("server", word)' /\ Pending("client", <<>>)'
      BY <2>1, TurnNames DEF IsAsked, PendingKept
    <3>3. IsAsked'
      BY <1>1, <1>2, <2>1, <3>1, <3>2 DEF IsAsked, Hearing
    <3> QED BY <1>1, <1>4, <3>3 DEF InTurn
  <2>2. CASE Answers
    <3>1. pc["server"] = "heard" /\ peer' = peer /\ buf["server"] = word
          /\ Asked = Answered + 1
      BY <2>2 DEF Answers
    <3>2. next = "type"
      BY <3>1 DEF Hears, word, stop
    <3>3. Answers'
      BY <1>1, <1>2, <2>2, <3>1, <3>2, QuietKept DEF Answers
    <3> QED BY <1>1, <1>4, <3>3 DEF InTurn
  <2>3. CASE HasAnswered
    <3>1. pc["server"] \in {"end", "close"} /\ next = "done" /\ next \in Rests
      BY <2>3 DEF HasAnswered, Rests
    <3>2. Pending("server", <<>>)' /\ Pending("client", Reply)'
      <4>1. PICK b : b = Reply
        OBVIOUS
      <4>2. Pending("server", <<>>) /\ Pending("client", b)
        BY <2>3, <4>1 DEF HasAnswered
      <4>3. Pending("server", <<>>)' /\ Pending("client", b)'
        BY <4>2, TurnNames DEF PendingKept
      <4> QED BY <1>2, <4>1, <4>3 DEF Pending
    <3>3. HasAnswered'
      BY <1>1, <1>2, <2>3, <3>1, <3>2 DEF HasAnswered
    <3> QED BY <1>1, <1>4, <3>3 DEF InTurn
  <2>4. CASE Lost
    <3>1. next = "done"
      BY <2>4 DEF Lost
    <3>2. Lost'
      BY <1>1, <1>2, <2>4, <3>1, QuietKept DEF Lost
    <3> QED BY <1>1, <1>4, <3>2 DEF InTurn
  <2> QED BY <1>4, <2>1, <2>2, <2>3, <2>4 DEF InTurn
<1>5. CASE pc["client"] \in {"heard", "close"}
  <2>1. Learnt
    BY <1>5 DEF InTurn
  <2>2. pc["server"] \in {"end", "close"} /\ next = "done" /\ next \in Rests
    BY <2>1 DEF Learnt, Rests
  <2>3. Learnt'
    BY <1>1, <1>2, <2>1, <2>2, QuietKept DEF Learnt
  <2> QED BY <1>1, <1>5, <2>3 DEF InTurn
<1>6. CASE pc["client"] = "end"
  BY <1>1, <1>6 DEF InTurn
<1> QED BY <1>3, <1>4, <1>5, <1>6 DEF TurnPlaces

(* The server hears what was asked.                                        *)
LEMMA ServerHears ==
    ASSUME TurnSaid, TurnPlaces, InTurn, NEW next,
           pc["client"] # "connect", pc["server"] = "recv",
           pc' = [pc EXCEPT !["server"] = next], UNCHANGED <<system, said>>,
           next = IF system \in {"first", "win_turn"} THEN "type" ELSE "heard",
           buf'["client"] = buf["client"],
           ~Pending("server", <<>>),
           Pending("server", word) => /\ Pending("server", <<>>)' /\ buf'["server"] = word
                                      /\ system \in UDPTalks => peer'["server"] = "client",
           Pending("client", <<>>) => Pending("client", <<>>)'
    PROVE  InTurn'
<1>1. pc'["client"] = pc["client"] /\ pc'["server"] = next
  BY TurnNames DEF TurnSaid
<1>2. Asked' = Asked /\ Answered' = Answered
  BY DEF Asked, Answered
<1>3. ~Quiet
  BY DEF Quiet
<1>4. pc["client"] \notin {"type", "send"}
  BY <1>3 DEF InTurn, Asks
<1>5. CASE pc["client"] = "recv"
  <2>1. IsAsked
    BY <1>3, <1>5 DEF InTurn, Answers, HasAnswered, Lost
  <2>2. Quiet'
    BY <2>1 DEF IsAsked, Quiet
  <2>3. system = "first" => Asked = 1
    <3>1. Asked = Answered + 1 /\ (system = "first" => Answered = 0)
      BY <2>1 DEF IsAsked
    <3> QED BY <3>1
  <2>4. Pending("server", word)
    BY <2>1 DEF IsAsked
  <2>5. Answers'
    BY <1>1, <1>2, <2>1, <2>2, <2>3, <2>4 DEF Answers, IsAsked, UDPTalks
  <2> QED BY <1>1, <1>5, <2>5 DEF InTurn
<1>6. pc["client"] \notin {"heard", "close"}
  <2>1. SUFFICES ASSUME Learnt PROVE FALSE
    BY DEF InTurn
  <2>2. system = "first"
    BY <1>3, <2>1 DEF Learnt
  <2> QED BY <2>1, <2>2 DEF Learnt, Rests
<1>7. CASE pc["client"] = "end"
  BY <1>1, <1>7 DEF InTurn
<1> QED BY <1>4, <1>5, <1>6, <1>7 DEF TurnPlaces

(* The server's user types an answer.                                      *)
LEMMA ServerTypes ==
    ASSUME TurnSaid, TurnTypes, TurnPlaces, InTurn, PendingKept, NEW m \in TurnLines,
           pc["client"] # "connect", pc["server"] = "type",
           pc' = [pc EXCEPT !["server"] = "send"], UNCHANGED <<system, peer, buf>>,
           said' = [said EXCEPT !["server"] = Append(@, m)],
           var' = [var EXCEPT !["server"] = m],
           system \in {"talk", "win_turn"} => Len(m) = 1
    PROVE  InTurn'
<1>1. /\ pc'["client"] = pc["client"] /\ pc'["server"] = "send" /\ var'["server"] = m
      /\ said'["client"] = said["client"] /\ said'["server"] = Append(said["server"], m)
      /\ said["server"] \in Seq(TurnLines)
  BY TurnNames DEF TurnSaid, TurnTypes
<1>2. Asked' = Asked /\ Answered' = Answered + 1 /\ Answer' = m /\ Answered \in Nat
  BY <1>1 DEF Asked, Answered, Answer
<1>3. pc["client"] \notin {"type", "send"}
  BY DEF InTurn, Asks, Hearing
<1>4. pc["client"] \notin {"heard", "close"}
  BY DEF InTurn, Learnt, Rests
<1>5. CASE pc["client"] = "recv"
  <2>1. Answers
    BY <1>5 DEF InTurn, IsAsked, Hearing, HasAnswered, Rests, Lost
  <2>2. Quiet'
    BY <2>1, QuietKept DEF Answers
  <2>3. Asked = Answered + 1
    BY <2>1 DEF Answers
  <2>4. Answers'
    BY <1>1, <1>2, <2>1, <2>2, <2>3 DEF Answers, Short
  <2> QED BY <1>1, <1>5, <2>4 DEF InTurn
<1>6. CASE pc["client"] = "end"
  BY <1>1, <1>6 DEF InTurn
<1> QED BY <1>3, <1>4, <1>5, <1>6 DEF TurnPlaces

(* The server sends it, or it is lost.                                     *)
LEMMA ServerSends ==
    ASSUME TurnSaid, TurnPlaces, InTurn, NEW next, NEW b,
           pc["client"] # "connect", pc["server"] = "send",
           pc' = [pc EXCEPT !["server"] = next], UNCHANGED <<system, said>>,
           buf'["client"] = buf["client"],
           next = IF system = "first" THEN "close"
                  ELSE IF system # "win_turn" /\ var["server"] = stop THEN "end" ELSE "recv",
           b = IF system = "first" THEN <<var["server"][1], "padding">> ELSE var["server"],
           Quiet /\ pc["client"] = "recv" =>
              \/ Pending("server", <<>>)' /\ Pending("client", b)'
              \/ Lossy /\ PendingKept
    PROVE  InTurn'
<1>1. pc'["client"] = pc["client"] /\ pc'["server"] = next
  BY TurnNames DEF TurnSaid
<1>2. /\ Asked' = Asked /\ Answered' = Answered /\ Answer' = Answer /\ Reply' = Reply
      /\ Rests' = Rests /\ Lossy' = Lossy /\ Short' = Short
  BY DEF Asked, Answered, Answer, Reply, Rests, Lossy, Short
<1>3. pc["client"] \notin {"type", "send"}
  BY DEF InTurn, Asks, Hearing
<1>4. pc["client"] \notin {"heard", "close"}
  BY DEF InTurn, Learnt, Rests
<1>5. CASE pc["client"] = "recv"
  <2>1. Answers
    BY <1>5 DEF InTurn, IsAsked, Hearing, HasAnswered, Rests, Lost
  <2>2. Quiet /\ Asked = Answered /\ Answered > 0 /\ var["server"] = Answer /\ Short
    BY <2>1 DEF Answers
  <2>3. CASE Pending("server", <<>>)' /\ Pending("client", b)'
    <3>1. next \in Rests
      BY <2>2 DEF Rests
    <3>2. b = Reply
      BY <2>2 DEF Reply
    <3>3. Pending("client", Reply)'
      BY <1>2, <2>3, <3>2 DEF Pending
    <3>4. HasAnswered'
      BY <1>1, <1>2, <2>2, <2>3, <3>1, <3>3 DEF HasAnswered
    <3> QED BY <1>1, <1>5, <3>4 DEF InTurn
  <2>4. CASE Lossy /\ PendingKept
    <3>1. Quiet'
      BY <2>2, <2>4, QuietKept
    <3>2. next \in {"recv", "end"}
      BY <2>4 DEF Lossy
    <3>3. Lost'
      BY <1>1, <1>2, <2>4, <3>1, <3>2 DEF Lost
    <3> QED BY <1>1, <1>5, <3>3 DEF InTurn
  <2> QED BY <1>5, <2>2, <2>3, <2>4
<1>6. CASE pc["client"] = "end"
  BY <1>1, <1>6 DEF InTurn
<1> QED BY <1>3, <1>4, <1>5, <1>6 DEF TurnPlaces

(* The client is connected; its user types a question.                     *)
LEMMA ClientConnects ==
    ASSUME TurnSaid, InTurn, Quiet', pc["client"] = "connect",
           pc' = [pc EXCEPT !["client"] = "type"], UNCHANGED <<system, said, buf>>
    PROVE  InTurn'
<1>1. pc'["client"] = "type" /\ pc'["server"] = pc["server"]
  BY TurnNames DEF TurnSaid
<1>2. /\ Asked' = Asked /\ Answered' = Answered /\ Answer' = Answer /\ (Known => Known')
  BY DEF Asked, Answered, Answer, Known, Cut, ClientBuffer
<1>3. Asks
  BY DEF InTurn
<1>4. Asks'
  BY <1>1, <1>2, <1>3 DEF Asks, Hearing
<1> QED BY <1>1, <1>4 DEF InTurn

LEMMA ClientTypes ==
    ASSUME TurnSaid, TurnTypes, InTurn, PendingKept, NEW m \in TurnLines,
           pc["client"] = "type", pc' = [pc EXCEPT !["client"] = "send"],
           UNCHANGED <<system, buf>>,
           said' = [said EXCEPT !["client"] = Append(@, m)],
           var' = [var EXCEPT !["client"] = m],
           m = word \/ (system \notin {"first", "win_turn"} /\ m = stop)
    PROVE  InTurn'
<1>1. /\ pc'["client"] = "send" /\ pc'["server"] = pc["server"] /\ var'["client"] = m
      /\ said'["server"] = said["server"] /\ said'["client"] = Append(said["client"], m)
      /\ said["client"] \in Seq(TurnLines)
  BY TurnNames DEF TurnSaid, TurnTypes
<1>2. /\ Asked' = Asked + 1 /\ Answered' = Answered /\ Answer' = Answer
      /\ (Known => Known')
  BY <1>1 DEF Asked, Answered, Answer, Known, Cut, ClientBuffer
<1>3. Asks /\ Quiet'
  BY QuietKept DEF InTurn, Asks
<1>4. Asked = Answered
  BY <1>3 DEF Asks
<1>5. Asks'
  BY <1>1, <1>2, <1>3, <1>4 DEF Asks, Hearing
<1> QED BY <1>1, <1>5 DEF InTurn

LEMMA ClientSends ==
    ASSUME TurnSaid, TurnPlaces, InTurn, NEW next,
           pc["client"] = "send", pc' = [pc EXCEPT !["client"] = next],
           UNCHANGED <<system, said>>,
           next = IF system \notin {"first", "win_turn"} /\ var["client"] = stop
                  THEN "end" ELSE "recv",
           Quiet /\ var["client"] = word =>
              \/ Pending("server", word)' /\ Pending("client", <<>>)'
              \/ Lossy /\ PendingKept
    PROVE  InTurn'
<1>1. pc'["client"] = next /\ pc'["server"] = pc["server"]
  BY TurnNames DEF TurnSaid
<1>2. Asked' = Asked /\ Answered' = Answered /\ Lossy' = Lossy
  BY DEF Asked, Answered, Lossy
<1>3. Asks
  BY DEF InTurn
<1>4. CASE next = "end"
  BY <1>1, <1>4 DEF InTurn
<1>5. CASE next = "recv" /\ Pending("server", word)' /\ Pending("client", <<>>)'
  <2>1. IsAsked'
    BY <1>1, <1>2, <1>3, <1>5 DEF IsAsked, Asks, Hearing
  <2> QED BY <1>1, <1>5, <2>1 DEF InTurn
<1>6. CASE next = "recv" /\ Lossy /\ PendingKept
  <2>1. Quiet'
    BY <1>3, <1>6, QuietKept DEF Asks
  <2>2. pc["server"] = "recv"
    BY <1>3, <1>6 DEF Asks, Hearing, Lossy, TurnPlaces, UDPTalks
  <2>3. Lost'
    BY <1>1, <1>2, <1>6, <2>1, <2>2 DEF Lost
  <2> QED BY <1>1, <1>6, <2>3 DEF InTurn
<1>7. next = "recv" => var["client"] = word /\ Quiet
  BY <1>3 DEF Asks
<1> QED BY <1>4, <1>5, <1>6, <1>7

(* The client reads the answer, and looks at it.                           *)
LEMMA ClientHears ==
    ASSUME TurnSaid, TurnPlaces, InTurn, NEW next,
           pc["client"] = "recv", pc' = [pc EXCEPT !["client"] = next],
           UNCHANGED <<system, said>>,
           next = IF system = "first" THEN "close"
                  ELSE IF system = "win_turn" THEN "type" ELSE "heard",
           ~Pending("client", <<>>),
           Pending("client", Reply) =>
              /\ buf'["client"] = Cut(Answer)
              /\ system # "first" => Pending("client", <<>>)',
           Pending("server", <<>>) => Pending("server", <<>>)'
    PROVE  InTurn'
<1>1. pc'["client"] = next /\ pc'["server"] = pc["server"]
  BY TurnNames DEF TurnSaid
<1>2. /\ Asked' = Asked /\ Answered' = Answered /\ Answer' = Answer
      /\ Rests' = Rests /\ Cut(Answer)' = Cut(Answer)
  BY DEF Asked, Answered, Answer, Rests, Cut, ClientBuffer
<1>3. HasAnswered
  BY DEF InTurn, IsAsked, Answers, Lost, Quiet
<1>4. Known' /\ (system # "first" => Quiet')
  BY <1>2, <1>3 DEF HasAnswered, Known, Quiet
<1>5. CASE system = "win_turn"
  <2>1. pc["server"] = "recv"
    BY <1>3, <1>5 DEF HasAnswered, Rests
  <2>2. Asks'
    BY <1>1, <1>2, <1>3, <1>4, <1>5, <2>1 DEF Asks, HasAnswered, Hearing
  <2> QED BY <1>1, <1>5, <2>2 DEF InTurn
<1>6. CASE system # "win_turn"
  <2>1. Learnt'
    BY <1>1, <1>2, <1>3, <1>4, <1>6 DEF Learnt, HasAnswered
  <2> QED BY <1>1, <1>6, <2>1 DEF InTurn
<1> QED BY <1>5, <1>6

LEMMA ClientGoesOn ==
    ASSUME TurnSaid, TurnPlaces, InTurn, NEW next, PendingKept,
           pc["client"] = "heard", pc' = [pc EXCEPT !["client"] = next],
           next = IF Hears("client", stop) THEN "end" ELSE "type",
           UNCHANGED <<system, said, buf>>
    PROVE  InTurn'
<1>1. pc'["client"] = next /\ pc'["server"] = pc["server"]
  BY TurnNames DEF TurnSaid
<1>2. /\ Asked' = Asked /\ Answered' = Answered /\ Answer' = Answer /\ (Known => Known')
  BY DEF Asked, Answered, Answer, Known, Cut, ClientBuffer
<1>3. Learnt /\ system \notin {"first", "win_turn"}
  BY DEF InTurn, TurnPlaces
<1>4. CASE Hears("client", stop)
  BY <1>1, <1>4 DEF InTurn
<1>5. CASE ~Hears("client", stop)
  <2>1. buf["client"] = Cut(Answer) /\ ClientBuffer = 2
    BY <1>3 DEF Learnt, Known, ClientBuffer
  <2>2. Answer # stop
    BY <1>5, <2>1 DEF Cut, Hears, stop
  <2>3. pc["server"] = "recv"
    BY <1>3, <2>2 DEF Learnt, Rests
  <2>4. Asks'
    BY <1>1, <1>2, <1>3, <1>5, <2>3, QuietKept DEF Asks, Learnt, Hearing
  <2> QED BY <1>1, <1>5, <2>4 DEF InTurn
<1> QED BY <1>4, <1>5

-----------------------------------------------------------------------------
(* What the calls do to the connection of two programs that take turns.    *)

In(x) == conn[Link].in[EndOf(x)]
Active(x) == pc[x] \notin {"connect", "accept", "done"}

LEMMA WireIn ==
    ASSUME TurnTypes, NEW e \in Ends, NEW v \in Seq(Segments), NEW i \in 1 .. MaxConns,
           conn' = InChanged(i, e, v)
    PROVE  /\ DOMAIN conn' = 1 .. MaxConns
           /\ \A j \in 1 .. MaxConns :
                Wire(conn'[j]) /\ conn'[j].by = conn[j].by /\ conn'[j].rst = conn[j].rst
           /\ conn'[i].in[e] = v /\ conn'[i].in[Other(e)] = conn[i].in[Other(e)]
<1>1. /\ DOMAIN conn' = 1 .. MaxConns /\ \A j \in 1 .. MaxConns : Wire(conn[j])
      /\ \A j \in (1 .. MaxConns) \ {i} : conn'[j] = conn[j]
      /\ conn'[i] = [conn[i] EXCEPT !.in[e] = v]
  BY DEF TurnTypes, InChanged
<1>2. /\ DOMAIN conn[i] = {"in", "by", "rst"} /\ DOMAIN conn[i].by = Ends
      /\ conn[i].in \in [Ends -> Seq(Segments)]
  BY <1>1 DEF Wire, Shape
<1>3. /\ conn'[i].in = [conn[i].in EXCEPT ![e] = v]
      /\ conn'[i].by = conn[i].by /\ conn'[i].rst = conn[i].rst
      /\ DOMAIN conn'[i] = {"in", "by", "rst"}
  BY <1>1, <1>2
<1>4. Wire(conn'[i])
  BY <1>2, <1>3 DEF Wire, Shape
<1>5. Other(e) # e /\ Other(e) \in Ends
  BY DEF Other, Ends
<1>6. conn'[i].in[e] = v /\ conn'[i].in[Other(e)] = conn[i].in[Other(e)]
  BY <1>2, <1>3, <1>5
<1>7. \A j \in 1 .. MaxConns :
        Wire(conn'[j]) /\ conn'[j].by = conn[j].by /\ conn'[j].rst = conn[j].rst
  <2>1. SUFFICES ASSUME NEW j \in 1 .. MaxConns
        PROVE  Wire(conn'[j]) /\ conn'[j].by = conn[j].by /\ conn'[j].rst = conn[j].rst
    OBVIOUS
  <2>2. CASE j = i
    BY <1>3, <1>4, <2>2
  <2>3. CASE j # i
    BY <1>1, <2>3
  <2> QED BY <2>2, <2>3
<1> QED BY <1>1, <1>6, <1>7

LEMMA Connected ==
    ASSUME TurnTypes, Wired, NEW x \in Sides, Active(x)
    PROVE  /\ pc["client"] # "connect" /\ Link \in 1 .. MaxConns
           /\ pc["client"] # "done" => /\ Open(x) /\ Arrived(x) = In(x)
                                       /\ fd[x].conn = Link /\ fd[x].end = EndOf(x)
           /\ pc["client"] # "done" /\ pc["server"] # "done" => ~PeerClosed(x) /\ ~Reset(x)
<1>1. pc["client"] # "connect"
  BY TurnNames DEF Wired, Active
<1>2. Link \in 1 .. MaxConns /\ Held("client")
  BY <1>1 DEF Wired, Held
<1>3. Held(x)
  BY <1>1, <1>2, TurnNames DEF Wired, Active
<1>4. Open(x) /\ Arrived(x) = In(x) /\ fd[x].conn = Link /\ fd[x].end = EndOf(x)
  BY <1>2, <1>3, TurnNames DEF Held, Open, Mine, Arrived, In, TurnTypes
<1>5. ASSUME pc["client"] # "done", pc["server"] # "done"
      PROVE  ~PeerClosed(x) /\ ~Reset(x)
  <2>1. conn[Link].rst = {}
    BY <1>1, <1>5 DEF Wired
  <2>2. conn[Link].by["c"] # {} /\ conn[Link].by["s"] # {}
    BY <1>1, <1>2, <1>5, TurnNames DEF Wired, Held
  <2> QED BY <1>4, <2>1, <2>2, TurnNames DEF PeerClosed, Reset, Mine
<1> QED BY <1>1, <1>2, <1>4, <1>5

(* A side goes on where it was, and data comes or goes.                    *)
LEMMA WiredOn ==
    ASSUME TurnTypes, Wired, TurnSaid, NEW x \in Sides, Active(x), NEW next,
           next \notin {"connect", "accept", "done"},
           pc' = [pc EXCEPT ![x] = next], UNCHANGED <<task, fd, listening, backlog>>,
           DOMAIN conn' = 1 .. MaxConns,
           \A j \in 1 .. MaxConns :
             conn'[j].by = conn[j].by /\ (pc["server"] # "done" => conn'[j].rst = conn[j].rst),
           pc["server"] = "accept" => conn'[Link].in["c"] = conn[Link].in["c"]
    PROVE  Wired'
<1>1. pc'[x] = next /\ \A y \in Sides \ {x} : pc'[y] = pc[y]
  BY TurnNames DEF TurnSaid
<1>2. /\ pc["client"] # "connect" /\ pc'["client"] # "connect"
      /\ pc'["server"] = "accept" => pc["server"] = "accept"
      /\ pc'["server"] = "done" <=> pc["server"] = "done"
  BY <1>1, Connected, TurnNames DEF Active
<1>3. Link' = Link /\ Link \in 1 .. MaxConns
  BY Connected DEF Link
<1>4. \A y \in Sides : Held(y) => Held(y)'
  BY <1>3 DEF Held
<1>5. pc'["server"] \notin {"accept", "done"} => Held("server")'
  <2>1. CASE x = "server"
    BY <1>2, <1>4, <2>1, TurnNames DEF Active, Wired
  <2>2. CASE x = "client"
    BY <1>1, <1>2, <1>4, <2>2, TurnNames DEF Wired
  <2> QED BY <2>1, <2>2, TurnNames
<1> QED BY <1>2, <1>3, <1>4, <1>5, TurnNames DEF Wired

LEMMA Accepting ==
    ASSUME TurnTypes, Wired, TurnSaid, Accept("server", "accept", "recv")
    PROVE  /\ Wired' /\ pc["client"] # "connect" /\ Link' = Link
           /\ DOMAIN conn' = 1 .. MaxConns /\ \A j \in 1 .. MaxConns : Wire(conn'[j])
           /\ conn'[Link].in = conn[Link].in
           /\ pc["server"] = "accept" /\ pc' = [pc EXCEPT !["server"] = "recv"]
           /\ DOMAIN fd' = Procs
           /\ UNCHANGED <<system, task, peer, buf, var, mail, said>>
<1>1. /\ pc["server"] = "accept" /\ pc' = [pc EXCEPT !["server"] = "recv"]
      /\ backlog # <<>> /\ backlog' = Tail(backlog)
      /\ fd' = [fd EXCEPT !["server"] = [conn |-> Head(backlog), end |-> "s"]]
      /\ conn' = [conn EXCEPT ![Head(backlog)].by["s"] = {task["server"]}]
      /\ UNCHANGED <<system, task, peer, buf, var, listening, mail, said>>
  BY DEF Accept, At, Goto, screen
<1>2. /\ pc["client"] # "connect" /\ backlog = <<Link>> /\ Link \in 1 .. MaxConns
      /\ task["server"] = "server" /\ Held("client") /\ conn[Link].rst = {}
  BY <1>1, TurnNames DEF Wired, Held, TurnTypes
<1>3. Head(backlog) = Link
  BY <1>2
<1>4. /\ DOMAIN conn' = 1 .. MaxConns
      /\ \A j \in 1 .. MaxConns : Wire(conn'[j])
      /\ conn'[Link].by["s"] = {"server"} /\ conn'[Link].by["c"] = conn[Link].by["c"]
      /\ conn'[Link].rst = conn[Link].rst /\ conn'[Link].in = conn[Link].in
  BY <1>1, <1>2, <1>3 DEF TurnTypes, Wire, Shape, Ends
<1>5. /\ pc'["server"] = "recv" /\ pc'["client"] = pc["client"]
      /\ fd'["client"] = fd["client"] /\ DOMAIN fd' = Procs
      /\ fd'["server"].conn = Link /\ fd'["server"].end = "s"
  BY <1>1, <1>3, TurnNames DEF TurnSaid, TurnTypes
<1>6. Link' = Link
  BY <1>5 DEF Link
<1>7. Held("client")' /\ Held("server")'
  BY <1>2, <1>4, <1>5, <1>6, TurnNames DEF Held
<1>8. Wired'
  BY <1>2, <1>4, <1>5, <1>6, <1>7 DEF Wired
<1> QED BY <1>1, <1>2, <1>4, <1>5, <1>6, <1>8

LEMMA Connecting ==
    ASSUME TurnTypes, Wired, TurnSaid, NEW refused, Connect("client", "connect", "type", refused)
    PROVE  /\ Wired' /\ pc["client"] = "connect" /\ pc["server"] = "accept"
           /\ DOMAIN conn' = 1 .. MaxConns /\ \A j \in 1 .. MaxConns : Wire(conn'[j])
           /\ \A e \in Ends : conn'[Link'].in[e] = <<>>
           /\ pc' = [pc EXCEPT !["client"] = "type"]
           /\ DOMAIN fd' = Procs
           /\ UNCHANGED <<system, task, peer, buf, var, mail, said>>
<1>1. pc["client"] = "connect" /\ pc["server"] = "accept" /\ backlog = <<>>
      /\ "server" \in listening
  BY DEF Connect, At, Wired
<1>2. listening # {}
  BY <1>1
<1>3. PICK i \in 1 .. MaxConns :
        /\ conn[i] = NoConn
        /\ conn' = [conn EXCEPT ![i].by = [c |-> {task["client"]}, s |-> {"kernel"}]]
        /\ backlog' = Append(backlog, i)
        /\ fd' = [fd EXCEPT !["client"] = [conn |-> i, end |-> "c"]]
        /\ pc' = [pc EXCEPT !["client"] = "type"]
        /\ UNCHANGED <<system, task, peer, buf, var, listening, mail, said>>
  BY <1>2 DEF Connect, Goto, screen
<1>4. task["client"] = "client"
  BY TurnNames DEF TurnTypes
<1>5. /\ DOMAIN conn' = 1 .. MaxConns
      /\ \A j \in 1 .. MaxConns : Wire(conn'[j])
      /\ conn'[i].by["s"] = {"kernel"} /\ conn'[i].by["c"] = {"client"}
      /\ conn'[i].rst = {} /\ \A e \in Ends : conn'[i].in[e] = <<>>
  <2>1. /\ DOMAIN conn' = 1 .. MaxConns /\ \A j \in 1 .. MaxConns : Wire(conn[j])
        /\ \A j \in (1 .. MaxConns) \ {i} : conn'[j] = conn[j]
        /\ conn'[i] = [NoConn EXCEPT !.by = [c |-> {"client"}, s |-> {"kernel"}]]
    BY <1>3, <1>4 DEF TurnTypes
  <2>2. conn'[i] = [in |-> [e \in Ends |-> <<>>], by |-> [c |-> {"client"}, s |-> {"kernel"}],
                    rst |-> {}]
    BY <2>1 DEF NoConn
  <2>3. Wire(conn'[i])
    <3>1. <<>> \in Seq(Segments)
      OBVIOUS
    <3>2. conn'[i].in = [e \in Ends |-> <<>>] /\ DOMAIN conn'[i].by = {"c", "s"}
          /\ DOMAIN conn'[i] = {"in", "by", "rst"}
      BY <2>2
    <3>3. conn'[i].in \in [Ends -> Seq(Segments)]
      BY <3>1, <3>2
    <3>4. Shape(conn'[i])
      BY <3>2 DEF Shape, Ends
    <3> QED BY <3>3, <3>4 DEF Wire
  <2>4. conn'[i].by["s"] = {"kernel"} /\ conn'[i].by["c"] = {"client"} /\ conn'[i].rst = {}
    BY <2>2
  <2>5. \A e \in Ends : conn'[i].in[e] = <<>>
    BY <2>2
  <2>6. ASSUME NEW j \in 1 .. MaxConns PROVE Wire(conn'[j])
    <3>1. CASE j = i
      BY <2>3, <3>1
    <3>2. CASE j # i
      BY <2>1, <3>2
    <3> QED BY <3>1, <3>2
  <2> QED BY <2>1, <2>4, <2>5, <2>6
<1>6. /\ pc'["client"] = "type" /\ pc'["server"] = "accept" /\ DOMAIN fd' = Procs
      /\ fd'["client"].conn = i /\ fd'["client"].end = "c" /\ backlog' = <<i>>
  BY <1>1, <1>3, TurnNames DEF TurnSaid, TurnTypes
<1>7. Link' = i
  BY <1>6 DEF Link
<1>8. Wired'
  BY <1>1, <1>3, <1>5, <1>6, <1>7, TurnNames DEF Wired, Held
<1> QED BY <1>1, <1>3, <1>5, <1>6, <1>7, <1>8

LEMMA DropWire ==
    ASSUME NEW k, Wire(k), NEW e \in Ends, NEW T
    PROVE  /\ Wire(Drop(k, e, T)) /\ Drop(k, e, T).in = k.in
           /\ Drop(k, e, T).by[e] = k.by[e] \ T
           /\ \A d \in Ends \ {e} : Drop(k, e, T).by[d] = k.by[d]
<1>1. Shape(k) /\ k.in \in [Ends -> Seq(Segments)]
  BY DEF Wire
<1>2. Drop(k, e, T).in = k.in
  BY <1>1 DEF Drop, Shape
<1>3. /\ Shape(Drop(k, e, T)) /\ Drop(k, e, T).by[e] = k.by[e] \ T
      /\ \A d \in Ends \ {e} : Drop(k, e, T).by[d] = k.by[d]
  BY <1>1, DropShape
<1> QED BY <1>1, <1>2, <1>3 DEF Wire

(* The server ends.                                                        *)
LEMMA Ending ==
    ASSUME TurnTypes, TurnSaid, NEW at, at \notin {"none", "done"}, Exit("server", at)
    PROVE  /\ pc["server"] = at /\ pc' = [pc EXCEPT !["server"] = "done"]
           /\ DOMAIN conn' = 1 .. MaxConns
           /\ \A j \in 1 .. MaxConns : /\ Wire(conn'[j]) /\ conn'[j].in = conn[j].in
                                       /\ conn'[j].by["c"] = conn[j].by["c"] \ {"server"}
           /\ fd'["client"] = fd["client"] /\ buf'["client"] = buf["client"]
           /\ var'["client"] = var["client"]
           /\ DOMAIN fd' = Procs /\ DOMAIN buf' = Procs /\ DOMAIN var' = Procs
           /\ DOMAIN peer' = Procs
           /\ UNCHANGED <<system, task, mail, said>>
<1>1. /\ pc["server"] = at /\ pc' = Ended({"server"}) /\ Closed({"server"})
      /\ buf' = Forgotten({"server"}, buf) /\ var' = Forgotten({"server"}, var)
      /\ fd' = [p \in Procs |-> IF task[p] \in {"server"} /\ fd[p].end = "s" THEN NoFd ELSE fd[p]]
      /\ peer' = [p \in Procs |-> IF task[p] \in {"server"} THEN p ELSE peer[p]]
      /\ UNCHANGED <<system, task, mail, said>>
  BY TurnNames DEF Exit, At, Kill, TurnTypes, screen
<1>2. task = [p \in Procs |-> p] /\ DOMAIN pc = Procs
  BY DEF TurnTypes, TurnSaid
<1>3. pc' = [pc EXCEPT !["server"] = "done"]
  <2>1. pc' = [p \in Procs |-> IF p = "server" THEN "done" ELSE pc[p]]
    BY <1>1, <1>2 DEF Ended
  <2> QED BY <1>2, <2>1, TurnNames
<1>4. /\ fd'["client"] = fd["client"] /\ buf'["client"] = buf["client"]
      /\ var'["client"] = var["client"]
      /\ DOMAIN fd' = Procs /\ DOMAIN buf' = Procs /\ DOMAIN var' = Procs
      /\ DOMAIN peer' = Procs
  BY <1>1, <1>2, TurnNames DEF Forgotten
<1> DEFINE T == {"server"}
           refused == IF listening \subseteq T THEN T \cup {"kernel"} ELSE T
           first(j) == Drop(conn[j], "c", T)
<1>5. conn' = [j \in 1 .. MaxConns |-> Drop(first(j), "s", refused)]
  BY <1>1 DEF Closed, TurnTypes
<1>6. ASSUME NEW j \in 1 .. MaxConns
      PROVE  /\ Wire(conn'[j]) /\ conn'[j].in = conn[j].in
             /\ conn'[j].by["c"] = conn[j].by["c"] \ T
  <2>1. Wire(first(j)) /\ first(j).in = conn[j].in /\ first(j).by["c"] = conn[j].by["c"] \ T
    BY DropWire, TurnNames DEF TurnTypes
  <2>2. conn'[j] = Drop(first(j), "s", refused)
    BY <1>5
  <2> HIDE DEF first, refused
  <2>3. /\ Wire(conn'[j]) /\ conn'[j].in = first(j).in
        /\ conn'[j].by["c"] = first(j).by["c"]
    BY <2>1, <2>2, DropWire, TurnNames
  <2> QED BY <2>1, <2>3
<1>7. DOMAIN conn' = 1 .. MaxConns
  BY <1>5
<1> HIDE DEF T
<1> QED BY <1>1, <1>3, <1>4, <1>6, <1>7 DEF T

LEMMA WiredEnd ==
    ASSUME TurnTypes, TurnSaid, Wired, pc["client"] \notin {"connect", "done"},
           Link' = Link, pc' = [pc EXCEPT !["server"] = "done"],
           fd'["client"] = fd["client"],
           \A j \in 1 .. MaxConns : conn'[j].by["c"] = conn[j].by["c"] \ {"server"}
    PROVE  Wired'
<1>1. pc'["server"] = "done" /\ pc'["client"] = pc["client"]
  BY TurnNames DEF TurnSaid
<1>2. Held("client")
  BY DEF Wired
<1>3. Held("client")'
  BY <1>2, TurnNames DEF Held
<1> QED BY <1>1, <1>3 DEF Wired

(* A read takes what waits from the front.                                 *)
LEMMA Reading ==
    ASSUME TurnTypes, Wired, TurnSaid, NEW x \in Sides, pc["client"] # "done",
           NEW n, NEW next, NEW zero, NEW failed,
           Receive(x, "recv", n, TRUE, next, zero, failed),
           pc["server"] # "done" \/ In(x) # <<>>
    PROVE  /\ pc[x] = "recv" /\ pc' = [pc EXCEPT ![x] = next]
           /\ UNCHANGED <<system, task, fd, peer, var, backlog, listening, mail, said>>
           /\ \E k \in 1 .. Len(In(x)) :
                /\ k <= n /\ buf' = [buf EXCEPT ![x] = SubSeq(In(x), 1, k)]
                /\ conn' = InChanged(Link, EndOf(x), SubSeq(In(x), k + 1, Len(In(x))))
<1>1. pc[x] = "recv" /\ UNCHANGED <<task, fd, peer, var, backlog, listening, mail, said>>
  BY DEF Receive, At
<1>2. /\ Open(x) /\ Arrived(x) = In(x) /\ fd[x].conn = Link /\ fd[x].end = EndOf(x)
      /\ pc["server"] # "done" => ~PeerClosed(x) /\ ~Reset(x)
  BY <1>1, Connected DEF Active
<1>3. Read(x, n, TRUE) /\ Goto(x, next)
  BY <1>2 DEF Receive
<1>4. PICK k \in 1 .. Len(Arrived(x)) :
        /\ k <= n /\ buf' = [buf EXCEPT ![x] = SubSeq(Arrived(x), 1, k)]
        /\ conn' = [conn EXCEPT ![fd[x].conn].in[fd[x].end] = SubSeq(@, k + 1, Len(@))]
  BY <1>3 DEF Read
<1>5. conn' = InChanged(Link, EndOf(x), SubSeq(In(x), k + 1, Len(In(x))))
  BY <1>2, <1>4 DEF InChanged, In
<1> QED BY <1>1, <1>2, <1>3, <1>4, <1>5 DEF Goto

(* A message that is sent comes after what waits already.                  *)
LEMMA Sending ==
    ASSUME TurnTypes, Wired, TurnSaid, NEW x \in Sides,
           pc["client"] # "done", pc["server"] # "done",
           NEW next, NEW m, m # <<>>,
           Send(x, "send", m, next) \/ SendWindows(x, "send", m, next)
    PROVE  /\ pc[x] = "send" /\ pc' = [pc EXCEPT ![x] = next]
           /\ conn' = InChanged(Link, Other(EndOf(x)), In(PeerOf(x)) \o m)
           /\ UNCHANGED <<system, task, fd, peer, buf, var, backlog, listening, mail, said>>
<1>1. pc[x] = "send"
  BY DEF Send, SendWindows, SendOr, At
<1>2. /\ Open(x) /\ fd[x].conn = Link /\ fd[x].end = EndOf(x) /\ ~PeerClosed(x) /\ ~Reset(x)
  BY <1>1, Connected DEF Active
<1>3. /\ conn' = [conn EXCEPT ![fd[x].conn].in[Other(fd[x].end)] = @ \o m]
      /\ Goto(x, next)
      /\ UNCHANGED <<locals, backlog, listening, mail, disk, screen>>
  BY <1>1, <1>2 DEF Send, SendWindows, SendOr
<1>4. Other(EndOf(x)) = EndOf(PeerOf(x))
  BY TurnNames
<1>5. conn' = InChanged(Link, Other(EndOf(x)), In(PeerOf(x)) \o m)
  BY <1>2, <1>3, <1>4 DEF InChanged, In
<1> QED BY <1>1, <1>3, <1>5 DEF Goto, locals, screen

-----------------------------------------------------------------------------
(* The steps of the programs keep what holds of their turns.               *)

(* Lines are only added to what was typed.                                 *)
LEMMA LinesAdded ==
    ASSUME NEW S, DOMAIN said = Procs, \A y \in Sides : said[y] \in Seq(S),
           NEW x \in Sides, NEW m \in S,
           said' = said \/ said' = [said EXCEPT ![x] = Append(@, m)]
    PROVE  /\ DOMAIN said' = Procs /\ \A y \in Sides : said'[y] \in Seq(S)
           /\ \A y \in Sides : \A n : Typed(y, n) => Typed(y, n)'
           /\ Left => Left'
           /\ said' # said /\ m = <<"^C">> => Left'
<1>1. CASE said' = said
  BY <1>1 DEF Left, Typed
<1>2. CASE said' = [said EXCEPT ![x] = Append(@, m)]
  <2>1. /\ said[x] \in Seq(S) /\ said'[x] = Append(said[x], m)
        /\ \A y \in Sides \ {x} : said'[y] = said[y]
        /\ DOMAIN said' = Procs
    BY <1>2, TurnNames
  <2>2. /\ said'[x] \in Seq(S)
        /\ \A k \in DOMAIN said[x] : k \in DOMAIN said'[x] /\ said'[x][k] = said[x][k]
        /\ Len(said[x]) + 1 \in DOMAIN said'[x] /\ said'[x][Len(said[x]) + 1] = m
    BY <2>1
  <2>3. \A y \in Sides : \A k \in DOMAIN said[y] :
          k \in DOMAIN said'[y] /\ said'[y][k] = said[y][k]
    BY <2>1, <2>2
  <2>4. \A y \in Sides : \A n : Typed(y, n) => Typed(y, n)'
    BY <2>3 DEF Typed
  <2>5. Left => Left'
    BY <2>4, TurnNames DEF Left
  <2>6. m = <<"^C">> => Left'
    <3>1. SUFFICES ASSUME m = <<"^C">> PROVE Typed(x, <<"^C">>)'
      BY TurnNames DEF Left
    <3> QED BY <2>2, <3>1 DEF Typed
  <2> QED BY <2>1, <2>2, <2>4, <2>5, <2>6
<1> QED BY <1>1, <1>2

LEMMA TypedGrows ==
    ASSUME TurnSaid, NEW x \in Sides, NEW m \in TurnLines, DOMAIN pc' = Procs,
           UNCHANGED system,
           said' = said \/ said' = [said EXCEPT ![x] = Append(@, m)]
    PROVE  /\ TurnSaid' /\ (Left => Left') /\ (OverlongWord => OverlongWord')
           /\ said' # said /\ m = <<"^C">> => Left'
<1>1. DOMAIN said = Procs /\ \A y \in Sides : said[y] \in Seq(TurnLines)
  BY DEF TurnSaid
<1>2. /\ DOMAIN said' = Procs /\ \A y \in Sides : said'[y] \in Seq(TurnLines)
      /\ \A y \in Sides : \A n : Typed(y, n) => Typed(y, n)'
      /\ Left => Left'
      /\ said' # said /\ m = <<"^C">> => Left'
  BY <1>1, LinesAdded
<1>3. OverlongWord => OverlongWord'
  BY <1>2, TurnNames DEF OverlongWord
<1> QED BY <1>2, <1>3 DEF TurnSaid

LEMMA PendingSame ==
    ASSUME UNCHANGED <<system, mail>>, Link' = Link, conn'[Link].in = conn[Link].in,
           pc["client"] # "connect"
    PROVE  PendingKept
  BY DEF PendingKept, Pending

LEMMA NowConnected ==
    ASSUME system \in Talks, TurnOK, NEW x \in Sides, Active(x)
    PROVE  pc["client"] # "connect" /\ (x = "server" => pc["server"] # "accept")
<1>1. CASE system \in TCPTalks
  BY <1>1, Connected DEF TurnOK, Active
<1>2. CASE system \in UDPTalks
  BY <1>2 DEF TurnOK, TurnPlaces, Active
<1> QED BY <1>1, <1>2 DEF Talks, Active

LEMMA TypeTurn ==
    ASSUME system \in Talks, TurnSaid, TurnOK, ~TurnsOver, NEW x \in Sides,
           NEW inputs, inputs \subseteq {word, stop, long},
           x = "client" => /\ inputs \subseteq {word, stop}
                           /\ system = "first" => inputs \subseteq {word},
           system = "win_turn" => inputs \subseteq {word},
           Type(x, "type", inputs, "send")
    PROVE  TurnOK'
<1>1. PICK m \in inputs : /\ var' = [var EXCEPT ![x] = m]
                          /\ said' = [said EXCEPT ![x] = Append(@, m)]
  BY DEF Type
<1>2. /\ pc[x] = "type" /\ pc' = [pc EXCEPT ![x] = "send"]
      /\ UNCHANGED <<system, task, fd, peer, buf, conn, backlog, listening, mail>>
  BY DEF Type, At, Goto, net
<1>3. pc'[x] = "send" /\ \A y \in Sides \ {x} : pc'[y] = pc[y]
  BY <1>2, TurnNames DEF TurnSaid
<1>4. pc["client"] # "connect"
  BY <1>2, NowConnected DEF Active
<1>5. TurnTypes' /\ TurnPlaces'
  <2>1. /\ DOMAIN var' = Procs /\ var'[x] = m /\ \A y \in Sides \ {x} : var'[y] = var[y]
    BY <1>1, TurnNames DEF TurnOK, TurnTypes
  <2>2. TurnTypes'
    BY <1>2, <1>3, <2>1 DEF TurnOK, TurnTypes
  <2>3. TurnPlaces'
    BY <1>2, <1>3, <1>4, TurnNames DEF TurnOK, TurnPlaces
  <2> QED BY <2>2, <2>3
<1>6. ASSUME system \in TCPTalks PROVE Wired' /\ Moving'
  <2>1. Wired'
    BY <1>2, <1>6, WiredOn DEF TurnOK, TurnTypes, Active
  <2>2. Moving'
    BY <1>3, TurnNames DEF Moving, Hearing
  <2> QED BY <2>1, <2>2
<1>7. m \in TurnLines
  BY DEF TurnLines
<1>8. OverlongWord => OverlongWord'
  BY <1>1, <1>2, <1>7, TypedGrows DEF TurnSaid
<1>9. PendingKept
  BY <1>2, <1>4, PendingSame DEF Link
<1>10. InTurn => InTurn' \/ OverlongWord'
  <2>1. CASE x = "server"
    <3>1. CASE system = "talk" /\ m = long
      <4>1. said'["server"] = Append(said["server"], long) /\ said["server"] \in Seq(TurnLines)
        BY <1>1, <2>1, <3>1, TurnNames DEF TurnSaid
      <4>2. /\ Len(said["server"]) + 1 \in DOMAIN said'["server"]
            /\ said'["server"][Len(said["server"]) + 1] = long
        BY <4>1
      <4> QED BY <1>2, <3>1, <4>2 DEF OverlongWord, Typed
    <3>2. CASE system \notin {"talk", "win_turn"} \/ m # long
      <4>1. system \in {"talk", "win_turn"} => Len(m) = 1
        BY <3>2 DEF word, stop
      <4> QED BY <1>1, <1>2, <1>4, <1>7, <1>9, <2>1, <4>1, ServerTypes DEF TurnOK
    <3>3. system = "win_turn" => m # long
      BY <1>1, TurnNames
    <3> QED BY <3>1, <3>2, <3>3
  <2>2. CASE x = "client"
    BY <1>1, <1>2, <1>7, <1>9, <2>2, ClientTypes DEF TurnOK
  <2> QED BY <2>1, <2>2, TurnNames
<1> QED BY <1>2, <1>5, <1>6, <1>8, <1>10 DEF TurnOK

LEMMA JumpTurn ==
    ASSUME system \in Talks, TurnSaid, TurnOK, ~TurnsOver, NEW x \in Sides,
           Jump(x, "heard", IF Hears(x, stop) THEN "end" ELSE "type")
    PROVE  TurnOK'
<1> DEFINE next == IF Hears(x, stop) THEN "end" ELSE "type"
<1>1. /\ pc[x] = "heard" /\ pc' = [pc EXCEPT ![x] = next]
      /\ UNCHANGED <<system, task, fd, peer, buf, var, conn, backlog, listening, mail, said>>
  BY DEF Jump, At, Goto, net, locals, screen
<1>2. next \in {"end", "type"}
  OBVIOUS
<1>3. pc'[x] = next /\ \A y \in Sides \ {x} : pc'[y] = pc[y]
  BY <1>1, TurnNames DEF TurnSaid
<1>4. pc["client"] # "connect"
  BY <1>1, NowConnected DEF Active
<1>5. PendingKept
  BY <1>1, <1>4, PendingSame DEF Link
<1>6. InTurn => InTurn'
  <2>1. CASE x = "server"
    BY <1>1, <1>4, <1>5, <2>1, ServerGoesOn DEF TurnOK
  <2>2. CASE x = "client"
    BY <1>1, <1>5, <2>2, ClientGoesOn DEF TurnOK
  <2> QED BY <2>1, <2>2, TurnNames
<1> HIDE DEF next
<1>7. TurnTypes' /\ TurnPlaces'
  <2>1. TurnTypes'
    BY <1>1, <1>2, <1>3 DEF TurnOK, TurnTypes
  <2>2. TurnPlaces'
    BY <1>1, <1>2, <1>3, <1>4, TurnNames DEF TurnOK, TurnPlaces
  <2> QED BY <2>1, <2>2
<1>8. ASSUME system \in TCPTalks PROVE Wired' /\ Moving'
  <2>1. Wired'
    BY <1>1, <1>2, <1>8, WiredOn DEF TurnOK, TurnTypes, Active
  <2>2. Moving'
    BY <1>2, <1>3, TurnNames DEF Moving, Hearing
  <2> QED BY <2>1, <2>2
<1>9. OverlongWord => OverlongWord'
  BY <1>1 DEF OverlongWord, Typed
<1> QED BY <1>1, <1>6, <1>7, <1>8, <1>9 DEF TurnOK

LEMMA AcceptTurn ==
    ASSUME system \in TCPTalks, TurnSaid, TurnOK, ~TurnsOver,
           Accept("server", "accept", "recv")
    PROVE  TurnOK'
<1>1. /\ Wired' /\ pc["client"] # "connect" /\ Link' = Link
      /\ DOMAIN conn' = 1 .. MaxConns /\ \A j \in 1 .. MaxConns : Wire(conn'[j])
      /\ conn'[Link].in = conn[Link].in
      /\ pc["server"] = "accept" /\ pc' = [pc EXCEPT !["server"] = "recv"]
      /\ DOMAIN fd' = Procs
      /\ UNCHANGED <<system, task, peer, buf, var, mail, said>>
  BY Accepting DEF TurnOK
<1>2. pc'["server"] = "recv" /\ pc'["client"] = pc["client"]
  BY <1>1, TurnNames DEF TurnSaid
<1>3. TurnTypes'
  BY <1>1, <1>2, TurnNames DEF TurnOK, TurnTypes
<1>4. TurnPlaces'
  BY <1>1, <1>2 DEF TurnOK, TurnPlaces
<1>5. Moving'
  BY <1>1, <1>2 DEF TurnOK, Moving, Hearing
<1>6. PendingKept
  BY <1>1, PendingSame
<1>7. InTurn => InTurn'
  BY <1>1, <1>6, ServerGoesOn DEF TurnOK
<1>8. OverlongWord => OverlongWord'
  BY <1>1 DEF OverlongWord, Typed
<1> QED BY <1>1, <1>3, <1>4, <1>5, <1>7, <1>8 DEF TurnOK

LEMMA ConnectTurn ==
    ASSUME system \in TCPTalks, TurnSaid, TurnOK, NEW refused,
           Connect("client", "connect", "type", refused)
    PROVE  TurnOK'
<1>1. /\ Wired' /\ pc["client"] = "connect" /\ pc["server"] = "accept"
      /\ DOMAIN conn' = 1 .. MaxConns /\ \A j \in 1 .. MaxConns : Wire(conn'[j])
      /\ \A e \in Ends : conn'[Link'].in[e] = <<>>
      /\ pc' = [pc EXCEPT !["client"] = "type"]
      /\ DOMAIN fd' = Procs
      /\ UNCHANGED <<system, task, peer, buf, var, mail, said>>
  BY Connecting DEF TurnOK
<1>2. pc'["client"] = "type" /\ pc'["server"] = "accept"
  BY <1>1, TurnNames DEF TurnSaid
<1>3. TurnTypes'
  BY <1>1, <1>2, TurnNames DEF TurnOK, TurnTypes
<1>4. TurnPlaces'
  BY <1>1, <1>2 DEF TurnOK, TurnPlaces
<1>5. Moving'
  BY <1>2 DEF Moving
<1>6. Quiet'
  BY <1>1, TurnNames DEF Quiet, Pending, TCPTalks, UDPTalks
<1>7. InTurn => InTurn'
  BY <1>1, <1>6, ClientConnects
<1>8. OverlongWord => OverlongWord'
  BY <1>1 DEF OverlongWord, Typed
<1> QED BY <1>1, <1>3, <1>4, <1>5, <1>7, <1>8 DEF TurnOK

LEMMA EndTurn ==
    ASSUME system \in Talks, TurnSaid, TurnOK, ~TurnsOver, NEW at \in {"end", "close"},
           Exit("server", at)
    PROVE  (TurnsOver \/ TurnOK)'
<1>1. /\ pc["server"] = at /\ pc' = [pc EXCEPT !["server"] = "done"]
      /\ DOMAIN conn' = 1 .. MaxConns
      /\ \A j \in 1 .. MaxConns : /\ Wire(conn'[j]) /\ conn'[j].in = conn[j].in
                                  /\ conn'[j].by["c"] = conn[j].by["c"] \ {"server"}
      /\ fd'["client"] = fd["client"] /\ buf'["client"] = buf["client"]
      /\ var'["client"] = var["client"]
      /\ DOMAIN fd' = Procs /\ DOMAIN buf' = Procs /\ DOMAIN var' = Procs
      /\ DOMAIN peer' = Procs
      /\ UNCHANGED <<system, task, mail, said>>
  BY Ending DEF TurnOK
<1>2. pc'["server"] = "done" /\ pc'["client"] = pc["client"]
  BY <1>1, TurnNames DEF TurnSaid
<1>3. pc["client"] \notin {"connect", "done"}
  BY <1>1, NowConnected, TurnNames DEF Active, TurnsOver
<1>4. TurnTypes'
  BY <1>1, <1>2, TurnNames DEF TurnOK, TurnTypes
<1>5. TurnPlaces'
  BY <1>1, <1>2, <1>3 DEF TurnOK, TurnPlaces
<1>6. Link' = Link
  BY <1>1 DEF Link
<1>7. ASSUME system \in TCPTalks PROVE Wired' /\ Moving' /\ conn'[Link].in = conn[Link].in
  <2>1. Wired'
    BY <1>1, <1>3, <1>6, <1>7, WiredEnd DEF TurnOK
  <2>2. Moving'
    BY <1>2 DEF Moving, Hearing
  <2>3. Link \in 1 .. MaxConns
    BY <1>3, <1>7 DEF TurnOK, Wired, Held
  <2> QED BY <1>1, <2>1, <2>2, <2>3
<1>8. PendingKept
  BY <1>1, <1>3, <1>6, <1>7, PendingSame DEF PendingKept, Pending, Talks
<1>9. InTurn => InTurn'
  BY <1>1, <1>3, <1>8, ServerGoesOn DEF TurnOK
<1>10. OverlongWord => TurnsOver'
  BY <1>1, <1>2 DEF OverlongWord, Typed, TurnsOver
<1> QED BY <1>1, <1>4, <1>5, <1>7, <1>9, <1>10 DEF TurnOK

LEMMA Segmented ==
    /\ word \in Seq(Segments) /\ stop \in Seq(Segments) /\ long \in Seq(Segments)
    /\ Len(word) = 1 /\ Len(stop) = 1 /\ Len(long) = 3 /\ Len(<<"^C">>) = 1
    /\ <<word[1], "padding">> \in Seq(Segments) /\ <<long[1], "padding">> \in Seq(Segments)
    /\ <<stop[1], "padding">> \in Seq(Segments)
  BY DEF word, stop, long, Segments

LEMMA OneSegment ==
    ASSUME NEW S, NEW s \in Seq(S), Len(s) >= 1
    PROVE  /\ SubSeq(s, 1, 1) = <<s[1]>>
           /\ Len(s) = 1 => s = <<s[1]>> /\ SubSeq(s, 2, 1) = <<>>
<1>1. SubSeq(s, 1, 1) \in Seq(S) /\ Len(SubSeq(s, 1, 1)) = 1 /\ SubSeq(s, 1, 1)[1] = s[1]
  OBVIOUS
<1>2. s[1] \in S
  OBVIOUS
<1>3. <<s[1]>> \in Seq(S) /\ Len(<<s[1]>>) = 1 /\ <<s[1]>>[1] = s[1]
  BY <1>2
<1>4. SubSeq(s, 1, 1) = <<s[1]>>
  <2> DEFINE t == SubSeq(s, 1, 1)
             u == <<s[1]>>
  <2>1. t \in Seq(S) /\ u \in Seq(S) /\ Len(t) = 1 /\ Len(u) = 1 /\ t[1] = u[1]
    BY <1>1, <1>3
  <2> HIDE DEF t, u
  <2>2. DOMAIN t = 1 .. 1 /\ DOMAIN u = 1 .. 1
    BY <2>1
  <2>3. \A i \in 1 .. 1 : t[i] = u[i]
    BY <2>1
  <2>4. t = u
    BY <2>1, <2>2, <2>3
  <2> QED BY <2>4 DEF t, u
<1>5. Len(s) = 1 => s = <<s[1]>>
  BY <1>3
<1>6. Len(s) = 1 => SubSeq(s, 2, 1) = <<>>
  <2>1. SubSeq(s, 2, 1) \in Seq(S) /\ Len(SubSeq(s, 2, 1)) = 0
    OBVIOUS
  <2> QED BY <2>1
<1> QED BY <1>4, <1>5, <1>6

LEMMA ServerHearsTCP ==
    ASSUME system \in TCPTalks, TurnSaid, TurnOK, ~TurnsOver, NEW n, NEW next, NEW zero, NEW failed,
           next = IF system \in {"first", "win_turn"} THEN "type" ELSE "heard",
           Receive("server", "recv", n, TRUE, next, zero, failed)
    PROVE  TurnOK'
<1>1. "server" \in Sides /\ pc["client"] # "done"
  BY TurnNames DEF TurnsOver
<1>2. pc["server"] = "recv"
  BY DEF Receive, At
<1>3. /\ pc' = [pc EXCEPT !["server"] = next]
      /\ UNCHANGED <<system, task, fd, peer, var, backlog, listening, mail, said>>
      /\ \E k \in 1 .. Len(In("server")) :
           /\ k <= n /\ buf' = [buf EXCEPT !["server"] = SubSeq(In("server"), 1, k)]
           /\ conn' = InChanged(Link, EndOf("server"),
                                SubSeq(In("server"), k + 1, Len(In("server"))))
  BY <1>1, <1>2, Reading DEF TurnOK
<1>4. PICK k \in 1 .. Len(In("server")) :
        /\ buf' = [buf EXCEPT !["server"] = SubSeq(In("server"), 1, k)]
        /\ conn' = InChanged(Link, "s", SubSeq(In("server"), k + 1, Len(In("server"))))
  BY <1>3, TurnNames
<1>5. /\ pc["client"] # "connect" /\ Link \in 1 .. MaxConns
  BY <1>1, <1>2, Connected DEF TurnOK, Active
<1>6. In("server") \in Seq(Segments)
  BY <1>5, TurnNames DEF In, TurnOK, TurnTypes, Wire
<1>7. SubSeq(In("server"), k + 1, Len(In("server"))) \in Seq(Segments) /\ In("server") # <<>>
  BY <1>4, <1>6
<1>8. /\ DOMAIN conn' = 1 .. MaxConns
      /\ \A j \in 1 .. MaxConns :
           Wire(conn'[j]) /\ conn'[j].by = conn[j].by /\ conn'[j].rst = conn[j].rst
      /\ conn'[Link].in["s"] = SubSeq(In("server"), k + 1, Len(In("server")))
      /\ conn'[Link].in["c"] = conn[Link].in["c"]
  <2> DEFINE v == SubSeq(In("server"), k + 1, Len(In("server")))
  <2>1. v \in Seq(Segments) /\ conn' = InChanged(Link, "s", v) /\ TurnTypes /\ "s" \in Ends
    BY <1>4, <1>7, TurnNames DEF TurnOK
  <2> HIDE DEF v
  <2>2. conn'[Link].in[Other("s")] = conn[Link].in[Other("s")] /\ conn'[Link].in["s"] = v
    BY <1>5, <2>1, WireIn
  <2> QED BY <1>5, <2>1, <2>2, WireIn, TurnNames DEF v
<1>9. pc'["server"] = next /\ pc'["client"] = pc["client"] /\ next \in {"heard", "type"}
  BY <1>3, TurnNames DEF TurnSaid
<1>10. TurnTypes'
  BY <1>3, <1>4, <1>8, <1>9, TurnNames DEF TurnOK, TurnTypes
<1>11. TurnPlaces'
  BY <1>3, <1>9 DEF TurnOK, TurnPlaces, TCPTalks, UDPTalks
<1>12. Wired'
  BY <1>1, <1>2, <1>3, <1>8, <1>9, WiredOn DEF TurnOK, Active
<1>13. Moving'
  BY <1>9 DEF Moving, Hearing
<1>14. Link' = Link /\ system' = system /\ system \notin UDPTalks
  BY <1>3 DEF Link, TCPTalks, UDPTalks
<1>15. InTurn => InTurn'
  <2>1. buf'["client"] = buf["client"]
    BY <1>4, TurnNames DEF TurnOK, TurnTypes
  <2>2. ~Pending("server", <<>>)
    BY <1>5, <1>7, <1>14 DEF Pending, In
  <2>3. ASSUME Pending("server", word) PROVE Pending("server", <<>>)' /\ buf'["server"] = word
    <3>1. In("server") = word
      BY <1>5, <1>14, <2>3 DEF Pending, In
    <3>2. k = 1
      <4>1. Len(In("server")) = 1
        BY <3>1, Segmented
      <4>2. k \in 1 .. Len(In("server"))
        OBVIOUS
      <4>3. k \in 1 .. 1
        BY ONLY <4>1, <4>2
      <4> QED BY ONLY <4>3
    <3>3. SubSeq(word, 1, 1) = word /\ SubSeq(word, 2, 1) = <<>>
      BY Segmented, OneSegment
    <3>4. buf'["server"] = word /\ conn'[Link].in["s"] = <<>>
      BY <1>4, <1>8, <3>1, <3>2, <3>3, Segmented, TurnNames DEF TurnOK, TurnTypes
    <3> QED BY <1>14, <3>4, TurnNames DEF Pending
  <2>4. Pending("client", <<>>) => Pending("client", <<>>)'
    BY <1>5, <1>8, <1>14, TurnNames DEF Pending
  <2> QED BY <1>2, <1>3, <1>5, <1>14, <2>1, <2>2, <2>3, <2>4, ServerHears DEF TurnOK
<1>16. OverlongWord => OverlongWord'
  BY <1>3 DEF OverlongWord, Typed
<1> QED BY <1>10, <1>11, <1>12, <1>13, <1>15, <1>16 DEF TurnOK

(* What a read of the client returns of the answer.                        *)
LEMMA ReplyRead ==
    ASSUME TurnSaid, system \in TCPTalks, Answered > 0, Short,
           NEW k \in 1 .. Len(Reply), k <= ClientBuffer
    PROVE  /\ SubSeq(Reply, 1, k) = Cut(Answer)
           /\ system # "first" => SubSeq(Reply, k + 1, Len(Reply)) = <<>>
<1>1. said["server"] \in Seq(TurnLines)
  BY TurnNames DEF TurnSaid
<1>2. Answer \in TurnLines
  BY <1>1 DEF Answer, Answered
<1>3. Len(Answer) = 1 \/ Len(Answer) = 3
  BY <1>2, Segmented DEF TurnLines
<1>4. \E S : Answer \in Seq(S)
  <2>1. <<"^C">> \in Seq({"^C"})
    OBVIOUS
  <2> QED BY <1>2, <2>1, Segmented DEF TurnLines
<1>5. PICK S : Answer \in Seq(S)
  BY <1>4
<1>6. CASE system = "first"
  <2>1. k = 1 /\ Reply = <<Answer[1], "padding">> /\ ClientBuffer = 1
    BY <1>6 DEF Reply, ClientBuffer
  <2>2. SubSeq(Reply, 1, 1) = <<Answer[1]>>
    <3>1. Reply \in Seq({Answer[1], "padding"}) /\ Len(Reply) = 2 /\ Reply[1] = Answer[1]
      BY <2>1
    <3> QED BY <3>1, OneSegment
  <2>3. CASE Len(Answer) = 1
    <3>1. Answer = <<Answer[1]>>
      BY <1>5, <2>3, OneSegment
    <3> QED BY <1>6, <2>1, <2>2, <2>3, <3>1 DEF Cut
  <2>4. CASE Len(Answer) = 3
    <3>1. SubSeq(Answer, 1, 1) = <<Answer[1]>>
      BY <1>5, <2>4, OneSegment
    <3> QED BY <1>6, <2>1, <2>2, <2>4, <3>1 DEF Cut
  <2> QED BY <1>3, <2>3, <2>4
<1>7. CASE system # "first"
  <2>1. Reply = Answer /\ ClientBuffer = 2 /\ Len(Answer) = 1
    BY <1>7 DEF Reply, ClientBuffer, Short, TCPTalks
  <2>2. k \in 1 .. Len(Reply)
    OBVIOUS
  <2>3. k = 1
    BY <2>1, <2>2
  <2>4. SubSeq(Answer, 1, 1) = Answer /\ SubSeq(Answer, 2, 1) = <<>>
    BY <1>5, <2>1, OneSegment
  <2> QED BY <2>1, <2>3, <2>4 DEF Cut
<1> QED BY <1>6, <1>7

LEMMA ClientHearsTCP ==
    ASSUME system \in TCPTalks, TurnSaid, TurnOK, ~TurnsOver, NEW next, NEW zero, NEW failed,
           next = IF system = "first" THEN "close"
                  ELSE IF system = "win_turn" THEN "type" ELSE "heard",
           Receive("client", "recv", ClientBuffer, TRUE, next, zero, failed)
    PROVE  TurnOK'
<1>1. "client" \in Sides /\ pc["client"] # "done"
  BY TurnNames DEF TurnsOver
<1>2. pc["client"] = "recv"
  BY DEF Receive, At
<1>3. Link \in 1 .. MaxConns
  BY <1>1, <1>2, Connected DEF TurnOK, Active
<1>4. system \notin UDPTalks
  BY DEF TCPTalks, UDPTalks
<1>5. In("client") \in Seq(Segments)
  BY <1>3, TurnNames DEF In, TurnOK, TurnTypes, Wire
<1>6. pc["server"] # "done" \/ In("client") # <<>>
  <2>1. SUFFICES ASSUME pc["server"] = "done" PROVE In("client") # <<>>
    OBVIOUS
  <2>2. InTurn /\ ~OverlongWord
    BY <2>1 DEF TurnsOver, TurnOK
  <2>3. HasAnswered
    BY <1>2, <1>4, <2>1, <2>2 DEF InTurn, IsAsked, Hearing, Answers, Lost, Lossy, UDPTalks
  <2>4. In("client") = Reply
    BY <1>2, <1>4, <2>3 DEF HasAnswered, Pending, In
  <2>5. Answer \in TurnLines
    BY <2>3, TurnNames DEF TurnSaid, Answer, Answered, HasAnswered
  <2>6. Answer # <<>>
    BY <2>5, TurnNames DEF TurnLines
  <2> QED BY <2>4, <2>6 DEF Reply
<1>7. /\ pc' = [pc EXCEPT !["client"] = next]
      /\ UNCHANGED <<system, task, fd, peer, var, backlog, listening, mail, said>>
      /\ \E k \in 1 .. Len(In("client")) :
           /\ k <= ClientBuffer /\ buf' = [buf EXCEPT !["client"] = SubSeq(In("client"), 1, k)]
           /\ conn' = InChanged(Link, EndOf("client"),
                                SubSeq(In("client"), k + 1, Len(In("client"))))
  BY <1>1, <1>6, Reading DEF TurnOK
<1>8. PICK k \in 1 .. Len(In("client")) :
        /\ k <= ClientBuffer /\ buf' = [buf EXCEPT !["client"] = SubSeq(In("client"), 1, k)]
        /\ conn' = InChanged(Link, "c", SubSeq(In("client"), k + 1, Len(In("client"))))
  BY <1>7, TurnNames
<1>9. SubSeq(In("client"), k + 1, Len(In("client"))) \in Seq(Segments) /\ In("client") # <<>>
  BY <1>5, <1>8
<1>10. /\ DOMAIN conn' = 1 .. MaxConns
       /\ \A j \in 1 .. MaxConns :
            Wire(conn'[j]) /\ conn'[j].by = conn[j].by /\ conn'[j].rst = conn[j].rst
       /\ conn'[Link].in["c"] = SubSeq(In("client"), k + 1, Len(In("client")))
       /\ conn'[Link].in["s"] = conn[Link].in["s"]
  <2> DEFINE v == SubSeq(In("client"), k + 1, Len(In("client")))
  <2>1. v \in Seq(Segments) /\ conn' = InChanged(Link, "c", v) /\ TurnTypes /\ "c" \in Ends
    BY <1>8, <1>9, TurnNames DEF TurnOK
  <2> HIDE DEF v
  <2>2. conn'[Link].in[Other("c")] = conn[Link].in[Other("c")] /\ conn'[Link].in["c"] = v
    BY <1>3, <2>1, WireIn
  <2> QED BY <1>3, <2>1, <2>2, WireIn, TurnNames DEF v
<1>11. pc'["client"] = next /\ pc'["server"] = pc["server"] /\ next \in {"close", "type", "heard"}
  BY <1>7, TurnNames DEF TurnSaid
<1>12. TurnTypes'
  BY <1>7, <1>8, <1>10, <1>11, TurnNames DEF TurnOK, TurnTypes
<1>13. TurnPlaces'
  BY <1>4, <1>7, <1>11 DEF TurnOK, TurnPlaces
<1>14. pc["server"] # "accept"
  <2>1. pc["server"] = "accept" => In("client") = <<>>
    BY <1>2, TurnNames DEF TurnOK, Wired, In
  <2> QED BY <1>9, <2>1
<1>15. Wired'
  BY <1>1, <1>2, <1>7, <1>10, <1>11, <1>14, WiredOn DEF TurnOK, Active
<1>16. Moving'
  BY <1>11 DEF Moving
<1>17. Link' = Link
  BY <1>7 DEF Link
<1>18. InTurn => InTurn'
  <2>1. ~Pending("client", <<>>)
    BY <1>2, <1>4, <1>9 DEF Pending, In
  <2>2. ASSUME InTurn, Pending("client", Reply)
        PROVE  buf'["client"] = Cut(Answer) /\ (system # "first" => Pending("client", <<>>)')
    <3>1. HasAnswered
      BY <1>2, <2>1, <2>2 DEF InTurn, IsAsked, Answers, Lost, Quiet
    <3>2. In("client") = Reply /\ Answered > 0 /\ Short
      BY <1>2, <1>4, <2>2, <3>1 DEF Pending, In, HasAnswered
    <3>3. /\ SubSeq(In("client"), 1, k) = Cut(Answer)
          /\ system # "first" => SubSeq(In("client"), k + 1, Len(In("client"))) = <<>>
      <4>1. k \in 1 .. Len(In("client")) /\ k <= ClientBuffer
        BY <1>8
      <4>2. k \in 1 .. Len(Reply)
        BY <3>2, <4>1
      <4> QED BY <3>2, <4>1, <4>2, ReplyRead
    <3>4. buf'["client"] = Cut(Answer)
      BY <1>8, <3>3, TurnNames DEF TurnOK, TurnTypes
    <3>5. system # "first" => Pending("client", <<>>)'
      BY <1>4, <1>7, <1>10, <1>17, <3>3, TurnNames DEF Pending
    <3> QED BY <3>4, <3>5
  <2>3. Pending("server", <<>>) => Pending("server", <<>>)'
    BY <1>2, <1>4, <1>7, <1>10, <1>17, TurnNames DEF Pending
  <2> QED BY <1>2, <1>7, <2>1, <2>2, <2>3, ClientHears DEF TurnOK
<1>19. OverlongWord => OverlongWord'
  BY <1>7 DEF OverlongWord, Typed
<1> QED BY <1>7, <1>12, <1>13, <1>15, <1>16, <1>18, <1>19 DEF TurnOK

(* What has been sent waits at the other side.                             *)
LEMMA Carried ==
    ASSUME system \in TCPTalks, TurnSaid, TurnOK, ~TurnsOver, pc["server"] # "done",
           NEW x \in Sides, NEW m \in Seq(Segments), m # <<>>, NEW next,
           next \in {"recv", "end", "close"}, next = "close" => system = "first",
           next = "close" => x = "server",
           Send(x, "send", m, next) \/ SendWindows(x, "send", m, next)
    PROVE  /\ TurnTypes' /\ TurnPlaces' /\ Wired' /\ Moving' /\ Link' = Link
           /\ pc["client"] # "connect" /\ pc[x] = "send" /\ pc' = [pc EXCEPT ![x] = next]
           /\ conn'[Link].in[EndOf(PeerOf(x))] = conn[Link].in[EndOf(PeerOf(x))] \o m
           /\ conn'[Link].in[EndOf(x)] = conn[Link].in[EndOf(x)]
           /\ UNCHANGED <<system, buf, var, said>>
<1>1. pc["client"] # "done"
  BY DEF TurnsOver
<1>2. /\ pc[x] = "send" /\ pc' = [pc EXCEPT ![x] = next]
      /\ conn' = InChanged(Link, Other(EndOf(x)), In(PeerOf(x)) \o m)
      /\ UNCHANGED <<system, task, fd, peer, buf, var, backlog, listening, mail, said>>
  BY <1>1, Sending DEF TurnOK
<1>3. pc["client"] # "connect" /\ Link \in 1 .. MaxConns
  BY <1>1, <1>2, Connected DEF TurnOK, Active
<1>4. /\ Other(EndOf(x)) = EndOf(PeerOf(x)) /\ Other(EndOf(PeerOf(x))) = EndOf(x)
      /\ EndOf(PeerOf(x)) \in Ends
  BY TurnNames
<1>5. In(PeerOf(x)) \in Seq(Segments)
  BY <1>3, <1>4 DEF In, TurnOK, TurnTypes, Wire
<1>6. In(PeerOf(x)) \o m \in Seq(Segments) /\ In(PeerOf(x)) \o m # <<>>
  BY <1>5
<1>7. /\ DOMAIN conn' = 1 .. MaxConns
      /\ \A j \in 1 .. MaxConns :
           Wire(conn'[j]) /\ conn'[j].by = conn[j].by /\ conn'[j].rst = conn[j].rst
      /\ conn'[Link].in[EndOf(PeerOf(x))] = In(PeerOf(x)) \o m
      /\ conn'[Link].in[EndOf(x)] = conn[Link].in[EndOf(x)]
  <2> DEFINE v == In(PeerOf(x)) \o m
             e == EndOf(PeerOf(x))
  <2>1. v \in Seq(Segments) /\ conn' = InChanged(Link, e, v) /\ TurnTypes /\ e \in Ends
        /\ Other(e) = EndOf(x)
    BY <1>2, <1>4, <1>6 DEF TurnOK
  <2> HIDE DEF v, e
  <2>2. conn'[Link].in[Other(e)] = conn[Link].in[Other(e)] /\ conn'[Link].in[e] = v
    BY <1>3, <2>1, WireIn
  <2>3. /\ DOMAIN conn' = 1 .. MaxConns
        /\ \A j \in 1 .. MaxConns :
             Wire(conn'[j]) /\ conn'[j].by = conn[j].by /\ conn'[j].rst = conn[j].rst
    BY <1>3, <2>1, WireIn
  <2> QED BY <2>1, <2>2, <2>3 DEF v, e
<1>8. pc'[x] = next /\ \A y \in Sides \ {x} : pc'[y] = pc[y]
  BY <1>2, TurnNames DEF TurnSaid
<1>9. TurnTypes'
  BY <1>2, <1>7, <1>8, TurnNames DEF TurnOK, TurnTypes
<1>10. TurnPlaces'
  BY <1>2, <1>3, <1>8, TurnNames DEF TurnOK, TurnPlaces, TCPTalks, UDPTalks
<1>11. pc["server"] = "accept" => x = "client"
  BY <1>2, TurnNames
<1>12. Wired'
  <2>1. pc["server"] = "accept" => conn'[Link].in["c"] = conn[Link].in["c"]
    BY <1>7, <1>11, TurnNames
  <2> QED BY <1>2, <1>7, <2>1, WiredOn DEF TurnOK, Active
<1>13. Link' = Link
  BY <1>2 DEF Link
<1>14. Moving'
  BY <1>4, <1>6, <1>7, <1>13 DEF Moving
<1> QED BY <1>2, <1>3, <1>7, <1>9, <1>10, <1>12, <1>13, <1>14 DEF In

LEMMA ServerSendsTCP ==
    ASSUME system \in TCPTalks, TurnSaid, TurnOK, ~TurnsOver, NEW m, NEW next,
           m = IF system = "first" THEN <<var["server"][1], "padding">> ELSE var["server"],
           next = IF system = "first" THEN "close"
                  ELSE IF system # "win_turn" /\ var["server"] = stop THEN "end" ELSE "recv",
           Send("server", "send", m, next) \/ SendWindows("server", "send", m, next)
    PROVE  TurnOK'
<1>1. "server" \in Sides /\ pc["server"] = "send"
  BY TurnNames DEF Send, SendWindows, SendOr, At
<1>2. var["server"] \in {word, stop, long}
  BY <1>1 DEF TurnOK, TurnTypes
<1>3. m \in Seq(Segments) /\ m # <<>>
  BY <1>2, Segmented, TurnNames
<1>4. next \in {"recv", "end", "close"} /\ (next = "close" => system = "first")
  OBVIOUS
<1>5. /\ TurnTypes' /\ TurnPlaces' /\ Wired' /\ Moving' /\ Link' = Link
      /\ pc["client"] # "connect" /\ pc' = [pc EXCEPT !["server"] = next]
      /\ conn'[Link].in["c"] = conn[Link].in["c"] \o m
      /\ conn'[Link].in["s"] = conn[Link].in["s"]
      /\ UNCHANGED <<system, buf, var, said>>
  <2>1. pc["server"] # "done" /\ EndOf(PeerOf("server")) = "c" /\ EndOf("server") = "s"
    BY <1>1, TurnNames
  <2> QED BY <1>1, <1>3, <1>4, <2>1, Carried
<1>6. InTurn => InTurn'
  <2>1. system \notin UDPTalks /\ pc'["client"] = pc["client"]
    BY <1>5, TurnNames DEF TCPTalks, UDPTalks, TurnSaid
  <2>2. ASSUME Quiet PROVE Pending("server", <<>>)' /\ Pending("client", m)'
    <3>1. conn[Link].in["c"] = <<>> /\ conn[Link].in["s"] = <<>>
      BY <1>5, <2>1, <2>2, TurnNames DEF Quiet, Pending
    <3>2. <<>> \o m = m
      BY <1>3
    <3> QED BY <1>5, <2>1, <3>1, <3>2, TurnNames DEF Pending
  <2> QED BY <1>1, <1>5, <2>2, ServerSends DEF TurnOK
<1>7. OverlongWord => OverlongWord'
  BY <1>5 DEF OverlongWord, Typed
<1> QED BY <1>5, <1>6, <1>7 DEF TurnOK

LEMMA ClientSendsTCP ==
    ASSUME system \in TCPTalks, TurnSaid, TurnOK, ~TurnsOver, NEW next,
           next = IF system \notin {"first", "win_turn"} /\ var["client"] = stop
                  THEN "end" ELSE "recv",
           Send("client", "send", var["client"], next)
             \/ SendWindows("client", "send", var["client"], next)
    PROVE  TurnOK'
<1>1. "client" \in Sides /\ pc["client"] = "send"
  BY TurnNames DEF Send, SendWindows, SendOr, At
<1>2. var["client"] \in {word, stop, long}
  BY <1>1, TurnNames DEF TurnOK, TurnTypes
<1>3. var["client"] \in Seq(Segments) /\ var["client"] # <<>>
  BY <1>2, Segmented, TurnNames
<1>4. next \in {"recv", "end"} /\ next # "close"
  OBVIOUS
<1>5. pc["server"] # "done"
  BY <1>1 DEF TurnOK, TurnsOver, InTurn, Asks, Hearing
<1>6. /\ TurnTypes' /\ TurnPlaces' /\ Wired' /\ Moving' /\ Link' = Link
      /\ pc' = [pc EXCEPT !["client"] = next]
      /\ conn'[Link].in["s"] = conn[Link].in["s"] \o var["client"]
      /\ conn'[Link].in["c"] = conn[Link].in["c"]
      /\ UNCHANGED <<system, buf, var, said>>
  <2>1. EndOf(PeerOf("client")) = "s" /\ EndOf("client") = "c"
    BY TurnNames
  <2>2. \A m \in Seq(Segments) : m = var["client"] =>
            Send("client", "send", m, next) \/ SendWindows("client", "send", m, next)
    OBVIOUS
  <2>3. PICK m \in Seq(Segments) : m = var["client"]
    BY <1>3
  <2> QED BY <1>1, <1>3, <1>4, <1>5, <2>1, <2>2, <2>3, Carried
<1>7. InTurn => InTurn'
  <2>1. system \notin UDPTalks
    BY DEF TCPTalks, UDPTalks
  <2>2. ASSUME Quiet, var["client"] = word
        PROVE  Pending("server", word)' /\ Pending("client", <<>>)'
    <3>1. conn[Link].in["c"] = <<>> /\ conn[Link].in["s"] = <<>>
      BY <1>1, <2>1, <2>2, TurnNames DEF Quiet, Pending
    <3>2. <<>> \o word = word
      BY Segmented
    <3> QED BY <1>6, <2>1, <2>2, <3>1, <3>2, TurnNames DEF Pending
  <2> QED BY <1>1, <1>6, <2>2, ClientSends DEF TurnOK
<1>8. OverlongWord => OverlongWord'
  BY <1>6 DEF OverlongWord, Typed
<1> QED BY <1>6, <1>7, <1>8 DEF TurnOK

(* A datagram is read, whole or cut.                                       *)
LEMMA ReadingUDP ==
    ASSUME system \in UDPTalks, TurnSaid, TurnOK, NEW x \in Sides, NEW n,
           RecvFromPrint(x, "recv", n, "heard")
    PROVE  /\ TurnTypes' /\ TurnPlaces' /\ pc[x] = "recv" /\ mail[x] # <<>>
           /\ pc["client"] # "connect"
           /\ pc' = [pc EXCEPT ![x] = "heard"]
           /\ LET body == Head(mail[x]).body IN
              buf'[x] = SubSeq(body, 1, IF n < Len(body) THEN n ELSE Len(body))
           /\ peer'[x] = Head(mail[x]).from /\ mail'[x] = Tail(mail[x])
           /\ \A y \in Sides \ {x} : buf'[y] = buf[y] /\ mail'[y] = mail[y]
           /\ UNCHANGED <<system, said>>
<1>1. /\ pc[x] = "recv" /\ mail[x] # <<>> /\ pc' = [pc EXCEPT ![x] = "heard"]
      /\ LET body == Head(mail[x]).body IN
         buf' = [buf EXCEPT ![x] = SubSeq(body, 1, IF n < Len(body) THEN n ELSE Len(body))]
      /\ peer' = [peer EXCEPT ![x] = Head(mail[x]).from]
      /\ mail' = [mail EXCEPT ![x] = Tail(@)]
      /\ UNCHANGED <<system, task, fd, var, conn, said>>
  BY DEF RecvFromPrint, ReceiveFrom, At, Goto
<1>2. pc'[x] = "heard" /\ \A y \in Sides \ {x} : pc'[y] = pc[y]
  BY <1>1, TurnNames DEF TurnSaid
<1>3. TurnTypes'
  BY <1>1, <1>2 DEF TurnOK, TurnTypes
<1>4. TurnPlaces'
  BY <1>1, <1>2, TurnNames DEF TurnOK, TurnPlaces, UDPTalks
<1>5. pc["client"] # "connect"
  BY DEF TurnOK, TurnPlaces
<1> QED BY <1>1, <1>3, <1>4, <1>5, TurnNames DEF TurnOK, TurnTypes

LEMMA ServerHearsUDP ==
    ASSUME system \in UDPTalks, TurnSaid, TurnOK, RecvFromPrint("server", "recv", 3, "heard")
    PROVE  TurnOK'
<1>1. "server" \in Sides /\ "client" \in Sides \ {"server"}
  BY TurnNames
<1>2. /\ TurnTypes' /\ TurnPlaces' /\ pc["server"] = "recv" /\ mail["server"] # <<>>
      /\ pc["client"] # "connect"
      /\ pc' = [pc EXCEPT !["server"] = "heard"]
      /\ LET body == Head(mail["server"]).body IN
         buf'["server"] = SubSeq(body, 1, IF 3 < Len(body) THEN 3 ELSE Len(body))
      /\ peer'["server"] = Head(mail["server"]).from /\ mail'["server"] = Tail(mail["server"])
      /\ buf'["client"] = buf["client"] /\ mail'["client"] = mail["client"]
      /\ UNCHANGED <<system, said>>
  BY <1>1, ReadingUDP
<1>3. ASSUME Pending("server", word)
      PROVE  Pending("server", <<>>)' /\ buf'["server"] = word /\ peer'["server"] = "client"
  <2>1. mail["server"] = <<Datagram("client", word)>>
    BY <1>3, TurnNames DEF Pending
  <2>2. Head(mail["server"]) = Datagram("client", word) /\ Tail(mail["server"]) = <<>>
    BY <2>1
  <2>3. Head(mail["server"]).body = word /\ Head(mail["server"]).from = "client"
    BY <2>2 DEF Datagram
  <2>4. SubSeq(word, 1, 1) = word
    BY Segmented, OneSegment
  <2>5. buf'["server"] = word
    <3>1. buf'["server"] = SubSeq(word, 1, IF 3 < Len(word) THEN 3 ELSE Len(word))
      BY <1>2, <2>3
    <3>2. (IF 3 < Len(word) THEN 3 ELSE Len(word)) = 1
      BY Segmented
    <3> QED BY <2>4, <3>1, <3>2
  <2> QED BY <1>2, <2>2, <2>3, <2>5 DEF Pending
<1>4. ~Pending("server", <<>>)
  BY <1>2 DEF Pending
<1>5. Pending("client", <<>>) => Pending("client", <<>>)'
  BY <1>2 DEF Pending
<1>6. InTurn /\ system \notin {"first", "win_turn"} /\ system \notin TCPTalks
  BY DEF TurnOK, OverlongWord, UDPTalks, TCPTalks
<1>7. InTurn'
  BY <1>2, <1>3, <1>4, <1>5, <1>6, ServerHears DEF TurnOK
<1> QED BY <1>2, <1>6, <1>7 DEF TurnOK

LEMMA ClientHearsUDP ==
    ASSUME system \in UDPTalks, TurnSaid, TurnOK, RecvFromPrint("client", "recv", 2, "heard")
    PROVE  TurnOK'
<1>1. "client" \in Sides /\ "server" \in Sides \ {"client"}
  BY TurnNames
<1>2. /\ TurnTypes' /\ TurnPlaces' /\ pc["client"] = "recv" /\ mail["client"] # <<>>
      /\ pc' = [pc EXCEPT !["client"] = "heard"]
      /\ LET body == Head(mail["client"]).body IN
         buf'["client"] = SubSeq(body, 1, IF 2 < Len(body) THEN 2 ELSE Len(body))
      /\ mail'["client"] = Tail(mail["client"]) /\ mail'["server"] = mail["server"]
      /\ UNCHANGED <<system, said>>
  BY <1>1, ReadingUDP
<1>3. InTurn /\ system \notin {"first", "win_turn"} /\ system \notin TCPTalks
  BY DEF TurnOK, OverlongWord, UDPTalks, TCPTalks
<1>4. ~Pending("client", <<>>)
  BY <1>2 DEF Pending
<1>5. Pending("server", <<>>) => Pending("server", <<>>)'
  BY <1>2 DEF Pending
<1>6. ASSUME Pending("client", Reply)
      PROVE  buf'["client"] = Cut(Answer) /\ Pending("client", <<>>)'
  <2>1. Answered > 0
    BY <1>2, <1>3, <1>4 DEF InTurn, IsAsked, Answers, Lost, Quiet, HasAnswered
  <2>2. Answer \in TurnLines
    BY <2>1, TurnNames DEF TurnSaid, Answer, Answered
  <2>3. Reply = Answer /\ ClientBuffer = 2
    BY <1>3 DEF Reply, ClientBuffer
  <2>4. mail["client"] = <<Datagram("server", Answer)>>
    BY <1>2, <1>6, <2>3, TurnNames DEF Pending
  <2>5. Head(mail["client"]) = Datagram("server", Answer) /\ Tail(mail["client"]) = <<>>
    BY <2>4
  <2>6. Head(mail["client"]).body = Answer
    BY <2>5 DEF Datagram
  <2>7. buf'["client"] = SubSeq(Answer, 1, IF 2 < Len(Answer) THEN 2 ELSE Len(Answer))
    BY <1>2, <2>6
  <2>8. CASE Len(Answer) = 1
    <3>1. \E S : Answer \in Seq(S)
      <4>1. <<"^C">> \in Seq({"^C"})
        OBVIOUS
      <4> QED BY <2>2, <4>1, Segmented DEF TurnLines
    <3>2. SubSeq(Answer, 1, 1) = Answer
      BY <2>8, <3>1, OneSegment
    <3> QED BY <1>2, <2>3, <2>5, <2>7, <2>8, <3>2 DEF Cut, Pending
  <2>9. CASE Len(Answer) = 3
    <3>1. buf'["client"] = SubSeq(Answer, 1, 2)
      BY <2>7, <2>9
    <3>2. Cut(Answer) = SubSeq(Answer, 1, 2)
      BY <2>3, <2>9 DEF Cut
    <3> QED BY <1>2, <2>5, <3>1, <3>2 DEF Pending
  <2>10. Len(Answer) = 1 \/ Len(Answer) = 3
    BY <2>2, Segmented DEF TurnLines
  <2> QED BY <2>8, <2>9, <2>10
<1>7. InTurn'
  BY <1>2, <1>3, <1>4, <1>5, <1>6, ClientHears DEF TurnOK
<1> QED BY <1>2, <1>3, <1>7 DEF TurnOK

(* A datagram is sent, to somebody who is there or not, and perhaps lost.  *)
LEMMA SendingUDP ==
    ASSUME system \in UDPTalks, TurnSaid, TurnOK, NEW x \in Sides, NEW to,
           NEW next \in {"recv", "end"}, SendTo(x, "send", to, var[x], Lossy, next)
    PROVE  /\ TurnTypes' /\ TurnPlaces' /\ pc[x] = "send" /\ pc["client"] # "connect"
           /\ pc' = [pc EXCEPT ![x] = next]
           /\ \/ mail' = IF pc[to] = "done" THEN mail
                         ELSE [mail EXCEPT ![to] = Append(@, Datagram(x, var[x]))]
              \/ Lossy /\ PendingKept
           /\ UNCHANGED <<system, buf, said>>
<1>1. /\ pc[x] = "send" /\ pc' = [pc EXCEPT ![x] = next]
      /\ \/ mail' = IF pc[to] = "done" THEN mail
                    ELSE [mail EXCEPT ![to] = Append(@, Datagram(x, var[x]))]
         \/ Lossy /\ UNCHANGED mail
      /\ UNCHANGED <<system, task, fd, peer, buf, var, conn, said>>
  BY DEF SendTo, SendOn, At, Goto, locals, screen
<1>2. pc'[x] = next /\ \A y \in Sides \ {x} : pc'[y] = pc[y]
  BY <1>1, TurnNames DEF TurnSaid
<1>3. DOMAIN mail' = Procs
  BY <1>1 DEF TurnOK, TurnTypes
<1>4. TurnTypes'
  BY <1>1, <1>2, <1>3 DEF TurnOK, TurnTypes
<1>5. TurnPlaces'
  BY <1>1, <1>2, TurnNames DEF TurnOK, TurnPlaces, UDPTalks
<1>6. pc["client"] # "connect"
  BY DEF TurnOK, TurnPlaces
<1>7. UNCHANGED mail => PendingKept
  BY <1>1 DEF PendingKept, Pending
<1> QED BY <1>1, <1>4, <1>5, <1>6, <1>7

LEMMA ServerSendsUDP ==
    ASSUME system \in UDPTalks, TurnSaid, TurnOK, NEW next,
           next = IF var["server"] = stop THEN "end" ELSE "recv",
           SendTo("server", "send", peer["server"], var["server"], Lossy, next)
    PROVE  TurnOK'
<1>1. "server" \in Sides /\ next \in {"recv", "end"}
  BY TurnNames
<1>2. /\ TurnTypes' /\ TurnPlaces' /\ pc["server"] = "send" /\ pc["client"] # "connect"
      /\ pc' = [pc EXCEPT !["server"] = next]
      /\ \/ mail' = IF pc[peer["server"]] = "done" THEN mail
                    ELSE [mail EXCEPT ![peer["server"]] =
                            Append(@, Datagram("server", var["server"]))]
         \/ Lossy /\ PendingKept
      /\ UNCHANGED <<system, buf, said>>
  BY <1>1, SendingUDP
<1>3. InTurn /\ system \notin {"first", "win_turn"} /\ system \notin TCPTalks
  BY DEF TurnOK, OverlongWord, UDPTalks, TCPTalks
<1>4. ASSUME Quiet, pc["client"] = "recv", ~(Lossy /\ PendingKept)
      PROVE  Pending("server", <<>>)' /\ Pending("client", var["server"])'
  <2>1. peer["server"] = "client"
    BY <1>2, <1>3, <1>4
       DEF InTurn, IsAsked, Answers, HasAnswered, Lost, Rests, Hearing
  <2>2. mail' = [mail EXCEPT !["client"] = Append(@, Datagram("server", var["server"]))]
    BY <1>2, <1>4, <2>1
  <2>3. mail["server"] = <<>> /\ mail["client"] = <<>>
    BY <1>4 DEF Quiet, Pending
  <2>4. mail'["server"] = <<>> /\ mail'["client"] = <<Datagram("server", var["server"])>>
    BY <2>2, <2>3, TurnNames DEF TurnOK, TurnTypes
  <2>5. var'["server"] = var["server"]
    BY DEF SendTo, SendOn, locals
  <2>6. var["server"] # <<>>
    BY <1>1, <1>2, TurnNames DEF TurnOK, TurnTypes
  <2> QED BY <1>2, <2>4, <2>5, <2>6, TurnNames DEF Pending
<1>5. PICK b : b = var["server"]
  OBVIOUS
<1>6. var'["server"] = var["server"]
  BY DEF SendTo, SendOn, locals
<1>7. Quiet /\ pc["client"] = "recv" =>
         \/ Pending("server", <<>>)' /\ Pending("client", b)'
         \/ Lossy /\ PendingKept
  BY <1>4, <1>5, <1>6 DEF Pending
<1>8. InTurn'
  BY <1>2, <1>3, <1>5, <1>7, ServerSends DEF TurnOK
<1> QED BY <1>2, <1>3, <1>8 DEF TurnOK

LEMMA ClientSendsUDP ==
    ASSUME system \in UDPTalks, TurnSaid, TurnOK, NEW next,
           next = IF var["client"] = stop THEN "end" ELSE "recv",
           SendTo("client", "send", "server", var["client"], Lossy, next)
    PROVE  TurnOK'
<1>1. "client" \in Sides /\ next \in {"recv", "end"}
  BY TurnNames
<1>2. /\ TurnTypes' /\ TurnPlaces' /\ pc["client"] = "send"
      /\ pc' = [pc EXCEPT !["client"] = next]
      /\ \/ mail' = IF pc["server"] = "done" THEN mail
                    ELSE [mail EXCEPT !["server"] =
                            Append(@, Datagram("client", var["client"]))]
         \/ Lossy /\ PendingKept
      /\ UNCHANGED <<system, buf, said>>
  BY <1>1, SendingUDP
<1>3. InTurn /\ system \notin {"first", "win_turn"} /\ system \notin TCPTalks
  BY DEF TurnOK, OverlongWord, UDPTalks, TCPTalks
<1>4. pc["server"] # "done"
  BY <1>2, <1>3 DEF InTurn, Asks, Hearing
<1>5. ASSUME Quiet, var["client"] = word, ~(Lossy /\ PendingKept)
      PROVE  Pending("server", word)' /\ Pending("client", <<>>)'
  <2>1. mail' = [mail EXCEPT !["server"] = Append(@, Datagram("client", word))]
    BY <1>2, <1>4, <1>5
  <2>2. mail["server"] = <<>> /\ mail["client"] = <<>>
    BY <1>5 DEF Quiet, Pending
  <2>3. mail'["client"] = <<>> /\ mail'["server"] = <<Datagram("client", word)>>
    BY <2>1, <2>2, TurnNames DEF TurnOK, TurnTypes
  <2> QED BY <1>2, <2>3, TurnNames DEF Pending
<1>6. InTurn'
  BY <1>2, <1>3, <1>5, ClientSends DEF TurnOK
<1> QED BY <1>2, <1>3, <1>6 DEF TurnOK

-----------------------------------------------------------------------------
(* Every step of a program that takes turns.                               *)

(* A step of x neither wakes who has ended nor takes back what was typed.  *)
Moves(x) ==
    /\ pc[x] # "done"
    /\ (\E l : pc' = [pc EXCEPT ![x] = l]) \/ (\E T : pc' = Ended(T))
    /\ said' = said \/ \E m \in TurnLines : said' = [said EXCEPT ![x] = Append(@, m)]

LEMMA CallsMove ==
    /\ \A p, at, next : at # "done" /\ Jump(p, at, next) => Moves(p)
    /\ \A p, at, inputs, next :
         at # "done" /\ inputs \subseteq TurnLines /\ Type(p, at, inputs, next) => Moves(p)
    /\ \A p, at, next, refused : at # "done" /\ Connect(p, at, next, refused) => Moves(p)
    /\ \A p, at, next : at # "done" /\ Accept(p, at, next) => Moves(p)
    /\ \A p, at, n, show, next, zero, failed :
         at # "done" /\ Receive(p, at, n, show, next, zero, failed) => Moves(p)
    /\ \A p, at : at # "done" /\ Exit(p, at) => Moves(p)
    /\ \A p, at, next : at # "done" /\ Close(p, at, next) => Moves(p)
    /\ \A p, at, next : at # "done" /\ CloseListener(p, at, next) => Moves(p)
    /\ \A p, at, m, next : at # "done" /\ Send(p, at, m, next) => Moves(p)
    /\ \A p, at, m, next : at # "done" /\ SendWindows(p, at, m, next) => Moves(p)
    /\ \A p, at, to, body, mayLose, next :
         at # "done" /\ SendTo(p, at, to, body, mayLose, next) => Moves(p)
    /\ \A p, at, n, next : at # "done" /\ RecvFromPrint(p, at, n, next) => Moves(p)
    /\ \A p, T : Interrupt(p, T) => Moves(p)
<1>1. \A p, at, next : at # "done" /\ Jump(p, at, next) => Moves(p)
  BY DEF Jump, At, Goto, screen, Moves
<1>2. \A p, at, inputs, next :
        at # "done" /\ inputs \subseteq TurnLines /\ Type(p, at, inputs, next) => Moves(p)
  BY DEF Type, At, Goto, Moves
<1>3. \A p, at, next, refused : at # "done" /\ Connect(p, at, next, refused) => Moves(p)
  BY DEF Connect, At, Goto, screen, Moves
<1>4. \A p, at, next : at # "done" /\ Accept(p, at, next) => Moves(p)
  BY DEF Accept, At, Goto, screen, Moves
<1>5. \A p, at, n, show, next, zero, failed :
        at # "done" /\ Receive(p, at, n, show, next, zero, failed) => Moves(p)
  BY DEF Receive, At, Goto, Moves
<1>6. \A p, at : at # "done" /\ Exit(p, at) => Moves(p)
  BY DEF Exit, Kill, At, screen, Moves
<1>7. \A p, at, next : at # "done" /\ Close(p, at, next) => Moves(p)
  BY DEF Close, At, Goto, screen, Moves
<1>8. \A p, at, next : at # "done" /\ CloseListener(p, at, next) => Moves(p)
  BY DEF CloseListener, At, Goto, screen, Moves
<1>9. \A p, at, m, next : at # "done" /\ Send(p, at, m, next) => Moves(p)
  BY DEF Send, SendOr, Kill, At, Goto, screen, Moves
<1>10. \A p, at, m, next : at # "done" /\ SendWindows(p, at, m, next) => Moves(p)
  BY DEF SendWindows, SendOr, At, Goto, screen, Moves
<1>11. \A p, at, to, body, mayLose, next :
         at # "done" /\ SendTo(p, at, to, body, mayLose, next) => Moves(p)
  BY DEF SendTo, SendOn, At, Goto, screen, Moves
<1>12. \A p, at, n, next : at # "done" /\ RecvFromPrint(p, at, n, next) => Moves(p)
  BY DEF RecvFromPrint, ReceiveFrom, At, Goto, Moves
<1>13. \A p, T : Interrupt(p, T) => Moves(p)
  BY DEF Interrupt, Moves, TurnLines
<1> QED BY <1>1, <1>2, <1>3, <1>4, <1>5, <1>6, <1>7, <1>8, <1>9, <1>10, <1>11, <1>12, <1>13

LEMMA TurnMoves ==
    ASSUME system \in Talks, NEW x \in Sides, TurnProgram(x) \/ Interrupt(x, {x})
    PROVE  Moves(x)
<1>1. /\ {word, stop, long} \subseteq TurnLines /\ {word, stop} \subseteq TurnLines
      /\ {word, long} \subseteq TurnLines /\ {word} \subseteq TurnLines
  BY DEF TurnLines
<1>2. TalkServer(x) => Moves(x)
  <2> SUFFICES ASSUME TalkServer(x) PROVE Moves(x)
    OBVIOUS
  <2>1. CASE Accept(x, "accept", "recv")
    BY <2>1, CallsMove
  <2>2. CASE Receive(x, "recv", 3, TRUE, "heard", "type", "close")
    BY <2>2, CallsMove
  <2>3. CASE Jump(x, "heard", IF Hears(x, stop) THEN "end" ELSE "type")
    BY <2>3, CallsMove
  <2>4. CASE CloseListener(x, "close", "close_new")
    BY <2>4, CallsMove
  <2>5. CASE Close(x, "close_new", "type")
    BY <2>5, CallsMove
  <2>6. CASE Type(x, "type", {word, stop, long}, "send")
    BY <1>1, <2>6, CallsMove
  <2>7. CASE Send(x, "send", var[x], IF var[x] = stop THEN "end" ELSE "recv")
    BY <2>7, CallsMove
  <2>8. CASE Exit(x, "end")
    BY <2>8, CallsMove
  <2> QED BY <2>1, <2>2, <2>3, <2>4, <2>5, <2>6, <2>7, <2>8 DEF TalkServer
<1>3. TalkClient(x) => Moves(x)
  <2> SUFFICES ASSUME TalkClient(x) PROVE Moves(x)
    OBVIOUS
  <2>1. CASE Connect(x, "connect", "type", "done")
    BY <2>1, CallsMove
  <2>2. CASE Type(x, "type", {word, stop}, "send")
    BY <1>1, <2>2, CallsMove
  <2>3. CASE Send(x, "send", var[x], IF var[x] = stop THEN "end" ELSE "recv")
    BY <2>3, CallsMove
  <2>4. CASE RecvPrint(x, "recv", 2, "heard", "type")
    BY <2>4, CallsMove DEF RecvPrint
  <2>5. CASE Jump(x, "heard", IF Hears(x, stop) THEN "end" ELSE "type")
    BY <2>5, CallsMove
  <2>6. CASE Exit(x, "end")
    BY <2>6, CallsMove
  <2> QED BY <2>1, <2>2, <2>3, <2>4, <2>5, <2>6 DEF TalkClient
<1>4. TalkServerUDP(x) \/ TalkClientUDP(x) => Moves(x)
  BY <1>1, CallsMove DEF TalkServerUDP, TalkClientUDP
<1>5. FirstServer(x) => Moves(x)
  <2> SUFFICES ASSUME FirstServer(x) PROVE Moves(x)
    OBVIOUS
  <2>1. CASE Accept(x, "accept", "recv")
    BY <2>1, CallsMove
  <2>2. CASE RecvPrint(x, "recv", 1, "type", "type")
    BY <2>2, CallsMove DEF RecvPrint
  <2>3. CASE Type(x, "type", {word, long}, "send")
    BY <1>1, <2>3, CallsMove
  <2>4. CASE Send(x, "send", <<var[x][1], "padding">>, "close")
    BY <2>4, CallsMove
  <2>5. CASE Exit(x, "close")
    BY <2>5, CallsMove
  <2> QED BY <2>1, <2>2, <2>3, <2>4, <2>5 DEF FirstServer
<1>6. FirstClient(x) => Moves(x)
  <2> SUFFICES ASSUME FirstClient(x) PROVE Moves(x)
    OBVIOUS
  <2>1. CASE Connect(x, "connect", "type", "type")
    BY <2>1, CallsMove
  <2>2. CASE Type(x, "type", {word}, "send")
    BY <1>1, <2>2, CallsMove
  <2>3. CASE Send(x, "send", var[x], "recv")
    BY <2>3, CallsMove
  <2>4. CASE RecvPrint(x, "recv", 1, "close", "close")
    BY <2>4, CallsMove DEF RecvPrint
  <2>5. CASE Exit(x, "close")
    BY <2>5, CallsMove
  <2> QED BY <2>1, <2>2, <2>3, <2>4, <2>5 DEF FirstClient
<1>7. WinTurnServer(x) => Moves(x)
  <2> SUFFICES ASSUME WinTurnServer(x) PROVE Moves(x)
    OBVIOUS
  <2>1. CASE Accept(x, "accept", "recv")
    BY <2>1, CallsMove
  <2>2. CASE Receive(x, "recv", 2, TRUE, "type", "type", "close")
    BY <2>2, CallsMove
  <2>3. CASE Type(x, "type", {word}, "send")
    BY <1>1, <2>3, CallsMove
  <2>4. CASE SendWindows(x, "send", var[x], "recv")
    BY <2>4, CallsMove
  <2>5. CASE Exit(x, "close")
    BY <2>5, CallsMove
  <2> QED BY <2>1, <2>2, <2>3, <2>4, <2>5 DEF WinTurnServer
<1>8. WinTurnClient(x) => Moves(x)
  <2> SUFFICES ASSUME WinTurnClient(x) PROVE Moves(x)
    OBVIOUS
  <2>1. CASE Connect(x, "connect", "type", "done")
    BY <2>1, CallsMove
  <2>2. CASE Type(x, "type", {word}, "send")
    BY <1>1, <2>2, CallsMove
  <2>3. CASE SendWindows(x, "send", var[x], "recv")
    BY <2>3, CallsMove
  <2>4. CASE Receive(x, "recv", 2, TRUE, "type", "type", "close")
    BY <2>4, CallsMove
  <2>5. CASE Exit(x, "close")
    BY <2>5, CallsMove
  <2> QED BY <2>1, <2>2, <2>3, <2>4, <2>5 DEF WinTurnClient
<1>9. Interrupt(x, {x}) => Moves(x)
  BY CallsMove
<1> QED BY <1>2, <1>3, <1>4, <1>5, <1>6, <1>7, <1>8, <1>9 DEF TurnProgram, Talks, TCPTalks, UDPTalks

LEMMA DoneStays ==
    ASSUME TurnSaid, NEW x \in Sides, Moves(x)
    PROVE  DOMAIN pc' = Procs /\ \A y \in Procs : pc[y] = "done" => pc'[y] = "done"
<1>1. CASE \E l : pc' = [pc EXCEPT ![x] = l]
  BY <1>1 DEF Moves, TurnSaid
<1>2. CASE \E T : pc' = Ended(T)
  BY <1>2 DEF Ended
<1> QED BY <1>1, <1>2 DEF Moves

LEMMA ClientEnds ==
    ASSUME TurnSaid, TurnOK, NEW at, at # "none", Exit("client", at)
    PROVE  TurnsOver'
<1>1. pc["client"] = at /\ pc' = Ended({task["client"]})
  BY DEF Exit, At, Kill
<1>2. pc'["client"] = "done"
  BY <1>1, TurnNames DEF Ended
<1> QED BY <1>2 DEF TurnsOver

LEMMA ServerStep ==
    ASSUME system \in Talks, TurnSaid, TurnOK, ~TurnsOver, TurnProgram("server")
    PROVE  (TurnsOver \/ TurnOK)'
<1> DEFINE x == "server"
<1>1. x \in Sides /\ pc[x] = "close" => system = "first"
  BY TurnNames DEF TurnOK, TurnPlaces
<1>2. CASE system = "talk"
  <2>1. system \in TCPTalks /\ system \notin {"first", "win_turn"} /\ TalkServer("server")
    BY <1>2 DEF TCPTalks, TurnProgram
  <2>2. CASE Accept(x, "accept", "recv")
    BY <2>1, <2>2, AcceptTurn
  <2>3. CASE Receive(x, "recv", 3, TRUE, "heard", "type", "close")
    BY <2>1, <2>3, ServerHearsTCP
  <2>4. CASE Jump(x, "heard", IF Hears(x, stop) THEN "end" ELSE "type")
    BY <2>4, JumpTurn, TurnNames
  <2>5. CASE Type(x, "type", {word, stop, long}, "send")
    <3>1. TurnOK'
      BY <2>1, <2>5, TypeTurn, TurnNames
    <3> QED BY <3>1
  <2>6. CASE Send(x, "send", var[x], IF var[x] = stop THEN "end" ELSE "recv")
    BY <1>2, <2>1, <2>6, ServerSendsTCP
  <2>7. CASE Exit(x, "end")
    BY <2>7, EndTurn
  <2>8. CASE CloseListener(x, "close", "close_new") \/ Close(x, "close_new", "type")
    BY <1>2, <2>8 DEF CloseListener, Close, At, TurnOK, TurnPlaces
  <2> QED BY <2>1, <2>2, <2>3, <2>4, <2>5, <2>6, <2>7, <2>8 DEF TalkServer
<1>3. CASE system \in UDPTalks
  <2>1. TalkServerUDP("server") /\ system # "win_turn"
    BY <1>3 DEF UDPTalks, TurnProgram
  <2>2. CASE RecvFromPrint(x, "recv", 3, "heard")
    BY <1>3, <2>2, ServerHearsUDP
  <2>3. CASE Jump(x, "heard", IF Hears(x, stop) THEN "end" ELSE "type")
    BY <2>3, JumpTurn, TurnNames
  <2>4. CASE Type(x, "type", {word, stop, long}, "send")
    <3>1. TurnOK'
      BY <2>1, <2>4, TypeTurn, TurnNames
    <3> QED BY <3>1
  <2>5. CASE SendTo(x, "send", peer[x], var[x], Lossy, IF var[x] = stop THEN "end" ELSE "recv")
    BY <1>3, <2>5, ServerSendsUDP
  <2>6. CASE Exit(x, "end")
    BY <2>6, EndTurn
  <2> QED BY <2>1, <2>2, <2>3, <2>4, <2>5, <2>6 DEF TalkServerUDP
<1>4. CASE system = "first"
  <2>1. system \in TCPTalks /\ FirstServer("server")
    BY <1>4 DEF TCPTalks, TurnProgram
  <2>2. CASE Accept(x, "accept", "recv")
    BY <2>1, <2>2, AcceptTurn
  <2>3. CASE RecvPrint(x, "recv", 1, "type", "type")
    BY <1>4, <2>1, <2>3, ServerHearsTCP DEF RecvPrint
  <2>4. CASE Type(x, "type", {word, long}, "send")
    <3>1. {word, long} \subseteq {word, stop, long} /\ system # "win_turn"
      BY <1>4
    <3>2. TurnOK'
      BY <1>1, <2>4, <3>1, TypeTurn, TurnNames
    <3> QED BY <3>2
  <2>5. CASE Send(x, "send", <<var[x][1], "padding">>, "close")
    BY <1>4, <2>1, <2>5, ServerSendsTCP
  <2>6. CASE Exit(x, "close")
    BY <2>6, EndTurn
  <2> QED BY <2>1, <2>2, <2>3, <2>4, <2>5, <2>6 DEF FirstServer
<1>5. CASE system = "win_turn"
  <2>1. system \in TCPTalks /\ WinTurnServer("server")
    BY <1>5 DEF TCPTalks, TurnProgram
  <2>2. CASE Accept(x, "accept", "recv")
    BY <2>1, <2>2, AcceptTurn
  <2>3. CASE Receive(x, "recv", 2, TRUE, "type", "type", "close")
    BY <1>5, <2>1, <2>3, ServerHearsTCP
  <2>4. CASE Type(x, "type", {word}, "send")
    <3>1. {word} \subseteq {word, stop, long}
      OBVIOUS
    <3>2. TurnOK'
      BY <2>4, <3>1, TypeTurn, TurnNames
    <3> QED BY <3>2
  <2>5. CASE SendWindows(x, "send", var[x], "recv")
    BY <1>5, <2>1, <2>5, ServerSendsTCP
  <2>6. CASE Exit(x, "close")
    BY <2>6, EndTurn
  <2> QED BY <2>1, <2>2, <2>3, <2>4, <2>5, <2>6 DEF WinTurnServer
<1> QED BY <1>2, <1>3, <1>4, <1>5 DEF Talks, TCPTalks

LEMMA ClientStep ==
    ASSUME system \in Talks, TurnSaid, TurnOK, ~TurnsOver, TurnProgram("client")
    PROVE  (TurnsOver \/ TurnOK)'
<1> DEFINE x == "client"
<1>1. {word, stop} \subseteq {word, stop, long} /\ {word} \subseteq {word, stop, long}
      /\ {word} \subseteq {word, stop} /\ x \in Sides
  BY TurnNames
<1>2. CASE system = "talk"
  <2>1. /\ system \in TCPTalks /\ system \notin {"first", "win_turn"} /\ TalkClient("client")
        /\ ClientBuffer = 2
    BY <1>2 DEF TCPTalks, TurnProgram, ClientBuffer
  <2>2. CASE Connect(x, "connect", "type", "done")
    BY <2>1, <2>2, ConnectTurn
  <2>3. CASE RecvPrint(x, "recv", 2, "heard", "type")
    BY <2>1, <2>3, ClientHearsTCP DEF RecvPrint
  <2>4. CASE Jump(x, "heard", IF Hears(x, stop) THEN "end" ELSE "type")
    BY <1>1, <2>4, JumpTurn
  <2>5. CASE Type(x, "type", {word, stop}, "send")
    <3>1. TurnOK'
      BY <1>1, <2>1, <2>5, TypeTurn
    <3> QED BY <3>1
  <2>6. CASE Send(x, "send", var[x], IF var[x] = stop THEN "end" ELSE "recv")
    BY <2>1, <2>6, ClientSendsTCP
  <2>7. CASE Exit(x, "end")
    BY <2>7, ClientEnds
  <2> QED BY <2>1, <2>2, <2>3, <2>4, <2>5, <2>6, <2>7 DEF TalkClient
<1>3. CASE system \in UDPTalks
  <2>1. TalkClientUDP("client") /\ system \notin {"first", "win_turn"}
    BY <1>3 DEF UDPTalks, TurnProgram
  <2>2. CASE RecvFromPrint(x, "recv", 2, "heard")
    BY <1>3, <2>2, ClientHearsUDP
  <2>3. CASE Jump(x, "heard", IF Hears(x, stop) THEN "end" ELSE "type")
    BY <1>1, <2>3, JumpTurn
  <2>4. CASE Type(x, "type", {word, stop}, "send")
    <3>1. TurnOK'
      BY <1>1, <2>1, <2>4, TypeTurn
    <3> QED BY <3>1
  <2>5. CASE SendTo(x, "send", "server", var[x], Lossy, IF var[x] = stop THEN "end" ELSE "recv")
    BY <1>3, <2>5, ClientSendsUDP
  <2>6. CASE Exit(x, "end")
    BY <2>6, ClientEnds
  <2> QED BY <2>1, <2>2, <2>3, <2>4, <2>5, <2>6 DEF TalkClientUDP
<1>4. CASE system = "first"
  <2>1. system \in TCPTalks /\ FirstClient("client") /\ ClientBuffer = 1
    BY <1>4 DEF TCPTalks, TurnProgram, ClientBuffer
  <2>2. CASE Connect(x, "connect", "type", "type")
    BY <2>1, <2>2, ConnectTurn
  <2>3. CASE RecvPrint(x, "recv", 1, "close", "close")
    BY <1>4, <2>1, <2>3, ClientHearsTCP DEF RecvPrint
  <2>4. CASE Type(x, "type", {word}, "send")
    <3>1. TurnOK'
      BY <1>1, <2>4, TypeTurn
    <3> QED BY <3>1
  <2>5. CASE Send(x, "send", var[x], "recv")
    BY <1>4, <2>1, <2>5, ClientSendsTCP
  <2>6. CASE Exit(x, "close")
    BY <2>6, ClientEnds
  <2> QED BY <2>1, <2>2, <2>3, <2>4, <2>5, <2>6 DEF FirstClient
<1>5. CASE system = "win_turn"
  <2>1. system \in TCPTalks /\ WinTurnClient("client") /\ ClientBuffer = 2
    BY <1>5 DEF TCPTalks, TurnProgram, ClientBuffer
  <2>2. CASE Connect(x, "connect", "type", "done")
    BY <2>1, <2>2, ConnectTurn
  <2>3. CASE Receive(x, "recv", 2, TRUE, "type", "type", "close")
    BY <1>5, <2>1, <2>3, ClientHearsTCP
  <2>4. CASE Type(x, "type", {word}, "send")
    <3>1. TurnOK'
      BY <1>1, <2>4, TypeTurn
    <3> QED BY <3>1
  <2>5. CASE SendWindows(x, "send", var[x], "recv")
    BY <1>5, <2>1, <2>5, ClientSendsTCP
  <2>6. CASE Exit(x, "close")
    BY <2>6, ClientEnds
  <2> QED BY <2>1, <2>2, <2>3, <2>4, <2>5, <2>6 DEF WinTurnClient
<1> QED BY <1>2, <1>3, <1>4, <1>5 DEF Talks, TCPTalks

-----------------------------------------------------------------------------
LEMMA TurnInitially == Init => TurnInv
<1> SUFFICES ASSUME Init, system \in Talks PROVE TurnSaid /\ TurnOK
  BY DEF TurnInv
<1> DEFINE start(a, b) == [p \in Procs |-> CASE p = "server" -> a
                                             [] p = "client" -> b
                                             [] OTHER -> "none"]
<1>1. TurnInit
  BY DEF Init, ChatInit, ExchangeInit, ChatSystems, ExchangeSystems, Talks, TCPTalks, UDPTalks
<1>2. \/ system \in TCPTalks /\ SocketsInit(start("accept", "connect"), {"server"}, <<>>)
      \/ system \in UDPTalks /\ SocketsInit(start("recv", "type"), {}, <<>>)
  BY <1>1 DEF TurnInit, TCPTurns, UDPTurns, Talks, TCPTalks, UDPTalks
<1>3. PICK f : /\ SocketsInit(f, listening, <<>>) /\ DOMAIN f = Procs
               /\ \/ /\ system \in TCPTalks /\ listening = {"server"}
                     /\ f["server"] = "accept" /\ f["client"] = "connect"
                  \/ /\ system \in UDPTalks
                     /\ f["server"] = "recv" /\ f["client"] = "type"
  <2>1. /\ DOMAIN start("accept", "connect") = Procs /\ DOMAIN start("recv", "type") = Procs
        /\ start("accept", "connect")["server"] = "accept"
        /\ start("accept", "connect")["client"] = "connect"
        /\ start("recv", "type")["server"] = "recv" /\ start("recv", "type")["client"] = "type"
    BY TurnNames
  <2>2. \A f, l : SocketsInit(f, l, <<>>) => SocketsInit(f, listening, <<>>) /\ listening = l
    BY DEF SocketsInit
  <2> HIDE DEF start
  <2> QED BY <1>2, <2>1, <2>2
<1>4. /\ pc = f /\ said = [p \in Procs |-> <<>>] /\ buf = [p \in Procs |-> <<>>]
      /\ mail = [p \in Procs |-> <<>>] /\ conn = [i \in 1 .. MaxConns |-> NoConn]
      /\ backlog = <<>> /\ task = [p \in Procs |-> p] /\ fd = [p \in Procs |-> NoFd]
      /\ var = [p \in Procs |-> <<>>] /\ peer = [p \in Procs |-> p]
  BY <1>3 DEF SocketsInit
<1>5. TurnSaid
  BY <1>3, <1>4, TurnNames DEF TurnSaid
<1>6. \A i \in 1 .. MaxConns : Wire(conn[i])
  <2>1. \A i \in 1 .. MaxConns : conn[i] = NoConn
    BY <1>4
  <2>2. Wire(NoConn)
    <3>1. /\ DOMAIN NoConn = {"in", "by", "rst"} /\ DOMAIN NoConn.by = Ends
          /\ NoConn.in = [e \in Ends |-> <<>>]
      BY DEF NoConn
    <3>2. [e \in Ends |-> <<>>] \in [Ends -> Seq(Segments)]
      OBVIOUS
    <3> QED BY <3>1, <3>2 DEF Wire, Shape
  <2> QED BY <2>1, <2>2
<1>7. TurnTypes
  BY <1>3, <1>4, <1>6, TurnNames DEF TurnTypes
<1>8. TurnPlaces
  BY <1>3, <1>4 DEF TurnPlaces, TCPTalks, UDPTalks
<1>9. system \in TCPTalks => Wired /\ Moving
  BY <1>3, <1>4 DEF Wired, Moving, TCPTalks, UDPTalks
<1>10. Asked = 0 /\ Answered = 0
  BY <1>4, TurnNames DEF Asked, Answered
<1>11. Quiet
  BY <1>3, <1>4, TurnNames DEF Quiet, Pending, TCPTalks, UDPTalks
<1>12. Asks
  BY <1>3, <1>4, <1>10, <1>11 DEF Asks, Hearing, Known
<1>13. InTurn
  BY <1>3, <1>4, <1>12 DEF InTurn
<1> QED BY <1>5, <1>7, <1>8, <1>9, <1>13 DEF TurnOK

(* A program that takes turns, or Ctrl-C, in one of its behaviours.         *)
LEMMA TurnSteps ==
    ASSUME Next, system \in Talks
    PROVE  \E x \in Sides : TurnProgram(x) \/ Interrupt(x, {x})
BY DEF Next, ChatNext, TurnNext, ExchangeNext, ChatSystems, ExchangeSystems,
       Talks, TCPTalks, UDPTalks, Sides

LEMMA TurnInvKept == TurnInv /\ [Next]_vars => TurnInv'
<1> SUFFICES ASSUME TurnInv, [Next]_vars, system' \in Talks'
             PROVE  TurnSaid' /\ (~Left' => (TurnsOver \/ TurnOK)')
  BY DEF TurnInv
<1>1. system' = system /\ system \in Talks
  BY SystemKept DEF vars, Talks, TCPTalks, UDPTalks
<1>2. TurnSaid /\ (~Left => TurnsOver \/ TurnOK)
  BY <1>1 DEF TurnInv
<1>3. CASE UNCHANGED vars
  <2>1. TurnSaid' /\ (Left' => Left) /\ (Left => Left') /\ (TurnsOver => TurnsOver')
    BY <1>2, <1>3 DEF vars, net, locals, screen, TurnSaid, Left, Typed, TurnsOver, OverlongWord
  <2>2. TurnOK => TurnTypes' /\ TurnPlaces' /\ (system \in TCPTalks => Wired' /\ Moving')
    <3>1. TurnTypes => TurnTypes'
      BY <1>3 DEF vars, net, locals, screen, TurnTypes
    <3>2. TurnPlaces => TurnPlaces'
      BY <1>3 DEF vars, TurnPlaces
    <3>3. Wired => Wired'
      BY <1>3 DEF vars, net, locals, screen, Wired, Held, Link
    <3>4. Moving => Moving'
      BY <1>3 DEF vars, net, locals, screen, Moving, Hearing, Link
    <3> QED BY <3>1, <3>2, <3>3, <3>4 DEF TurnOK
  <2>3. OverlongWord \/ InTurn => (OverlongWord \/ InTurn)'
    <3>1. OverlongWord => OverlongWord'
      BY <1>3 DEF vars, net, locals, screen, OverlongWord, Typed
    <3>2. InTurn => InTurn'
      BY <1>3 DEF vars, net, locals, screen, InTurn, Asks, IsAsked, Answers, HasAnswered, Lost,
                  Learnt, Hearing, Quiet, Known, Pending, Short, Cut, Answer, Answered, Asked,
                  Reply, Rests, Lossy, ClientBuffer, Link
    <3> QED BY <3>1, <3>2
  <2>4. TCPTalks' = TCPTalks
    BY DEF TCPTalks
  <2> QED BY <1>1, <1>2, <2>1, <2>2, <2>3, <2>4 DEF TurnOK
<1>4. CASE Next
  <2>1. PICK x \in Sides : TurnProgram(x) \/ Interrupt(x, {x})
    BY <1>1, <1>4, TurnSteps
  <2>2. Moves(x)
    BY <1>1, <2>1, TurnMoves
  <2>3. DOMAIN pc' = Procs /\ \A y \in Procs : pc[y] = "done" => pc'[y] = "done"
    BY <1>2, <2>2, DoneStays
  <2>4. PICK m \in TurnLines :
          /\ said' = said \/ said' = [said EXCEPT ![x] = Append(@, m)]
          /\ Interrupt(x, {x}) => m = <<"^C">> /\ said' # said
    <3>1. CASE Interrupt(x, {x})
      <4>1. said' = [said EXCEPT ![x] = Append(@, <<"^C">>)]
        BY <3>1 DEF Interrupt
      <4>2. said'[x] = Append(said[x], <<"^C">>) /\ said[x] \in Seq(TurnLines)
        BY <1>2, <4>1, TurnNames DEF TurnSaid
      <4>3. said'[x] # said[x]
        BY <4>2
      <4> QED BY <4>1, <4>3 DEF TurnLines
    <3>2. CASE ~Interrupt(x, {x})
      BY <2>2, <3>2 DEF Moves, TurnLines
    <3> QED BY <3>1, <3>2
  <2>5. /\ TurnSaid' /\ (Left => Left') /\ (OverlongWord => OverlongWord')
        /\ (said' # said /\ m = <<"^C">> => Left')
    BY <1>1, <1>2, <2>3, <2>4, TypedGrows
  <2>6. CASE Interrupt(x, {x})
    BY <2>4, <2>5, <2>6
  <2>7. CASE TurnsOver
    <3>1. TurnsOver'
      BY <2>3, <2>5, <2>7, TurnNames DEF TurnsOver
    <3> QED BY <2>5, <3>1
  <2>8. CASE TurnProgram(x) /\ ~Left /\ ~TurnsOver
    <3>1. TurnOK
      BY <1>2, <2>8
    <3>2. (TurnsOver \/ TurnOK)'
      <4>1. CASE x = "server"
        BY <1>1, <1>2, <2>8, <3>1, <4>1, ServerStep
      <4>2. CASE x = "client"
        BY <1>1, <1>2, <2>8, <3>1, <4>2, ClientStep
      <4> QED BY <4>1, <4>2, TurnNames
    <3> QED BY <2>5, <3>2
  <2> QED BY <2>1, <2>5, <2>6, <2>7, <2>8
<1> QED BY <1>3, <1>4

-----------------------------------------------------------------------------
(* What the turns mean for the words and for the places of the two sides.   *)
LEMMA StaysInStep == TurnInv => WordsInStep
<1> SUFFICES ASSUME TurnInv, system \in Talks, ~Left, ~OverlongWord, said["client"] # <<>>,
                    pc["client"] = "type" \/ (system = "first" /\ pc["client"] = "close")
             PROVE  Answered = Asked /\ buf["client"] = Cut(Answer)
  BY DEF WordsInStep, Answered, Asked, Cut, Answer, Talks, TCPTalks, UDPTalks
<1>1. TurnSaid /\ InTurn
  BY DEF TurnInv, TurnsOver, TurnOK
<1>2. Asked \in Nat /\ Asked # 0
  BY <1>1, TurnNames DEF TurnSaid, Asked
<1>3. CASE pc["client"] = "type"
  <2>1. Asks
    BY <1>1, <1>3 DEF InTurn
  <2>2. Asked = Answered /\ Known
    BY <1>3, <2>1 DEF Asks
  <2> QED BY <1>2, <2>2 DEF Known
<1>4. CASE pc["client"] = "close"
  BY <1>1, <1>4 DEF InTurn, Learnt, Known
<1> QED BY <1>3, <1>4

LEMMA SomebodyMoves == TurnInv => SomebodysTurn
<1> SUFFICES ASSUME TurnInv, system \in {"talk", "talk_udp", "win_turn"}, ~Left,
                    pc["client"] = "recv", pc["server"] = "recv",
                    \A x \in Sides : mail[x] = <<>>,
                    \A i \in 1 .. MaxConns, e \in Ends : conn[i].in[e] = <<>>
             PROVE  FALSE
  BY DEF SomebodysTurn, Sides
<1>1. system \in Talks /\ TurnSaid /\ TurnOK
  BY DEF TurnInv, TurnsOver, Talks, TCPTalks, UDPTalks
<1>2. CASE system \in TCPTalks
  <2>1. Link \in 1 .. MaxConns
    BY <1>1, <1>2 DEF TurnOK, Wired, Held
  <2>2. \E e \in Ends : conn[Link].in[e] # <<>>
    BY <1>1, <1>2 DEF TurnOK, Moving, Hearing
  <2> QED BY <2>1, <2>2
<1>3. CASE system = "talk_udp"
  <2>1. ASSUME NEW x \in Sides, NEW b, Pending(x, b) PROVE b = <<>>
    <3>1. mail[x] = <<>> /\ mail[x] = IF b = <<>> THEN <<>> ELSE <<Datagram(PeerOf(x), b)>>
      BY <1>3, <2>1 DEF Pending, UDPTalks
    <3>2. \A d : <<d>> # <<>>
      OBVIOUS
    <3> QED BY <3>1, <3>2
  <2>2. InTurn /\ ~Lossy /\ Reply = Answer
    BY <1>1, <1>3 DEF TurnOK, OverlongWord, Lossy, Reply
  <2>3. IsAsked \/ HasAnswered
    BY <2>2 DEF InTurn, Answers, Lost
  <2>4. ~IsAsked
    BY <2>1, TurnNames DEF IsAsked
  <2>5. ~HasAnswered
    <3>1. SUFFICES ASSUME HasAnswered PROVE FALSE
      OBVIOUS
    <3>2. Pending("client", Answer) /\ Answered > 0
      BY <2>2, <3>1 DEF HasAnswered
    <3>3. Answer = <<>>
      BY <2>1, <3>2, TurnNames
    <3>4. Answer \in TurnLines
      BY <1>1, <3>2, TurnNames DEF TurnSaid, Answer, Answered
    <3> QED BY <3>3, <3>4, TurnNames DEF TurnLines
  <2> QED BY <2>3, <2>4, <2>5
<1> QED BY <1>2, <1>3 DEF TCPTalks

-----------------------------------------------------------------------------
(* The echo server and its client: what each has shown and what waits for  *)
(* it is never more than the other one has sent.                           *)

EchoLines == {<<"a">>, <<"a", "b">>, word, <<"^C">>}
Letters == {"a", "b", "NUL", "word"}
Bodies == {<<l>> : l \in Letters}

Line == said["client"][1]
Sent == Len(shown["client"]) + (IF pc["client"] = "recv" THEN 1 ELSE 0)
Echoed == Len(shown["server"]) + (IF pc["server"] \in {"close", "done"} THEN 1 ELSE 0)
Unsent == IF pc["server"] = "echo" THEN 1 ELSE 0

EchoSaid ==
    DOMAIN pc = Procs /\ DOMAIN said = Procs /\ \A x \in Sides : said[x] \in Seq(EchoLines)

EchoTypes ==
    /\ task = [p \in Procs |-> p]
    /\ DOMAIN buf = Procs /\ DOMAIN shown = Procs /\ DOMAIN mail = Procs /\ DOMAIN var = Procs
    /\ \A x \in Sides : /\ shown[x] \in Seq(Letters)
                        /\ mail[x] \in Seq([from : Sides, body : Bodies])
    /\ pc["server"] = "echo" => buf["server"] \in Bodies
    /\ pc["server"] = "send" => var["server"] \in Bodies

EchoPlaces ==
    /\ pc["client"] \in {"start", "send", "recv", "loop", "close", "done"}
    /\ pc["client"] = "start" => said["client"] = <<>> /\ shown["client"] = <<>>
    /\ pc["client"] # "start" => said["client"] \in {<<<<"a">>>>, <<<<"a", "b">>>>}
    /\ pc["client"] \in {"send", "recv"} => Len(shown["client"]) <= Len(Line)
    /\ pc["client"] = "loop" => Len(shown["client"]) <= Len(Line) + 1
    /\ pc["client"] \in {"close", "done"} => Len(shown["client"]) = Len(Line) + 1

EchoCounts ==
    /\ Len(shown["server"]) + Len(mail["server"]) <= Sent
    /\ Len(shown["client"]) + Len(mail["client"]) + Unsent <= Echoed

EchoOK == EchoTypes /\ EchoPlaces /\ EchoCounts
EchoInv == system = "echo" => EchoSaid /\ (~Left => EchoOK)

LEMMA EchoNames ==
    /\ \A b \in Bodies : /\ b \in Seq(Letters) /\ Len(b) = 1
                         /\ SubSeq(b, 1, IF 1 < Len(b) THEN 1 ELSE Len(b)) = b
    /\ word \in Bodies
<1>1. ASSUME NEW b \in Bodies
      PROVE  /\ b \in Seq(Letters) /\ Len(b) = 1
             /\ SubSeq(b, 1, IF 1 < Len(b) THEN 1 ELSE Len(b)) = b
  <2>1. PICK l \in Letters : b = <<l>>
    BY DEF Bodies
  <2>2. b \in Seq(Letters) /\ Len(b) = 1
    BY <2>1
  <2>3. SubSeq(b, 1, 1) = b
    BY <2>2, OneSegment
  <2> QED BY <2>2, <2>3
<1>2. word \in Bodies
  BY DEF word, Bodies, Letters
<1> QED BY <1>1, <1>2

(* What the calls of the echo programs change.                             *)
LEMMA EchoSends ==
    ASSUME EchoSaid, EchoTypes, NEW x \in Sides, NEW at, NEW next,
           NEW body \in Bodies, SendTo(x, at, PeerOf(x), body, FALSE, next)
    PROVE  /\ pc[x] = at /\ pc'[x] = next /\ pc'[PeerOf(x)] = pc[PeerOf(x)] /\ DOMAIN pc' = Procs
           /\ UNCHANGED <<system, task, buf, var, said, shown>>
           /\ DOMAIN mail' = Procs /\ mail'[x] = mail[x]
           /\ mail'[PeerOf(x)] \in Seq([from : Sides, body : Bodies])
           /\ Len(mail'[PeerOf(x)]) <= Len(mail[PeerOf(x)]) + 1
<1> DEFINE y == PeerOf(x)
<1>1. y \in Sides /\ y # x /\ x \in Procs /\ y \in Procs
  BY TurnNames
<1>2. /\ pc[x] = at /\ pc' = [pc EXCEPT ![x] = next]
      /\ mail' = IF pc[y] = "done" THEN mail
                 ELSE [mail EXCEPT ![y] = Append(@, Datagram(x, body))]
      /\ UNCHANGED <<system, task, buf, var, said, shown>>
  BY DEF SendTo, SendOn, At, Goto, locals, screen
<1>3. Datagram(x, body) \in [from : Sides, body : Bodies]
  BY DEF Datagram
<1>4. mail[y] \in Seq([from : Sides, body : Bodies])
  BY <1>1 DEF EchoTypes
<1>5. CASE pc[y] = "done"
  <2>1. mail' = mail
    BY <1>2, <1>5
  <2>2. Len(mail[y]) \in Nat
    BY <1>4
  <2>3. Len(mail'[y]) <= Len(mail[y]) + 1
    BY <2>1, <2>2
  <2> QED BY <1>1, <1>2, <1>4, <2>1, <2>3 DEF EchoSaid, EchoTypes
<1>6. CASE pc[y] # "done"
  <2>1. mail'[y] = Append(mail[y], Datagram(x, body)) /\ mail'[x] = mail[x] /\ DOMAIN mail' = Procs
    BY <1>1, <1>2, <1>6 DEF EchoTypes
  <2>2. mail'[y] \in Seq([from : Sides, body : Bodies]) /\ Len(mail'[y]) = Len(mail[y]) + 1
        /\ Len(mail[y]) \in Nat
    BY <1>3, <1>4, <2>1
  <2>3. Len(mail'[y]) <= Len(mail[y]) + 1
    BY <2>2
  <2> QED BY <1>1, <1>2, <2>1, <2>2, <2>3 DEF EchoSaid
<1> QED BY <1>5, <1>6

LEMMA EchoHears ==
    ASSUME EchoSaid, EchoTypes, NEW x \in Sides, NEW next, RecvFromPrint(x, "recv", 1, next)
    PROVE  /\ pc[x] = "recv" /\ pc'[x] = next /\ pc'[PeerOf(x)] = pc[PeerOf(x)]
           /\ DOMAIN pc' = Procs
           /\ UNCHANGED <<system, task, var, said>>
           /\ DOMAIN mail' = Procs /\ DOMAIN shown' = Procs /\ DOMAIN buf' = Procs
           /\ mail'[PeerOf(x)] = mail[PeerOf(x)] /\ shown'[PeerOf(x)] = shown[PeerOf(x)]
           /\ buf'[PeerOf(x)] = buf[PeerOf(x)] /\ buf'[x] \in Bodies
           /\ mail'[x] \in Seq([from : Sides, body : Bodies])
           /\ Len(mail[x]) = Len(mail'[x]) + 1
           /\ shown'[x] \in Seq(Letters) /\ Len(shown'[x]) = Len(shown[x]) + 1
<1> DEFINE y == PeerOf(x)
<1> DEFINE b == Head(mail[x]).body
<1>1. y \in Sides /\ y # x /\ x \in Procs /\ y \in Procs
  BY TurnNames
<1>2. /\ pc[x] = "recv" /\ mail[x] # <<>> /\ pc' = [pc EXCEPT ![x] = next]
      /\ LET got == SubSeq(b, 1, IF 1 < Len(b) THEN 1 ELSE Len(b)) IN
         buf' = [buf EXCEPT ![x] = got] /\ shown' = [shown EXCEPT ![x] = @ \o got]
      /\ mail' = [mail EXCEPT ![x] = Tail(@)]
      /\ UNCHANGED <<system, task, var, said>>
  BY DEF RecvFromPrint, ReceiveFrom, At, Goto
<1>3. mail[x] \in Seq([from : Sides, body : Bodies]) /\ shown[x] \in Seq(Letters)
  BY DEF EchoTypes
<1>4. Head(mail[x]) \in [from : Sides, body : Bodies] /\ Tail(mail[x]) \in Seq([from : Sides, body : Bodies])
      /\ Len(mail[x]) = Len(Tail(mail[x])) + 1
  <2>1. \A S : \A q \in Seq(S) : q # <<>> =>
          Head(q) \in S /\ Tail(q) \in Seq(S) /\ Len(q) = Len(Tail(q)) + 1
    OBVIOUS
  <2> QED BY ONLY <1>2, <1>3, <2>1
<1>5. b \in Bodies
  BY <1>4
<1> HIDE DEF b
<1>6. buf' = [buf EXCEPT ![x] = b] /\ shown' = [shown EXCEPT ![x] = @ \o b]
  BY <1>2, <1>5, EchoNames
<1>7. /\ buf'[x] = b /\ shown'[x] = shown[x] \o b /\ buf'[y] = buf[y] /\ shown'[y] = shown[y]
      /\ DOMAIN mail' = Procs /\ DOMAIN shown' = Procs /\ DOMAIN buf' = Procs
      /\ mail'[x] = Tail(mail[x]) /\ mail'[y] = mail[y]
  BY <1>1, <1>2, <1>6 DEF EchoTypes
<1>8. shown[x] \o b \in Seq(Letters) /\ Len(shown[x] \o b) = Len(shown[x]) + 1
  <2>1. \A S : \A q, r \in Seq(S) : q \o r \in Seq(S) /\ Len(q \o r) = Len(q) + Len(r)
    OBVIOUS
  <2>2. b \in Seq(Letters) /\ Len(b) = 1
    BY <1>5, EchoNames
  <2> QED BY ONLY <1>3, <2>1, <2>2
<1>9. pc'[x] = next /\ pc'[y] = pc[y] /\ DOMAIN pc' = Procs
  BY <1>1, <1>2 DEF EchoSaid
<1> QED BY <1>2, <1>4, <1>5, <1>7, <1>8, <1>9

-----------------------------------------------------------------------------
LEMMA EchoLens ==
    ASSUME EchoTypes
    PROVE  /\ Len(shown["client"]) \in Nat /\ Len(shown["server"]) \in Nat
           /\ Len(mail["client"]) \in Nat /\ Len(mail["server"]) \in Nat
<1>1. \A x \in Sides : Len(shown[x]) \in Nat /\ Len(mail[x]) \in Nat
  BY DEF EchoTypes
<1> QED BY <1>1, TurnNames

(* The server moves without showing or sending anything.                   *)
LEMMA EchoServerGoesOn ==
    ASSUME EchoSaid, EchoOK, NEW next,
           pc' = [pc EXCEPT !["server"] = next], UNCHANGED <<system, task, buf, shown, mail>>,
           said'["client"] = said["client"], DOMAIN var' = Procs,
           pc["server"] \notin {"echo", "close", "done"},
           next \notin {"echo", "close", "done"},
           next = "send" => var'["server"] \in Bodies
    PROVE  EchoOK'
<1>1. pc'["client"] = pc["client"] /\ pc'["server"] = next
  BY TurnNames DEF EchoSaid
<1>2. EchoTypes'
  BY <1>1 DEF EchoOK, EchoTypes
<1>3. EchoPlaces'
  BY <1>1 DEF EchoOK, EchoPlaces, Line
<1>4. Sent' = Sent /\ Echoed' = Echoed /\ Unsent' = Unsent
  BY <1>1 DEF Sent, Echoed, Unsent
<1>5. EchoCounts'
  BY <1>4 DEF EchoOK, EchoCounts
<1> QED BY <1>2, <1>3, <1>5 DEF EchoOK

LEMMA EchoServerSends ==
    ASSUME EchoSaid, EchoOK, NEW at, NEW next, NEW body \in Bodies,
           SendTo("server", at, "client", body, FALSE, next),
           \/ at = "echo" /\ next = "next"
           \/ at = "send" /\ next = "close"
    PROVE  EchoOK'
<1>1. "server" \in Sides /\ PeerOf("server") = "client" /\ EchoTypes
  BY TurnNames DEF EchoOK
<1>0. PICK sc \in Nat, ss \in Nat, mc \in Nat, ms \in Nat :
        /\ sc = Len(shown["client"]) /\ ss = Len(shown["server"])
        /\ mc = Len(mail["client"]) /\ ms = Len(mail["server"])
  BY <1>1, EchoLens
<1>2. /\ pc["server"] = at /\ pc'["server"] = next /\ pc'["client"] = pc["client"]
      /\ UNCHANGED <<system, task, buf, var, said, shown>>
      /\ DOMAIN mail' = Procs /\ mail'["server"] = mail["server"]
      /\ mail'["client"] \in Seq([from : Sides, body : Bodies])
      /\ Len(mail'["client"]) <= Len(mail["client"]) + 1
  <2>1. SendTo("server", at, PeerOf("server"), body, FALSE, next)
    BY <1>1
  <2> QED BY <1>1, <2>1, EchoSends
<1>3. EchoTypes'
  BY <1>1, <1>2, TurnNames DEF EchoTypes
<1>4. EchoPlaces'
  BY <1>2 DEF EchoOK, EchoPlaces, Line
<1>5. Sent' = Sent
  BY <1>2 DEF Sent
<1>6. PICK l \in Nat : l = Len(mail'["client"])
  BY <1>2
<1>7. sc + l + Unsent' <= Echoed'
  <2>1. sc + mc + Unsent <= Echoed
    BY <1>0 DEF EchoOK, EchoCounts
  <2>2. l <= mc + 1
    BY <1>0, <1>2, <1>6
  <2>3. CASE at = "echo" /\ next = "next"
    <3>1. Unsent = 1 /\ Unsent' = 0 /\ Echoed' = ss /\ Echoed = ss
      BY <1>0, <1>2, <2>3 DEF Unsent, Echoed
    <3> QED BY <2>1, <2>2, <3>1
  <2>4. CASE at = "send" /\ next = "close"
    <3>1. Unsent = 0 /\ Unsent' = 0 /\ Echoed' = ss + 1 /\ Echoed = ss
      BY <1>0, <1>2, <2>4 DEF Unsent, Echoed
    <3> QED BY <2>1, <2>2, <3>1
  <2> QED BY <2>3, <2>4
<1>8. EchoCounts'
  BY <1>0, <1>2, <1>5, <1>6, <1>7 DEF EchoOK, EchoCounts
<1> QED BY <1>3, <1>4, <1>8 DEF EchoOK

LEMMA EchoServerHears ==
    ASSUME EchoSaid, EchoOK, RecvFromPrint("server", "recv", 1, "echo")
    PROVE  EchoOK'
<1>1. "server" \in Sides /\ PeerOf("server") = "client" /\ EchoTypes
  BY TurnNames DEF EchoOK
<1>0. PICK sc \in Nat, ss \in Nat, mc \in Nat, ms \in Nat :
        /\ sc = Len(shown["client"]) /\ ss = Len(shown["server"])
        /\ mc = Len(mail["client"]) /\ ms = Len(mail["server"])
  BY <1>1, EchoLens
<1>2. /\ pc["server"] = "recv" /\ pc'["server"] = "echo" /\ pc'["client"] = pc["client"]
      /\ UNCHANGED <<system, task, var, said>>
      /\ DOMAIN mail' = Procs /\ DOMAIN shown' = Procs /\ DOMAIN buf' = Procs
      /\ mail'["client"] = mail["client"] /\ shown'["client"] = shown["client"]
      /\ buf'["server"] \in Bodies
      /\ mail'["server"] \in Seq([from : Sides, body : Bodies])
      /\ Len(mail["server"]) = Len(mail'["server"]) + 1
      /\ shown'["server"] \in Seq(Letters)
      /\ Len(shown'["server"]) = Len(shown["server"]) + 1
  BY <1>1, EchoHears
<1>3. EchoTypes'
  BY <1>1, <1>2, TurnNames DEF EchoTypes
<1>4. EchoPlaces'
  BY <1>2 DEF EchoOK, EchoPlaces, Line
<1>5. Sent' = Sent
  BY <1>2 DEF Sent
<1>6. PICK l \in Nat, n \in Nat : l = Len(mail'["server"]) /\ n = Len(shown'["server"])
  <2>1. Len(mail'["server"]) \in Nat /\ Len(shown'["server"]) \in Nat
    BY <1>2
  <2> QED BY <2>1
<1>7. n + l <= Sent
  <2>1. ss + ms <= Sent
    BY <1>0 DEF EchoOK, EchoCounts
  <2>2. ms = l + 1 /\ n = ss + 1
    BY <1>0, <1>2, <1>6
  <2>3. ss + ms = n + l
    BY <2>2
  <2> QED BY <2>1, <2>3
<1>8. sc + mc + Unsent' <= Echoed'
  <2>1. sc + mc + Unsent <= Echoed
    BY <1>0 DEF EchoOK, EchoCounts
  <2>2. Unsent = 0 /\ Unsent' = 1 /\ Echoed = ss
    BY <1>0, <1>2 DEF Unsent, Echoed
  <2>3. Echoed' = ss + 1
    <3>1. Echoed' = n
      BY <1>2, <1>6 DEF Echoed
    <3> QED BY <1>0, <1>2, <1>6, <3>1
  <2> QED BY <2>1, <2>2, <2>3
<1>9. EchoCounts'
  BY <1>0, <1>2, <1>5, <1>6, <1>7, <1>8 DEF EchoCounts
<1> QED BY <1>3, <1>4, <1>9 DEF EchoOK

(* A side ends.                                                            *)
LEMMA EchoEnds ==
    ASSUME EchoSaid, EchoOK, NEW x \in Sides, Exit(x, "close")
    PROVE  EchoOK'
<1>1. task[x] = x
  BY TurnNames DEF EchoOK, EchoTypes
<1>2. /\ pc[x] = "close" /\ pc' = Ended({x}) /\ DOMAIN buf' = Procs /\ DOMAIN var' = Procs
      /\ UNCHANGED <<system, task, mail, said, shown>>
      /\ buf' = Forgotten({x}, buf) /\ var' = Forgotten({x}, var)
  BY <1>1 DEF Exit, At, Kill, screen, Forgotten
<1>3. pc'[x] = "done" /\ \A y \in Sides \ {x} : pc'[y] = pc[y] /\ buf'[y] = buf[y] /\ var'[y] = var[y]
  BY <1>2, TurnNames DEF Ended, Forgotten, EchoOK, EchoTypes
<1>4. EchoTypes'
  BY <1>2, <1>3, TurnNames DEF EchoOK, EchoTypes
<1>5. EchoPlaces'
  BY <1>2, <1>3, TurnNames DEF EchoOK, EchoPlaces, Line
<1>6. Sent' = Sent /\ Echoed' = Echoed /\ Unsent' = Unsent
  BY <1>2, <1>3, TurnNames DEF Sent, Echoed, Unsent
<1>7. EchoCounts'
  BY <1>2, <1>6 DEF EchoOK, EchoCounts
<1> QED BY <1>4, <1>5, <1>7 DEF EchoOK

-----------------------------------------------------------------------------
(* The client: its line, a character of it, the echo, and on.               *)
LEMMA EchoClientTypes ==
    ASSUME EchoSaid, EchoOK, Type("client", "start", {<<"a">>, <<"a", "b">>}, "send")
    PROVE  EchoOK'
<1>1. PICK m \in {<<"a">>, <<"a", "b">>} :
        /\ pc["client"] = "start" /\ pc' = [pc EXCEPT !["client"] = "send"]
        /\ said' = [said EXCEPT !["client"] = Append(@, m)]
        /\ var' = [var EXCEPT !["client"] = m]
        /\ UNCHANGED <<system, task, buf, shown, mail>>
  BY DEF Type, At, Goto, net
<1>2. /\ pc'["client"] = "send" /\ pc'["server"] = pc["server"]
      /\ said["client"] = <<>> /\ shown["client"] = <<>> /\ said'["client"] = <<m>>
      /\ DOMAIN var' = Procs /\ var'["server"] = var["server"]
  <2>1. said["client"] = <<>> /\ shown["client"] = <<>>
    BY <1>1 DEF EchoOK, EchoPlaces
  <2>2. said'["client"] = Append(<<>>, m)
    BY <1>1, <2>1, TurnNames DEF EchoSaid
  <2> QED BY <1>1, <2>1, <2>2, TurnNames DEF EchoSaid, EchoOK, EchoTypes
<1>3. EchoTypes'
  BY <1>1, <1>2 DEF EchoOK, EchoTypes
<1>4. Line' = m /\ Len(m) \in Nat
  BY <1>2 DEF Line
<1>5. EchoPlaces'
  <2>1. Len(shown'["client"]) <= Len(Line')
    BY <1>1, <1>2, <1>4
  <2>2. said'["client"] \in {<<<<"a">>>>, <<<<"a", "b">>>>}
    BY <1>2
  <2> QED BY <1>2, <2>1, <2>2 DEF EchoPlaces
<1>6. Sent' = Sent /\ Echoed' = Echoed /\ Unsent' = Unsent
  BY <1>1, <1>2 DEF Sent, Echoed, Unsent
<1>7. EchoCounts'
  BY <1>1, <1>6 DEF EchoOK, EchoCounts
<1> QED BY <1>3, <1>5, <1>7 DEF EchoOK

LEMMA EchoLetter ==
    ASSUME EchoSaid, EchoOK, pc["client"] = "send"
    PROVE  <<(said["client"][1] \o <<"NUL">>)[Len(shown["client"]) + 1]>> \in Bodies
<1>1. PICK n \in Nat : n = Len(shown["client"]) /\ n <= Len(Line)
  <2>1. EchoTypes /\ Len(shown["client"]) <= Len(Line)
    BY DEF EchoOK, EchoPlaces
  <2>2. Len(shown["client"]) \in Nat
    BY <2>1, EchoLens
  <2> QED BY <2>1, <2>2
<1>2. Line = <<"a">> \/ Line = <<"a", "b">>
  BY DEF EchoOK, EchoPlaces, Line
<1>3. (Line \o <<"NUL">>)[n + 1] \in Letters
  <2>1. /\ Line \in Seq(Letters) /\ <<"NUL">> \in Seq(Letters) /\ Len(<<"NUL">>) = 1
        /\ Len(Line) \in Nat
    <3>1. Line = <<"a">> => Line \in Seq(Letters) /\ Len(Line) = 1
      BY DEF Letters
    <3>2. Line = <<"a", "b">> => Line \in Seq(Letters) /\ Len(Line) = 2
      BY DEF Letters
    <3>3. <<"NUL">> \in Seq(Letters) /\ Len(<<"NUL">>) = 1
      BY DEF Letters
    <3> QED BY <1>2, <3>1, <3>2, <3>3
  <2>2. \A S : \A q, r \in Seq(S) : q \o r \in Seq(S) /\ Len(q \o r) = Len(q) + Len(r)
    OBVIOUS
  <2>3. Line \o <<"NUL">> \in Seq(Letters) /\ Len(Line \o <<"NUL">>) = Len(Line) + 1
    BY ONLY <2>1, <2>2
  <2>4. n + 1 \in 1 .. Len(Line \o <<"NUL">>)
    BY <1>1, <2>1, <2>3
  <2>5. \A S : \A q \in Seq(S) : \A i \in 1 .. Len(q) : q[i] \in S
    OBVIOUS
  <2> QED BY ONLY <2>3, <2>4, <2>5
<1> QED BY <1>1, <1>3 DEF Line, Bodies

LEMMA EchoClientSends ==
    ASSUME EchoSaid, EchoOK, NEW body \in Bodies,
           SendTo("client", "send", "server", body, FALSE, "recv")
    PROVE  EchoOK'
<1>1. "client" \in Sides /\ PeerOf("client") = "server" /\ EchoTypes
  BY TurnNames DEF EchoOK
<1>2. PICK sc \in Nat, ss \in Nat, mc \in Nat, ms \in Nat :
        /\ sc = Len(shown["client"]) /\ ss = Len(shown["server"])
        /\ mc = Len(mail["client"]) /\ ms = Len(mail["server"])
  BY <1>1, EchoLens
<1>3. /\ pc["client"] = "send" /\ pc'["client"] = "recv" /\ pc'["server"] = pc["server"]
      /\ UNCHANGED <<system, task, buf, var, said, shown>>
      /\ DOMAIN mail' = Procs /\ mail'["client"] = mail["client"]
      /\ mail'["server"] \in Seq([from : Sides, body : Bodies])
      /\ Len(mail'["server"]) <= Len(mail["server"]) + 1
  <2>1. SendTo("client", "send", PeerOf("client"), body, FALSE, "recv")
    BY <1>1
  <2> QED BY <1>1, <2>1, EchoSends
<1>4. EchoTypes'
  BY <1>1, <1>3, TurnNames DEF EchoTypes
<1>5. EchoPlaces'
  BY <1>3 DEF EchoOK, EchoPlaces, Line
<1>6. PICK l \in Nat : l = Len(mail'["server"])
  BY <1>3
<1>7. ss + l <= Sent'
  <2>1. ss + ms <= Sent
    BY <1>2 DEF EchoOK, EchoCounts
  <2>2. l <= ms + 1
    BY <1>2, <1>3, <1>6
  <2>3. Sent = sc /\ Sent' = sc + 1
    BY <1>2, <1>3 DEF Sent
  <2> QED BY <2>1, <2>2, <2>3
<1>8. Echoed' = Echoed /\ Unsent' = Unsent
  BY <1>3 DEF Echoed, Unsent
<1>9. EchoCounts'
  BY <1>2, <1>3, <1>6, <1>7, <1>8 DEF EchoOK, EchoCounts
<1> QED BY <1>4, <1>5, <1>9 DEF EchoOK

LEMMA EchoClientHears ==
    ASSUME EchoSaid, EchoOK, RecvFromPrint("client", "recv", 1, "loop")
    PROVE  EchoOK'
<1>1. "client" \in Sides /\ PeerOf("client") = "server" /\ EchoTypes
  BY TurnNames DEF EchoOK
<1>2. PICK sc \in Nat, ss \in Nat, mc \in Nat, ms \in Nat :
        /\ sc = Len(shown["client"]) /\ ss = Len(shown["server"])
        /\ mc = Len(mail["client"]) /\ ms = Len(mail["server"])
  BY <1>1, EchoLens
<1>3. /\ pc["client"] = "recv" /\ pc'["client"] = "loop" /\ pc'["server"] = pc["server"]
      /\ UNCHANGED <<system, task, var, said>>
      /\ DOMAIN mail' = Procs /\ DOMAIN shown' = Procs /\ DOMAIN buf' = Procs
      /\ mail'["server"] = mail["server"] /\ shown'["server"] = shown["server"]
      /\ buf'["server"] = buf["server"]
      /\ mail'["client"] \in Seq([from : Sides, body : Bodies])
      /\ Len(mail["client"]) = Len(mail'["client"]) + 1
      /\ shown'["client"] \in Seq(Letters)
      /\ Len(shown'["client"]) = Len(shown["client"]) + 1
  BY <1>1, EchoHears
<1>4. EchoTypes'
  BY <1>1, <1>3, TurnNames DEF EchoTypes
<1>5. PICK l \in Nat, n \in Nat : l = Len(mail'["client"]) /\ n = Len(shown'["client"])
  <2>1. Len(mail'["client"]) \in Nat /\ Len(shown'["client"]) \in Nat
    BY <1>3
  <2> QED BY <2>1
<1>6. n = sc + 1 /\ mc = l + 1
  BY <1>2, <1>3, <1>5
<1>7. EchoPlaces'
  <2>1. said["client"] \in {<<<<"a">>>>, <<<<"a", "b">>>>} /\ sc <= Len(Line)
    BY <1>2, <1>3 DEF EchoOK, EchoPlaces
  <2>2. PICK k \in Nat : k = Len(Line)
    <3>1. Line = <<"a">> \/ Line = <<"a", "b">>
      BY <2>1 DEF Line
    <3>2. Len(Line) = 1 \/ Len(Line) = 2
      BY <3>1
    <3> QED BY <3>2
  <2>3. n <= k + 1
    BY <1>6, <2>1, <2>2
  <2>4. Line' = Line
    BY <1>3 DEF Line
  <2>5. Len(shown'["client"]) <= Len(Line') + 1
    BY <1>5, <2>2, <2>3, <2>4
  <2>6. said'["client"] \in {<<<<"a">>>>, <<<<"a", "b">>>>}
    BY <1>3, <2>1
  <2> QED BY <1>3, <2>5, <2>6 DEF EchoPlaces
<1>8. ss + ms <= Sent'
  <2>1. ss + ms <= Sent
    BY <1>2 DEF EchoOK, EchoCounts
  <2>2. Sent = sc + 1
    BY <1>2, <1>3 DEF Sent
  <2>3. Sent' = n + 0
    BY <1>3, <1>5 DEF Sent
  <2> QED BY <1>6, <2>1, <2>2, <2>3
<1>9. n + l + Unsent' <= Echoed'
  <2>1. sc + mc + Unsent <= Echoed
    BY <1>2 DEF EchoOK, EchoCounts
  <2>2. Unsent' = Unsent /\ Echoed' = Echoed /\ Unsent \in Nat
    BY <1>3 DEF Unsent, Echoed
  <2>3. n + l = sc + mc
    BY <1>6
  <2> QED BY <2>1, <2>2, <2>3
<1>10. EchoCounts'
  BY <1>2, <1>3, <1>5, <1>8, <1>9 DEF EchoCounts
<1> QED BY <1>4, <1>7, <1>10 DEF EchoOK

LEMMA EchoClientJumps ==
    ASSUME EchoSaid, EchoOK,
           Jump("client", "loop", IF Len(shown["client"]) > Len(said["client"][1])
                                  THEN "close" ELSE "send")
    PROVE  EchoOK'
<1> DEFINE next == IF Len(shown["client"]) > Len(Line) THEN "close" ELSE "send"
<1>1. /\ pc["client"] = "loop" /\ pc' = [pc EXCEPT !["client"] = next]
      /\ UNCHANGED <<system, task, buf, var, mail, said, shown>>
  BY DEF Jump, At, Goto, locals, net, screen, Line
<1>2. pc'["client"] = next /\ pc'["server"] = pc["server"]
  BY <1>1, TurnNames DEF EchoSaid
<1>3. EchoTypes'
  BY <1>1, <1>2 DEF EchoOK, EchoTypes
<1>4. PICK n \in Nat : n = Len(shown["client"])
  BY EchoLens DEF EchoOK
<1>5. PICK k \in Nat : k = Len(Line)
  <2>1. Line = <<"a">> \/ Line = <<"a", "b">>
    BY <1>1 DEF Line, EchoOK, EchoPlaces
  <2>2. Len(Line) = 1 \/ Len(Line) = 2
    BY <2>1
  <2> QED BY <2>2
<1>6. n <= k + 1
  BY <1>1, <1>4, <1>5 DEF EchoOK, EchoPlaces
<1>7. Line' = Line /\ shown' = shown /\ said'["client"] = said["client"]
  BY <1>1 DEF Line
<1>8. EchoPlaces'
  <2>1. said'["client"] \in {<<<<"a">>>>, <<<<"a", "b">>>>}
    BY <1>1, <1>7 DEF EchoOK, EchoPlaces
  <2>2. CASE n > k
    <3>1. next = "close" /\ n = k + 1
      BY <1>4, <1>5, <1>6, <2>2
    <3>2. Len(shown'["client"]) = Len(Line') + 1
      BY <1>4, <1>5, <1>7, <3>1
    <3> QED BY <1>2, <2>1, <3>1, <3>2 DEF EchoPlaces
  <2>3. CASE n <= k
    <3>1. next = "send" /\ Len(shown'["client"]) <= Len(Line')
      BY <1>4, <1>5, <1>7, <2>3
    <3> QED BY <1>2, <2>1, <3>1 DEF EchoPlaces
  <2> QED BY <1>4, <1>5, <2>2, <2>3
<1>9. Sent' = Sent /\ Echoed' = Echoed /\ Unsent' = Unsent
  <2>1. pc["client"] # "recv" /\ pc'["client"] # "recv"
    BY <1>1, <1>2
  <2> QED BY <1>1, <1>2, <2>1 DEF Sent, Echoed, Unsent
<1>10. EchoCounts'
  BY <1>1, <1>9 DEF EchoOK, EchoCounts
<1> QED BY <1>3, <1>8, <1>10 DEF EchoOK

-----------------------------------------------------------------------------
LEMMA EchoServerStep ==
    ASSUME EchoSaid, EchoOK, EchoServer("server")
    PROVE  EchoOK'
<1> DEFINE x == "server"
<1>1. DOMAIN var = Procs
  BY DEF EchoOK, EchoTypes
<1>2. ASSUME NEW v, NEW at, NEW next, Assign(x, at, v, next),
             at \in {"start", "next"}, next = "loop"
      PROVE  EchoOK'
  <2>1. /\ pc[x] = at /\ pc' = [pc EXCEPT ![x] = next] /\ var' = [var EXCEPT ![x] = v]
        /\ UNCHANGED <<system, task, buf, shown, mail, said>>
    BY <1>2 DEF Assign, At, Goto, net, screen
  <2>2. pc[x] \notin {"echo", "close", "done"} /\ next \notin {"echo", "close", "done"}
        /\ next # "send" /\ DOMAIN var' = Procs /\ said'["client"] = said["client"]
    BY <1>1, <1>2, <2>1
  <2> QED BY <2>1, <2>2, EchoServerGoesOn
<1>3. CASE \E rounds \in 0 .. MaxRounds : Assign(x, "start", <<"rounds", rounds>>, "loop")
  BY <1>2, <1>3
<1>4. CASE Assign(x, "next", [var[x] EXCEPT ![2] = @ - 1], "loop")
  <2>1. PICK v : v = [var[x] EXCEPT ![2] = @ - 1]
    OBVIOUS
  <2> QED BY <1>2, <1>4, <2>1
<1>5. CASE Jump(x, "loop", IF var[x][2] = 0 THEN "type" ELSE "recv")
  <2>1. PICK next : next = IF var[x][2] = 0 THEN "type" ELSE "recv"
    OBVIOUS
  <2>2. /\ pc[x] = "loop" /\ pc' = [pc EXCEPT ![x] = next]
        /\ UNCHANGED <<system, task, buf, var, shown, mail, said>>
    BY <1>5, <2>1 DEF Jump, At, Goto, locals, net, screen
  <2>3. pc[x] \notin {"echo", "close", "done"} /\ next \notin {"echo", "close", "done"}
        /\ next # "send" /\ DOMAIN var' = Procs /\ said'["client"] = said["client"]
    BY <1>1, <2>1, <2>2
  <2> QED BY <2>2, <2>3, EchoServerGoesOn
<1>6. CASE RecvFromPrint(x, "recv", 1, "echo")
  BY <1>6, EchoServerHears
<1>7. CASE SendTo(x, "echo", "client", buf[x], FALSE, "next")
  <2>1. PICK b : b = buf[x]
    OBVIOUS
  <2>2. b \in Bodies
    BY <1>7, <2>1 DEF SendTo, SendOn, At, EchoOK, EchoTypes
  <2> QED BY <1>7, <2>1, <2>2, EchoServerSends
<1>8. CASE Type(x, "type", {word}, "send")
  <2>1. /\ pc[x] = "type" /\ pc' = [pc EXCEPT ![x] = "send"]
        /\ said' = [said EXCEPT ![x] = Append(@, word)] /\ var' = [var EXCEPT ![x] = word]
        /\ UNCHANGED <<system, task, buf, shown, mail>>
    BY <1>8 DEF Type, At, Goto, net
  <2>2. said'["client"] = said["client"] /\ DOMAIN var' = Procs /\ var'[x] = word
        /\ pc[x] \notin {"echo", "close", "done"}
    BY <1>1, <2>1, TurnNames DEF EchoSaid
  <2> QED BY <2>1, <2>2, EchoNames, EchoServerGoesOn
<1>9. CASE SendTo(x, "send", "client", var[x], FALSE, "close")
  <2>1. PICK b : b = var[x]
    OBVIOUS
  <2>2. b \in Bodies
    BY <1>9, <2>1 DEF SendTo, SendOn, At, EchoOK, EchoTypes
  <2> QED BY <1>9, <2>1, <2>2, EchoServerSends
<1>10. CASE Exit(x, "close")
  BY <1>10, TurnNames, EchoEnds
<1> QED BY <1>3, <1>4, <1>5, <1>6, <1>7, <1>8, <1>9, <1>10 DEF EchoServer

LEMMA EchoClientStep ==
    ASSUME EchoSaid, EchoOK, EchoClient("client")
    PROVE  EchoOK'
<1> DEFINE x == "client"
<1>1. CASE Type(x, "start", {<<"a">>, <<"a", "b">>}, "send")
  BY <1>1, EchoClientTypes
<1>2. CASE SendTo(x, "send", "server",
                  <<(said[x][1] \o <<"NUL">>)[Len(shown[x]) + 1]>>, FALSE, "recv")
  <2>1. PICK b : b = <<(said[x][1] \o <<"NUL">>)[Len(shown[x]) + 1]>>
    OBVIOUS
  <2>2. pc[x] = "send"
    BY <1>2 DEF SendTo, SendOn, At
  <2>3. b \in Bodies
    BY <2>1, <2>2, EchoLetter
  <2> QED BY <1>2, <2>1, <2>3, EchoClientSends
<1>3. CASE RecvFromPrint(x, "recv", 1, "loop")
  BY <1>3, EchoClientHears
<1>4. CASE Jump(x, "loop", IF Len(shown[x]) > Len(said[x][1]) THEN "close" ELSE "send")
  BY <1>4, EchoClientJumps
<1>5. CASE Exit(x, "close")
  BY <1>5, TurnNames, EchoEnds
<1> QED BY <1>1, <1>2, <1>3, <1>4, <1>5 DEF EchoClient

-----------------------------------------------------------------------------
LEMMA EchoInitially == Init => EchoInv
<1> SUFFICES ASSUME Init, system = "echo" PROVE EchoSaid /\ EchoOK
  BY DEF EchoInv
<1> DEFINE start == [p \in Procs |-> CASE p = "server" -> "start"
                                       [] p = "client" -> "start"
                                       [] OTHER -> "none"]
<1>1. TurnInit
  BY DEF Init, ChatInit, ExchangeInit, ChatSystems, ExchangeSystems
<1>2. SocketsInit(start, {}, <<>>)
  BY <1>1 DEF TurnInit, TCPTurns, UDPTurns
<1>3. DOMAIN start = Procs /\ start["server"] = "start" /\ start["client"] = "start"
  BY TurnNames
<1> HIDE DEF start
<1>4. /\ pc = start /\ said = [p \in Procs |-> <<>>] /\ buf = [p \in Procs |-> <<>>]
      /\ mail = [p \in Procs |-> <<>>] /\ task = [p \in Procs |-> p]
      /\ var = [p \in Procs |-> <<>>] /\ shown = [p \in Procs |-> <<>>]
  BY <1>2 DEF SocketsInit
<1>5. EchoSaid
  BY <1>3, <1>4, TurnNames DEF EchoSaid
<1>6. EchoTypes
  BY <1>3, <1>4, TurnNames DEF EchoTypes
<1>7. EchoPlaces
  BY <1>3, <1>4, TurnNames DEF EchoPlaces
<1>8. \A x \in Sides : Len(shown[x]) = 0 /\ Len(mail[x]) = 0
  BY <1>4, TurnNames
<1>9. EchoCounts
  BY <1>3, <1>4, <1>8, TurnNames DEF EchoCounts, Sent, Echoed, Unsent
<1> QED BY <1>5, <1>6, <1>7, <1>9 DEF EchoOK

LEMMA EchoLinesAdded ==
    ASSUME NEW x \in Sides, EchoSaid, DOMAIN pc' = Procs,
           said' = said \/ \E m \in EchoLines : said' = [said EXCEPT ![x] = Append(@, m)]
    PROVE  EchoSaid' /\ (Left => Left')
<1>1. DOMAIN said = Procs /\ \A y \in Sides : said[y] \in Seq(EchoLines)
  BY DEF EchoSaid
<1>2. PICK m \in EchoLines : said' = said \/ said' = [said EXCEPT ![x] = Append(@, m)]
  BY DEF EchoLines
<1>3. DOMAIN said' = Procs /\ (\A y \in Sides : said'[y] \in Seq(EchoLines)) /\ (Left => Left')
  BY <1>1, <1>2, LinesAdded
<1> QED BY <1>3 DEF EchoSaid

(* A step of x adds at most one line.                                      *)
EchoMoves(x) ==
    /\ DOMAIN pc' = Procs
    /\ said' = said \/ \E m \in EchoLines : said' = [said EXCEPT ![x] = Append(@, m)]

LEMMA EchoMove ==
    ASSUME EchoSaid, NEW x \in Sides, EchoServer(x) \/ EchoClient(x)
    PROVE  EchoMoves(x)
<1>1. \A at, next : Jump(x, at, next) => EchoMoves(x)
  BY DEF Jump, At, Goto, screen, EchoMoves, EchoSaid
<1>2. \A at, v, next : Assign(x, at, v, next) => EchoMoves(x)
  BY DEF Assign, At, Goto, screen, EchoMoves, EchoSaid
<1>3. \A at, to, body, next : SendTo(x, at, to, body, FALSE, next) => EchoMoves(x)
  BY DEF SendTo, SendOn, At, Goto, screen, EchoMoves, EchoSaid
<1>4. \A at, n, next : RecvFromPrint(x, at, n, next) => EchoMoves(x)
  BY DEF RecvFromPrint, ReceiveFrom, At, Goto, EchoMoves, EchoSaid
<1>5. \A at : Exit(x, at) => EchoMoves(x)
  BY DEF Exit, Kill, Ended, screen, EchoMoves
<1>6. \A at, inputs, next : inputs \subseteq EchoLines /\ Type(x, at, inputs, next) => EchoMoves(x)
  BY DEF Type, At, Goto, EchoMoves, EchoSaid
<1>7. {word} \subseteq EchoLines /\ {<<"a">>, <<"a", "b">>} \subseteq EchoLines
  BY DEF EchoLines
<1>8. EchoServer(x) => EchoMoves(x)
  <2> SUFFICES ASSUME EchoServer(x) PROVE EchoMoves(x)
    OBVIOUS
  <2>1. CASE \E rounds \in 0 .. MaxRounds : Assign(x, "start", <<"rounds", rounds>>, "loop")
    BY <1>2, <2>1
  <2>2. CASE Jump(x, "loop", IF var[x][2] = 0 THEN "type" ELSE "recv")
    BY <1>1, <2>2
  <2>3. CASE RecvFromPrint(x, "recv", 1, "echo")
    BY <1>4, <2>3
  <2>4. CASE SendTo(x, "echo", "client", buf[x], FALSE, "next")
    BY <1>3, <2>4
  <2>5. CASE Assign(x, "next", [var[x] EXCEPT ![2] = @ - 1], "loop")
    BY <1>2, <2>5
  <2>6. CASE Type(x, "type", {word}, "send")
    BY <1>6, <1>7, <2>6
  <2>7. CASE SendTo(x, "send", "client", var[x], FALSE, "close")
    BY <1>3, <2>7
  <2>8. CASE Exit(x, "close")
    BY <1>5, <2>8
  <2> QED BY <2>1, <2>2, <2>3, <2>4, <2>5, <2>6, <2>7, <2>8 DEF EchoServer
<1>9. EchoClient(x) => EchoMoves(x)
  <2> SUFFICES ASSUME EchoClient(x) PROVE EchoMoves(x)
    OBVIOUS
  <2>1. CASE Type(x, "start", {<<"a">>, <<"a", "b">>}, "send")
    BY <1>6, <1>7, <2>1
  <2>2. CASE SendTo(x, "send", "server",
                    <<(said[x][1] \o <<"NUL">>)[Len(shown[x]) + 1]>>, FALSE, "recv")
    BY <1>3, <2>2
  <2>3. CASE RecvFromPrint(x, "recv", 1, "loop")
    BY <1>4, <2>3
  <2>4. CASE Jump(x, "loop", IF Len(shown[x]) > Len(said[x][1]) THEN "close" ELSE "send")
    BY <1>1, <2>4
  <2>5. CASE Exit(x, "close")
    BY <1>5, <2>5
  <2> QED BY <2>1, <2>2, <2>3, <2>4, <2>5 DEF EchoClient
<1> QED BY <1>8, <1>9

LEMMA EchoInvKept == EchoInv /\ [Next]_vars => EchoInv'
<1> SUFFICES ASSUME EchoInv, [Next]_vars, system' = "echo"
             PROVE  EchoSaid' /\ (~Left' => EchoOK')
  BY DEF EchoInv
<1>1. system = "echo"
  BY SystemKept DEF vars
<1>2. EchoSaid /\ (~Left => EchoOK)
  BY <1>1 DEF EchoInv
<1>3. CASE UNCHANGED vars
  <2>1. EchoSaid' /\ (Left => Left')
    BY <1>2, <1>3 DEF vars, screen, EchoSaid, Left, Typed
  <2>2. EchoOK => EchoOK'
    BY <1>3 DEF vars, net, locals, screen, EchoOK, EchoTypes, EchoPlaces, EchoCounts, Line,
                Sent, Echoed, Unsent
  <2> QED BY <1>2, <2>1, <2>2
<1>4. CASE Next
  <2>1. PICK x \in Sides : TurnProgram(x) \/ Interrupt(x, {x})
    BY <1>1, <1>4 DEF Next, ChatNext, TurnNext, ExchangeNext, ChatSystems, ExchangeSystems, Sides
  <2>2. CASE Interrupt(x, {x})
    <3>1. said' = [said EXCEPT ![x] = Append(@, <<"^C">>)] /\ DOMAIN pc' = Procs
      BY <2>2 DEF Interrupt, Ended
    <3>2. EchoSaid'
      BY <1>2, <3>1, EchoLinesAdded DEF EchoLines
    <3>3. said[x] \in Seq(EchoLines) /\ said'[x] = Append(said[x], <<"^C">>)
      BY <1>2, <3>1, TurnNames DEF EchoSaid
    <3>4. Len(said[x]) + 1 \in DOMAIN said'[x] /\ said'[x][Len(said[x]) + 1] = <<"^C">>
      BY <3>3
    <3>5. Left'
      BY <3>4, TurnNames DEF Left, Typed
    <3> QED BY <3>2, <3>5
  <2>3. CASE TurnProgram(x)
    <3>1. \/ x = "server" /\ EchoServer("server")
          \/ x = "client" /\ EchoClient("client")
      BY <1>1, <2>3 DEF TurnProgram
    <3>2. EchoMoves(x)
      BY <1>2, <3>1, EchoMove
    <3>3. EchoSaid' /\ (Left => Left')
      BY <1>2, <3>2, EchoLinesAdded DEF EchoMoves
    <3>4. EchoOK => EchoOK'
      BY <1>2, <3>1, EchoServerStep, EchoClientStep
    <3> QED BY <1>2, <3>3, <3>4
  <2> QED BY <2>1, <2>2, <2>3
<1> QED BY <1>3, <1>4

LEMMA EchoesFit == EchoInv => EchoRoundsFit
<1> SUFFICES ASSUME EchoInv, system = "echo", ~Left, pc["client"] = "done", pc["server"] = "done"
             PROVE  Len(shown["server"]) - Len(Line) \in {0, 1}
  BY DEF EchoRoundsFit, Line
<1>1. EchoTypes /\ EchoPlaces /\ EchoCounts
  BY DEF EchoInv, EchoOK
<1>2. PICK sc \in Nat, ss \in Nat, mc \in Nat, ms \in Nat :
        /\ sc = Len(shown["client"]) /\ ss = Len(shown["server"])
        /\ mc = Len(mail["client"]) /\ ms = Len(mail["server"])
  BY <1>1, EchoLens
<1>3. PICK k \in Nat : k = Len(Line) /\ sc = k + 1
  <2>1. Line = <<"a">> \/ Line = <<"a", "b">>
    BY <1>1 DEF Line, EchoPlaces
  <2>2. Len(Line) = 1 \/ Len(Line) = 2
    BY <2>1
  <2>3. sc = Len(Line) + 1
    BY <1>1, <1>2 DEF EchoPlaces
  <2> QED BY <2>2, <2>3
<1>4. ss + ms <= sc
  <2>1. Sent = sc
    BY <1>2 DEF Sent
  <2> QED BY <1>1, <1>2, <2>1 DEF EchoCounts
<1>5. sc + mc <= ss + 1
  <2>1. Unsent = 0 /\ Echoed = ss + 1
    BY <1>2 DEF Unsent, Echoed
  <2>2. sc + mc + Unsent <= Echoed
    BY <1>1, <1>2 DEF EchoCounts
  <2> QED BY <2>1, <2>2
<1>6. ss - k \in {0, 1}
  <2>1. ss >= k /\ ss <= k + 1
    BY <1>3, <1>4, <1>5
  <2> QED BY <2>1
<1> QED BY <1>2, <1>3, <1>6

-----------------------------------------------------------------------------
(* The invariant of the programs that take turns, for every bound on what   *)
(* is typed: at most one message is under way, and the places tell which;  *)
(* in the echo programs nobody has more than the other one has sent.       *)
THEOREM TurnInvariant == Spec => [](TurnInv /\ EchoInv)
<1>1. Init => TurnInv /\ EchoInv
  BY TurnInitially, EchoInitially
<1>2. (TurnInv /\ EchoInv) /\ [Next]_vars => (TurnInv /\ EchoInv)'
  BY TurnInvKept, EchoInvKept
<1> QED BY <1>1, <1>2, PTL DEF Spec

(* Whatever the users type and however the programs of Lab01 and the one of *)
(* Unit 6 interleave, as long as nobody presses Ctrl-C: the answer a client *)
(* has in its buffer is the one to its last word, until over TCP a word    *)
(* exceeds that buffer; the two sides never both wait for the other; and   *)
(* the echo programs both end only after as many rounds as the line has    *)
(* characters, or one more.                                                *)
THEOREM TurnsAlwaysKept == Spec => []TurnsKept
<1>1. TurnInv /\ EchoInv => TurnsKept
  BY StaysInStep, SomebodyMoves, EchoesFit DEF TurnsKept
<1> QED BY <1>1, TurnInvariant, PTL

=============================================================================
