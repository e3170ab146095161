------------------------- MODULE AppendServerProofs -------------------------
(***************************************************************************)
(* Theorems about AppendServer, for any finite set of clients: the types   *)
(* of its variables, what result.txt and the displays of it hold, and who  *)
(* is told to terminate.                                                   *)
(***************************************************************************)
EXTENDS AppendServer, FiniteSetTheorems, SequenceTheorems, TLAPS

USE DEF Limit

Served == {c \in Client : child[c] # "none"} \ told

(* A client waits in the backlog once, and only before it is served.       *)
QueueOK ==
    /\ \A j, k \in 1..Len(backlog) : backlog[j] = backlog[k] => j = k
    /\ \A k \in 1..Len(backlog) : child[backlog[k]] = "none" /\ cl[backlog[k]] # "off"
    /\ \A c \in Client : cl[c] = "off" => child[c] = "none"

(* What a child has read and shown, at each of its places.                 *)
ChildOK ==
    \A c \in Client :
        /\ buffer[c] \in {c, Nothing}
        /\ child[c] \in {"none", "read"} => buffer[c] = Nothing /\ shown[c] = <<>>
        /\ child[c] \in {"append", "show"} => shown[c] = <<>>
        /\ child[c] = "close" => shown[c] # <<>>
        /\ child[c] = "closed" /\ shown[c] = <<>> => buffer[c] = Nothing
        /\ c \in told => child[c] = "closed" /\ buffer[c] = Nothing

(* Each connection the parent counts is served by at most one child.       *)
CountOK ==
    /\ parent = "accept" => told = {} /\ clientCount <= Limit
    /\ Cardinality(Served) <= clientCount
    /\ Cardinality(Served) <= Limit

(* The strings of the file are those of the children that have appended.   *)
FileOK ==
    /\ Len(file) = 1 + Cardinality(Stored)
    /\ file[1] = Manipal
    /\ \A j, k \in 1..Len(file) : file[j] \in Client /\ file[j] = file[k] => j = k
    /\ \A k \in 1..Len(file) : file[k] \in Client => file[k] \in Stored
    /\ \A c \in Stored : \E k \in 1..Len(file) : file[k] = buffer[c]

(* A display is a beginning of the file, with the string of its child.     *)
ShownOK ==
    \A c \in Client : shown[c] # <<>> =>
        /\ Len(shown[c]) <= Len(file)
        /\ \A k \in 1..Len(shown[c]) : shown[c][k] = file[k]
        /\ \E k \in 1..Len(shown[c]) : shown[c][k] = buffer[c]

IInv == TypeOK /\ QueueOK /\ ChildOK /\ CountOK /\ FileOK /\ ShownOK

-----------------------------------------------------------------------------
(* What a client does leaves the server alone.                             *)
ClientStep(c) ==
    \/ Connect(c) \/ Refused(c) \/ ReadReply(c) \/ Interrupt(c)
    \/ \E line \in Lines(c) : Send(c, line)

ServerVars == <<clientCount, parent, child, told, buffer, file, shown>>

LEMMA ClientLeavesServer ==
    ASSUME NEW c \in Client, ClientStep(c)
    PROVE  UNCHANGED ServerVars
BY DEF ClientStep, Connect, Refused, ReadReply, Interrupt, Send, Ends, ServerVars

LEMMA Steps ==
    ASSUME [Next]_vars
    PROVE  \/ \E c \in Client : ClientStep(c) \/ ChildStep(c)
           \/ ParentStep
           \/ UNCHANGED vars
BY DEF Next, ClientStep

LEMMA HeadAndTail ==
    ASSUME NEW S, NEW q \in Seq(S), q # <<>>
    PROVE  /\ Head(q) \in S /\ Head(q) = q[1] /\ 1 \in 1..Len(q)
           /\ Tail(q) \in Seq(S) /\ Len(Tail(q)) = Len(q) - 1
           /\ \A k \in 1..Len(Tail(q)) :
                 Tail(q)[k] = q[k + 1] /\ k + 1 \in 2..Len(q)
<1>1. Len(q) \in Nat /\ Len(q) # 0
  OBVIOUS
<1> QED
  BY <1>1

(* The client at the head of the backlog.                                  *)
LEMMA HeadWaits ==
    ASSUME TypeOK, QueueOK, ChildOK, backlog # <<>>
    PROVE  LET h == Head(backlog) IN
           /\ h \in Client /\ h = backlog[1] /\ 1 \in 1..Len(backlog)
           /\ child[h] = "none" /\ cl[h] # "off"
           /\ buffer[h] = Nothing /\ shown[h] = <<>> /\ h \notin told
<1> DEFINE h == Head(backlog)
<1>1. h \in Client /\ h = backlog[1] /\ 1 \in 1..Len(backlog)
  <2>1. backlog \in Seq(Client)
    BY DEF TypeOK
  <2> QED
    BY <2>1, HeadAndTail
<1>2. child[h] = "none" /\ cl[h] # "off"
  BY <1>1 DEF QueueOK
<1>3. buffer[h] = Nothing /\ shown[h] = <<>> /\ h \notin told
  BY <1>1, <1>2 DEF ChildOK
<1> QED
  BY <1>1, <1>2, <1>3

(* The parent's steps: a child, a failed fork, or the end.                 *)
LEMMA ParentTakes ==
    ASSUME TypeOK, QueueOK, ChildOK, CountOK, ParentStep
    PROVE  LET h == Head(backlog) IN
           /\ backlog # <<>> /\ backlog' = Tail(backlog)
           /\ told = {} /\ clientCount <= Limit /\ clientCount' = clientCount + 1
           /\ h \in Client /\ child[h] = "none" /\ cl[h] # "off"
           /\ buffer[h] = Nothing /\ shown[h] = <<>>
           /\ UNCHANGED <<cl, outcome, inFlight, buffer, file, shown>>
           /\ \/ /\ clientCount' <= Limit
                 /\ \E p \in {"read", "closed"} : child' = [child EXCEPT ![h] = p]
                 /\ UNCHANGED <<told, parent>>
              \/ /\ child' = [child EXCEPT ![h] = "closed"]
                 /\ told' = told \cup {h}
                 /\ parent' = "exit"
<1>1. backlog # <<>> /\ parent = "accept"
  BY DEF ParentStep, AcceptAndFork, AcceptBelow, ForkFails, RefuseAndStop, Take
<1>2. told = {} /\ clientCount <= Limit
  BY <1>1 DEF CountOK
<1> QED
  BY <1>1, <1>2, HeadWaits
     DEF ParentStep, AcceptAndFork, AcceptBelow, ForkFails, RefuseAndStop, Take

LEMMA TypeStep ==
    ASSUME IInv, [Next]_vars
    PROVE  TypeOK'
<1> USE DEF IInv, TypeOK
<1>1. ASSUME NEW c \in Client, ClientStep(c)
      PROVE  TypeOK'
  <2>1. backlog' \in Seq(Client)
    <3>1. backlog' = backlog \/ backlog' = Append(backlog, c)
      BY <1>1 DEF ClientStep, Connect, Refused, ReadReply, Interrupt, Send, Ends
    <3>2. Append(backlog, c) \in Seq(Client)
      OBVIOUS
    <3> QED
      BY <3>1, <3>2
  <2>2. /\ cl' \in [Client -> {"off", "prompt", "waiting", "done"}]
        /\ outcome' \in [Client -> {"none", "refused", "terminate_session",
                                   "closed_by_server", "interrupted"}]
    BY <1>1 DEF ClientStep, Connect, Refused, ReadReply, Interrupt, Send, Ends
  <2>3. inFlight' \subseteq Client
    BY <1>1 DEF ClientStep, Connect, Refused, ReadReply, Interrupt, Send, Ends
  <2> QED
    BY <1>1, <2>1, <2>2, <2>3, ClientLeavesServer DEF ServerVars
<1>2. ASSUME NEW c \in Client, ChildStep(c)
      PROVE  TypeOK'
  <2>1. CASE ReadString(c)
    BY <2>1 DEF ReadString, Places
  <2>2. CASE AppendString(c)
    <3>1. file' \in Seq(Client \cup {Manipal, Nothing})
      BY <2>2 DEF AppendString
    <3> QED
      BY <2>2, <3>1 DEF AppendString, Places
  <2>3. CASE ShowFile(c)
    BY <2>3 DEF ShowFile, Places
  <2>4. CASE Close(c)
    BY <2>4 DEF Close, Places
  <2> QED
    BY <1>2, <2>1, <2>2, <2>3, <2>4 DEF ChildStep
<1>3. ASSUME ParentStep
      PROVE  TypeOK'
  <2>1. Head(backlog) \in Client /\ Tail(backlog) \in Seq(Client)
    BY <1>3, ParentTakes, HeadAndTail
  <2>2. clientCount' \in 0..(Limit + 1)
    <3>1. clientCount <= Limit /\ clientCount' = clientCount + 1
      BY <1>3, ParentTakes
    <3>2. clientCount \in Nat
      OBVIOUS
    <3> QED
      BY <3>1, <3>2
  <2>3. child' \in [Client -> Places] /\ parent' \in {"accept", "exit"}
    BY <1>3, <2>1, ParentTakes DEF Places
  <2>4. told' \subseteq Client
    BY <1>3, <2>1, ParentTakes
  <2> QED
    BY <1>3, <2>1, <2>2, <2>3, <2>4, ParentTakes
<1>4. ASSUME UNCHANGED vars
      PROVE  TypeOK'
  BY <1>4 DEF vars
<1> QED
  BY <1>1, <1>2, <1>3, <1>4, Steps

-----------------------------------------------------------------------------
(* A child's step moves that child on, and nobody else.                    *)
LEMMA ChildMoves ==
    ASSUME NEW c \in Client, ChildStep(c), TypeOK
    PROVE  /\ child[c] \in {"read", "append", "show", "close"}
           /\ \E p \in {"append", "show", "close", "closed"} :
                 child' = [child EXCEPT ![c] = p]
           /\ UNCHANGED <<cl, backlog, clientCount, parent, told>>
BY DEF ChildStep, ReadString, AppendString, ShowFile, Close

LEMMA QueueStep ==
    ASSUME IInv, [Next]_vars
    PROVE  QueueOK'
<1>1. ASSUME NEW c \in Client, ClientStep(c)
      PROVE  QueueOK'
  <2>1. child' = child
    BY <1>1, ClientLeavesServer DEF ServerVars
  <2>2. CASE Connect(c)
    <3>1. \A k \in 1..Len(backlog) : backlog[k] # c
      BY <2>2 DEF IInv, QueueOK, Connect
    <3>2. /\ Len(backlog') = Len(backlog) + 1 /\ Len(backlog) \in Nat
          /\ backlog'[Len(backlog) + 1] = c
          /\ \A k \in 1..Len(backlog) : backlog'[k] = backlog[k] /\ backlog[k] \in Client
      <4>1. backlog \in Seq(Client)
        BY DEF IInv, TypeOK
      <4> QED
        BY <2>2, <4>1 DEF Connect
    <3>3. child[c] = "none" /\ cl' = [cl EXCEPT ![c] = "prompt"]
      BY <2>2 DEF IInv, QueueOK, Connect
    <3>4. cl \in [Client -> {"off", "prompt", "waiting", "done"}]
      BY DEF IInv, TypeOK
    <3>5. \A j, k \in 1..Len(backlog') : backlog'[j] = backlog'[k] => j = k
      BY <3>1, <3>2 DEF IInv, QueueOK
    <3>6. \A k \in 1..Len(backlog') : child[backlog'[k]] = "none" /\ cl'[backlog'[k]] # "off"
      BY <3>2, <3>3, <3>4 DEF IInv, QueueOK
    <3> QED
      BY <2>1, <3>3, <3>4, <3>5, <3>6 DEF IInv, QueueOK
  <2>3. CASE ~Connect(c)
    <3>1. backlog' = backlog /\ \E v \in {"waiting", "done"} : cl' = [cl EXCEPT ![c] = v]
      BY <1>1, <2>3 DEF ClientStep, Refused, ReadReply, Interrupt, Send, Ends
    <3> QED
      BY <2>1, <3>1 DEF IInv, TypeOK, QueueOK
  <2> QED
    BY <2>2, <2>3
<1>2. ASSUME NEW c \in Client, ChildStep(c)
      PROVE  QueueOK'
  <2>1. child[c] # "none"
    BY <1>2, ChildMoves DEF IInv
  <2>2. \A d \in Client : d # c => child'[d] = child[d]
    <3>1. child \in [Client -> Places]
      BY DEF IInv, TypeOK
    <3> QED
      BY <1>2, <3>1, ChildMoves DEF IInv
  <2>3. cl' = cl /\ backlog' = backlog
    BY <1>2, ChildMoves DEF IInv
  <2>4. \A k \in 1..Len(backlog) : backlog[k] \in Client
    BY DEF IInv, TypeOK
  <2> QED
    BY <2>1, <2>2, <2>3, <2>4 DEF IInv, QueueOK
<1>3. ASSUME ParentStep
      PROVE  QueueOK'
  <2> DEFINE h == Head(backlog)
  <2>1. backlog \in Seq(Client) /\ backlog # <<>> /\ backlog' = Tail(backlog)
    BY <1>3, ParentTakes DEF IInv, TypeOK
  <2>2. /\ h = backlog[1] /\ 1 \in 1..Len(backlog) /\ Len(backlog') = Len(backlog) - 1
        /\ \A k \in 1..Len(backlog') : backlog'[k] = backlog[k + 1] /\ k + 1 \in 2..Len(backlog)
    BY <2>1, HeadAndTail
  <2>3. h \in Client /\ cl' = cl /\ cl[h] # "off"
    BY <1>3, ParentTakes DEF IInv
  <2>4. \A d \in Client : d # h => child'[d] = child[d]
    BY <1>3, <2>3, ParentTakes DEF IInv, TypeOK
  <2>5. \A k \in 1..Len(backlog') : backlog'[k] \in Client /\ backlog'[k] # h
    BY <2>1, <2>2 DEF IInv, QueueOK
  <2>6. \A j, k \in 1..Len(backlog') : backlog'[j] = backlog'[k] => j = k
    BY <2>1, <2>2 DEF IInv, QueueOK
  <2>7. \A k \in 1..Len(backlog') : child'[backlog'[k]] = "none" /\ cl'[backlog'[k]] # "off"
    BY <2>1, <2>2, <2>3, <2>4, <2>5 DEF IInv, QueueOK
  <2>8. \A c \in Client : cl'[c] = "off" => child'[c] = "none"
    BY <2>3, <2>4 DEF IInv, QueueOK
  <2> QED
    BY <2>6, <2>7, <2>8 DEF QueueOK
<1>4. ASSUME UNCHANGED vars
      PROVE  QueueOK'
  BY <1>4 DEF vars, IInv, QueueOK
<1> QED
  BY <1>1, <1>2, <1>3, <1>4, Steps

(* The file is never empty: a display shows something.                     *)
LEMMA FileNotEmpty ==
    ASSUME TypeOK, FileOK
    PROVE  IsFiniteSet(Stored) /\ Len(file) >= 1 /\ file # <<>>
<1>1. IsFiniteSet(Stored) /\ Cardinality(Stored) \in Nat
  BY FS_Subset, FS_CardinalityType, ClientAssumption DEF Stored
<1>2. Len(file) >= 1
  BY <1>1 DEF FileOK
<1> QED
  BY <1>1, <1>2

LEMMA ChildrenStep ==
    ASSUME IInv, [Next]_vars
    PROVE  ChildOK'
<1> USE DEF IInv
<1>1. ASSUME NEW c \in Client, ClientStep(c)
      PROVE  ChildOK'
  BY <1>1, ClientLeavesServer DEF ServerVars, ChildOK
<1>2. ASSUME NEW c \in Client, ChildStep(c)
      PROVE  ChildOK'
  <2> USE DEF TypeOK, ChildOK
  <2>1. CASE ReadString(c)
    BY <2>1 DEF ReadString
  <2>2. CASE AppendString(c)
    BY <2>2 DEF AppendString
  <2>3. CASE ShowFile(c)
    BY <2>3, FileNotEmpty DEF ShowFile
  <2>4. CASE Close(c)
    BY <2>4 DEF Close
  <2> QED
    BY <1>2, <2>1, <2>2, <2>3, <2>4 DEF ChildStep
<1>3. ASSUME ParentStep
      PROVE  ChildOK'
  <2> DEFINE h == Head(backlog)
  <2>1. /\ buffer' = buffer /\ shown' = shown
        /\ h \in Client /\ buffer[h] = Nothing /\ shown[h] = <<>>
    BY <1>3, ParentTakes
  <2>2. /\ child'[h] \in {"read", "closed"}
        /\ h \in told' => child'[h] = "closed"
        /\ \A d \in Client : d # h => child'[d] = child[d] /\ (d \in told' <=> d \in told)
    <3>1. child \in [Client -> Places]
      BY DEF TypeOK
    <3> QED
      BY <1>3, <2>1, <3>1, ParentTakes
  <2> QED
    BY <2>1, <2>2 DEF ChildOK
<1>4. ASSUME UNCHANGED vars
      PROVE  ChildOK'
  BY <1>4 DEF vars, ChildOK
<1> QED
  BY <1>1, <1>2, <1>3, <1>4, Steps

LEMMA CountStep ==
    ASSUME IInv, [Next]_vars
    PROVE  CountOK'
<1> USE DEF IInv
<1>0. IsFiniteSet(Served) /\ Cardinality(Served) \in Nat
  BY FS_Subset, FS_CardinalityType, ClientAssumption DEF Served
<1>1. ASSUME NEW c \in Client, ClientStep(c)
      PROVE  CountOK'
  BY <1>1, ClientLeavesServer DEF ServerVars, CountOK, Served
<1>2. ASSUME NEW c \in Client, ChildStep(c)
      PROVE  CountOK'
  <2>1. /\ child[c] # "none" /\ child'[c] # "none"
        /\ \A d \in Client : d # c => child'[d] = child[d]
    <3>1. child \in [Client -> Places]
      BY DEF TypeOK
    <3> QED
      BY <1>2, <3>1, ChildMoves
  <2>2. UNCHANGED <<clientCount, parent, told>>
    BY <1>2, ChildMoves
  <2>3. Served' = Served
    BY <2>1, <2>2 DEF Served
  <2> QED
    BY <2>2, <2>3 DEF CountOK
<1>3. ASSUME ParentStep
      PROVE  CountOK'
  <2> DEFINE h == Head(backlog)
  <2>1. /\ told = {} /\ clientCount <= Limit /\ clientCount' = clientCount + 1
        /\ h \in Client /\ child[h] = "none"
    BY <1>3, ParentTakes
  <2>2. child \in [Client -> Places] /\ clientCount \in Nat
    BY DEF TypeOK
  <2>3. CASE /\ clientCount' <= Limit
             /\ \E p \in {"read", "closed"} : child' = [child EXCEPT ![h] = p]
             /\ UNCHANGED <<told, parent>>
    <3>1. Served' = Served \cup {h}
      BY <2>1, <2>2, <2>3 DEF Served
    <3>2. Cardinality(Served') <= Cardinality(Served) + 1 /\ Cardinality(Served') \in Nat
      <4>1. /\ IsFiniteSet(Served \cup {h})
            /\ Cardinality(Served \cup {h}) =
                  IF h \in Served THEN Cardinality(Served) ELSE Cardinality(Served) + 1
        BY <1>0, FS_AddElement
      <4> HIDE DEF h
      <4> QED
        BY <1>0, <3>1, <4>1
    <3>3. Cardinality(Served) <= clientCount
      BY DEF CountOK
    <3>4. Cardinality(Served') <= clientCount' /\ Cardinality(Served') <= Limit
      BY <1>0, <2>1, <2>2, <2>3, <3>2, <3>3
    <3> QED
      BY <2>1, <2>3, <3>4 DEF CountOK
  <2>4. CASE /\ child' = [child EXCEPT ![h] = "closed"]
             /\ told' = told \cup {h}
             /\ parent' = "exit"
    <3>1. Served' = Served
      BY <2>1, <2>2, <2>4 DEF Served
    <3>2. Cardinality(Served) <= clientCount /\ Cardinality(Served) <= Limit
      BY DEF CountOK
    <3>3. Cardinality(Served') <= clientCount' /\ Cardinality(Served') <= Limit
      BY <1>0, <2>1, <2>2, <3>1, <3>2
    <3> QED
      BY <2>4, <3>3 DEF CountOK
  <2> QED
    BY <1>3, <2>3, <2>4, ParentTakes
<1>4. ASSUME UNCHANGED vars
      PROVE  CountOK'
  BY <1>4 DEF vars, CountOK, Served
<1> QED
  BY <1>1, <1>2, <1>3, <1>4, Steps

LEMMA FileFrame ==
    ASSUME FileOK, file' = file, Stored' = Stored,
           \A c \in Stored : buffer'[c] = buffer[c]
    PROVE  FileOK'
BY DEF FileOK

LEMMA FileStep ==
    ASSUME IInv, [Next]_vars
    PROVE  FileOK'
<1> USE DEF IInv
<1>1. ASSUME NEW c \in Client, ClientStep(c)
      PROVE  FileOK'
  <2>1. UNCHANGED <<child, shown, buffer, file>>
    BY <1>1, ClientLeavesServer DEF ServerVars
  <2> QED
    BY <2>1, FileFrame DEF Stored
<1>2. ASSUME NEW c \in Client, ChildStep(c)
      PROVE  FileOK'
  <2>0. /\ child \in [Client -> Places] /\ shown \in [Client -> Seq(Client \cup {Manipal, Nothing})]
        /\ buffer \in [Client -> Client \cup {Nothing}] /\ file \in Seq(Client \cup {Manipal, Nothing})
    BY DEF TypeOK
  <2>1. CASE ReadString(c)
    <3>1. shown[c] = <<>> /\ c \notin Stored
      BY <2>1 DEF ReadString, ChildOK, Stored
    <3>2. file' = file /\ shown' = shown
      BY <2>1 DEF ReadString
    <3>3. Stored' = Stored /\ \A d \in Stored : buffer'[d] = buffer[d]
      BY <2>0, <2>1, <3>1 DEF ReadString, Stored
    <3> QED
      BY <3>2, <3>3, FileFrame
  <2>2. CASE AppendString(c)
    <3> DEFINE n == Len(file)
    <3>1. /\ c \notin Stored /\ Stored' = Stored \cup {c} /\ buffer' = buffer
          /\ buffer[c] \in {c, Nothing}
      BY <2>0, <2>2 DEF AppendString, ChildOK, Stored
    <3>2. /\ n \in Nat /\ Len(file') = n + 1 /\ file'[n + 1] = buffer[c]
          /\ \A k \in 1..n : file'[k] = file[k]
      BY <2>0, <2>2 DEF AppendString
    <3>3. Cardinality(Stored') = Cardinality(Stored) + 1 /\ Cardinality(Stored) \in Nat
      BY <3>1, FileNotEmpty, FS_AddElement, FS_CardinalityType
    <3>4. \A k \in 1..n : file[k] # c
      BY <3>1 DEF FileOK
    <3>5. \A j, k \in 1..Len(file') : file'[j] \in Client /\ file'[j] = file'[k] => j = k
      <4> SUFFICES ASSUME NEW j \in 1..(n + 1), NEW k \in 1..(n + 1),
                          file'[j] \in Client, file'[j] = file'[k]
                   PROVE  j = k
        BY <3>2
      <4>1. CASE j \in 1..n /\ k \in 1..n
        BY <3>2, <4>1 DEF FileOK
      <4>2. CASE j = n + 1 \/ k = n + 1
        <5>1. file'[j] = buffer[c]
          BY <3>2, <4>2
        <5>2. buffer[c] = c
          BY <3>1, <5>1, NamesAssumption
        <5>3. file'[j] = c /\ file'[k] = c
          BY <5>1, <5>2
        <5>4. j \notin 1..n /\ k \notin 1..n
          BY <3>2, <3>4, <5>3
        <5> QED
          BY <3>2, <5>4
      <4> QED
        BY <3>2, <4>1, <4>2
    <3>6. \A k \in 1..Len(file') : file'[k] \in Client => file'[k] \in Stored'
      <4> SUFFICES ASSUME NEW k \in 1..(n + 1), file'[k] \in Client
                   PROVE  file'[k] \in Stored'
        BY <3>2
      <4>1. CASE k \in 1..n
        BY <3>1, <3>2, <4>1 DEF FileOK
      <4>2. CASE k = n + 1
        BY <3>1, <3>2, <4>2, NamesAssumption
      <4> QED
        BY <3>2, <4>1, <4>2
    <3>7. \A d \in Stored' : \E k \in 1..Len(file') : file'[k] = buffer'[d]
      <4> SUFFICES ASSUME NEW d \in Stored'
                   PROVE  \E k \in 1..(n + 1) : file'[k] = buffer[d]
        BY <3>1, <3>2
      <4>1. CASE d = c
        BY <3>2, <4>1
      <4>2. CASE d \in Stored
        <5>1. PICK k \in 1..n : file[k] = buffer[d]
          BY <4>2 DEF FileOK
        <5> QED
          BY <3>2, <5>1
      <4> QED
        BY <3>1, <4>1, <4>2
    <3>8. Len(file') = 1 + Cardinality(Stored') /\ file'[1] = Manipal
      BY <3>2, <3>3, FileNotEmpty DEF FileOK
    <3> QED
      BY <3>5, <3>6, <3>7, <3>8 DEF FileOK
  <2>3. CASE ShowFile(c)
    <3>1. file # <<>>
      BY FileNotEmpty
    <3>2. Stored' = Stored /\ file' = file /\ buffer' = buffer
      BY <2>0, <2>3, <3>1 DEF ShowFile, Stored
    <3> QED
      BY <3>2, FileFrame
  <2>4. CASE Close(c)
    <3>1. shown[c] # <<>>
      BY <2>4 DEF Close, ChildOK
    <3>2. Stored' = Stored /\ file' = file /\ buffer' = buffer
      BY <2>0, <2>4, <3>1 DEF Close, Stored
    <3> QED
      BY <3>2, FileFrame
  <2> QED
    BY <1>2, <2>1, <2>2, <2>3, <2>4 DEF ChildStep
<1>3. ASSUME ParentStep
      PROVE  FileOK'
  <2> DEFINE h == Head(backlog)
  <2>1. UNCHANGED <<buffer, file, shown>> /\ h \in Client /\ child[h] = "none" /\ shown[h] = <<>>
    BY <1>3, ParentTakes
  <2>2. child'[h] \in {"read", "closed"} /\ \A d \in Client : d # h => child'[d] = child[d]
    <3>1. child \in [Client -> Places]
      BY DEF TypeOK
    <3> QED
      BY <1>3, <2>1, <3>1, ParentTakes
  <2>3. Stored' = Stored
    BY <2>1, <2>2 DEF Stored
  <2> QED
    BY <2>1, <2>3, FileFrame
<1>4. ASSUME UNCHANGED vars
      PROVE  FileOK'
  BY <1>4, FileFrame DEF vars, Stored
<1> QED
  BY <1>1, <1>2, <1>3, <1>4, Steps

LEMMA ShownFrame ==
    ASSUME ShownOK, file' = file, shown' = shown,
           \A c \in Client : shown[c] # <<>> => buffer'[c] = buffer[c]
    PROVE  ShownOK'
BY DEF ShownOK

LEMMA ShownStep ==
    ASSUME IInv, [Next]_vars
    PROVE  ShownOK'
<1> USE DEF IInv
<1>1. ASSUME NEW c \in Client, ClientStep(c)
      PROVE  ShownOK'
  BY <1>1, ClientLeavesServer, ShownFrame DEF ServerVars
<1>2. ASSUME NEW c \in Client, ChildStep(c)
      PROVE  ShownOK'
  <2>0. /\ shown \in [Client -> Seq(Client \cup {Manipal, Nothing})]
        /\ buffer \in [Client -> Client \cup {Nothing}] /\ file \in Seq(Client \cup {Manipal, Nothing})
    BY DEF TypeOK
  <2>1. CASE ReadString(c)
    <3>1. shown[c] = <<>> /\ file' = file /\ shown' = shown
      BY <2>1 DEF ReadString, ChildOK
    <3>2. \A d \in Client : d # c => buffer'[d] = buffer[d]
      BY <2>0, <2>1 DEF ReadString
    <3> QED
      BY <3>1, <3>2, ShownFrame
  <2>2. CASE AppendString(c)
    <3>1. /\ Len(file) \in Nat /\ Len(file') = Len(file) + 1
          /\ \A k \in 1..Len(file) : file'[k] = file[k]
          /\ buffer' = buffer /\ shown' = shown
      BY <2>0, <2>2 DEF AppendString
    <3>2. \A d \in Client : Len(shown[d]) \in Nat
      BY <2>0
    <3> QED
      BY <3>1, <3>2 DEF ShownOK
  <2>3. CASE ShowFile(c)
    <3>1. shown' = [shown EXCEPT ![c] = file] /\ file' = file /\ buffer' = buffer /\ c \in Stored
      BY <2>3 DEF ShowFile, Stored
    <3>2. Len(file) \in Nat /\ \E k \in 1..Len(file) : file[k] = buffer[c]
      BY <2>0, <3>1 DEF FileOK
    <3>3. shown'[c] = file /\ \A d \in Client : d # c => shown'[d] = shown[d]
      BY <2>0, <3>1
    <3> QED
      BY <3>1, <3>2, <3>3 DEF ShownOK
  <2>4. CASE Close(c)
    BY <2>4, ShownFrame DEF Close
  <2> QED
    BY <1>2, <2>1, <2>2, <2>3, <2>4 DEF ChildStep
<1>3. ASSUME ParentStep
      PROVE  ShownOK'
  BY <1>3, ParentTakes, ShownFrame
<1>4. ASSUME UNCHANGED vars
      PROVE  ShownOK'
  BY <1>4, ShownFrame DEF vars
<1> QED
  BY <1>1, <1>2, <1>3, <1>4, Steps

-----------------------------------------------------------------------------
LEMMA InvInit ==
    ASSUME Init
    PROVE  IInv
<1> USE DEF Init
<1>1. TypeOK
  BY DEF TypeOK, Places
<1>2. QueueOK /\ ChildOK /\ ShownOK
  BY DEF QueueOK, ChildOK, ShownOK
<1>3. Served = {} /\ Stored = {}
  BY DEF Served, Stored
<1>4. CountOK
  BY <1>3, FS_EmptySet DEF CountOK
<1>5. FileOK
  BY <1>3, FS_EmptySet, NamesAssumption DEF FileOK
<1> QED
  BY <1>1, <1>2, <1>4, <1>5 DEF IInv

(* The invariant the theorems below follow from: how the backlog, the      *)
(* places of the children, the counter of the parent and result.txt fit    *)
(* together after any steps of parent, children and clients.               *)
THEOREM Invariant == Spec => []IInv
<1>1. Init => IInv
  BY InvInit
<1>2. IInv /\ [Next]_vars => IInv'
  BY TypeStep, QueueStep, ChildrenStep, CountStep, FileStep, ShownStep DEF IInv
<1> QED
  BY <1>1, <1>2, PTL DEF Spec

(* For any number of clients, the variables of the server keep their types; *)
(* in particular the parent counts no further than the client it refuses.  *)
THEOREM TypesKept == Spec => []TypeOK
<1>1. IInv => TypeOK
  BY DEF IInv
<1> QED
  BY <1>1, Invariant, PTL

(* For any number of clients, whoever is told to terminate has had no      *)
(* string read, and at most two are served.                                *)
THEOREM ServedStay == Spec => []ServedNotTerminated
<1>1. ASSUME IInv
      PROVE  ServedNotTerminated
  <2>1. told \cap {c \in Client : buffer[c] # Nothing} = {}
    BY <1>1 DEF IInv, ChildOK
  <2>2. Cardinality(Served) <= Limit
    BY <1>1 DEF IInv, CountOK
  <2> QED
    BY <2>1, <2>2 DEF ServedNotTerminated, Served
<1> QED
  BY <1>1, Invariant, PTL

LEMMA Beginning ==
    ASSUME NEW S, NEW s \in Seq(S), NEW t \in Seq(S), Len(s) <= Len(t),
           \A k \in 1..Len(s) : s[k] = t[k]
    PROVE  IsPrefix(s, t)
<1> DEFINE n == Len(s)
<1>1. n \in Nat /\ Len(t) \in Nat /\ \A k \in 1..n : s[k] \in S /\ t[k] \in S
  BY ElementOfSeq
<1>2. /\ SubSeq(s, 1, n) \in Seq(S) /\ Len(SubSeq(s, 1, n)) = n
      /\ \A k \in 1..n : SubSeq(s, 1, n)[k] = s[k]
  BY <1>1, SubSeqProperties
<1>3. /\ SubSeq(t, 1, n) \in Seq(S) /\ Len(SubSeq(t, 1, n)) = n
      /\ \A k \in 1..n : SubSeq(t, 1, n)[k] = t[k]
  BY <1>1, SubSeqProperties
<1>4. SubSeq(s, 1, n) = SubSeq(t, 1, n)
  BY <1>2, <1>3, SeqEqual
<1> QED
  BY <1>4 DEF IsPrefix

LEMMA StoredOnce ==
    ASSUME IInv
    PROVE  EveryStringStoredOnce
<1> USE DEF IInv
<1>1. file \in Seq(Client \cup {Manipal, Nothing}) /\ file # <<>>
  BY FileNotEmpty DEF TypeOK
<1>2. Head(file) = Manipal
  BY <1>1, HeadAndTail DEF FileOK
<1>3. ASSUME NEW c \in Stored, buffer[c] = c
      PROVE  Cardinality({k \in DOMAIN file : file[k] = c}) = 1
  <2>1. DOMAIN file = 1..Len(file) /\ c \in Client
    BY <1>1 DEF Stored
  <2>2. PICK k \in 1..Len(file) : file[k] = c
    BY <1>3 DEF FileOK
  <2>3. \A j \in 1..Len(file) : file[j] = c => j = k
    BY <2>1, <2>2 DEF FileOK
  <2>4. {j \in DOMAIN file : file[j] = c} = {k}
    BY <2>1, <2>2, <2>3
  <2> QED
    BY <2>4, FS_Singleton
<1> QED
  BY <1>2, <1>3 DEF EveryStringStoredOnce, FileOK

LEMMA DisplayHolds ==
    ASSUME IInv, NEW c \in Client, shown[c] # <<>>
    PROVE  buffer[c] \in ToSet(shown[c])
<1>1. shown[c] \in Seq(Client \cup {Manipal, Nothing})
  BY DEF IInv, TypeOK
<1>2. DOMAIN shown[c] = 1..Len(shown[c])
  BY <1>1
<1>3. PICK k \in 1..Len(shown[c]) : shown[c][k] = buffer[c]
  BY DEF IInv, ShownOK
<1> QED
  BY <1>2, <1>3 DEF ToSet

LEMMA DisplaysFit ==
    ASSUME IInv
    PROVE  DisplaysAgree
<1> USE DEF IInv
<1> SUFFICES ASSUME NEW c \in Client, NEW d \in Client, shown[c] # <<>>, shown[d] # <<>>
             PROVE  /\ IsPrefix(shown[c], shown[d]) \/ IsPrefix(shown[d], shown[c])
                    /\ buffer[c] \in ToSet(shown[c])
  BY DEF DisplaysAgree
<1> DEFINE S == Client \cup {Manipal, Nothing}
<1>1. shown[c] \in Seq(S) /\ shown[d] \in Seq(S)
  BY DEF TypeOK
<1>2. Len(shown[c]) \in Nat /\ Len(shown[d]) \in Nat
  BY <1>1
<1>3. CASE Len(shown[c]) <= Len(shown[d])
  <2>1. \A k \in 1..Len(shown[c]) : shown[c][k] = shown[d][k]
    BY <1>2, <1>3 DEF ShownOK
  <2> QED
    BY <1>1, <1>3, <2>1, Beginning, DisplayHolds
<1>4. CASE Len(shown[d]) <= Len(shown[c])
  <2>1. \A k \in 1..Len(shown[d]) : shown[d][k] = shown[c][k]
    BY <1>2, <1>4 DEF ShownOK
  <2> QED
    BY <1>1, <1>4, <2>1, Beginning, DisplayHolds
<1> QED
  BY <1>2, <1>3, <1>4

(* For any number of clients, every string read is in result.txt once, and *)
(* what the children show are states of that one file, whatever the order  *)
(* in which they append and read it back.                                  *)
THEOREM FileStaysIntact == Spec => []FileIntact
<1>1. IInv => FileIntact
  BY StoredOnce, DisplaysFit DEF FileIntact
<1> QED
  BY <1>1, Invariant, PTL
=============================================================================
