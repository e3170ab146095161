------------------------ MODULE EmployeeSessionProofs ------------------------
(***************************************************************************)
(* Theorems about EmployeeSession: whatever the clients do, the parent     *)
(* keeps to its bounds, and when it has returned from main no process of   *)
(* the server holds a descriptor of any connection.                        *)
(***************************************************************************)
EXTENDS EmployeeSession, SequenceTheorems, TLAPS

USE DEF MaxActive

(* How client_sockets[], active_clients and the loop index fit together at *)
(* each place of main.                                                     *)
ParentOK ==
    /\ parent = "accept" => Len(sockets) = active /\ k = 1
    /\ parent = "fork" => Len(sockets) = active + 1 /\ active < MaxActive /\ k = 1
    /\ parent \in {"broadcast", "kill"} => Len(sockets) = active + 1 /\ active = MaxActive
    /\ parent = "kill" => k <= active + 1

(* Only the parent and running children hold descriptors, and a child runs *)
(* only if its client is one of the first active_clients in the array.     *)
HoldersOK ==
    /\ \A h \in holds : h[1] = Parent \/ (h[1] \in Client /\ child[h[1]] = "running")
    /\ \A c \in Client : child[c] = "running" =>
          \E j \in 1..active : j <= Len(sockets) /\ sockets[j] = c

(* The kill loop has ended every child before its index.                   *)
KilledOK ==
    parent = "kill" => \A j \in 1..(k - 1) : child[sockets[j]] = "ended"

(* A client has no more requests in flight than all have sent.             *)
InFlightOK == \A c \in Client : up[c] <= sends

IInv == TypeOK /\ ParentOK /\ HoldersOK /\ KilledOK /\ InFlightOK
             /\ ExitReleasesConnections

-----------------------------------------------------------------------------
(* The steps, sorted by who takes them.                                    *)
ClientAct(c) == Connect(c) \/ WriterSend(c) \/ Leave(c) \/ ReaderStep(c)

LEMMA Steps ==
    ASSUME [Next]_vars
    PROVE  \/ ParentStep
           \/ \E c \in Client : ClientAct(c) \/ ChildStep(c)
           \/ UNCHANGED vars
BY DEF Next, ClientAct

(* A client leaves the server's processes and their descriptors alone.     *)
LEMMA ClientLeavesServer ==
    ASSUME NEW c \in Client, ClientAct(c)
    PROVE  UNCHANGED <<sockets, active, parent, k, child, holds>>
BY DEF ClientAct, Connect, WriterSend, Leave, ReaderStep, ReaderRecv, ReaderEof, ClientEnds

(* What recv leaves of what was on its way.                                *)
LEMMA RestTyped ==
    ASSUME NEW S, NEW q \in Seq(S), NEW m \in 1..Len(q)
    PROVE  SubSeq(q, m + 1, Len(q)) \in Seq(S)
<1>1. Len(q) \in Nat /\ m + 1 \in Int
  OBVIOUS
<1>2. \A x \in (m + 1)..Len(q) : q[x] \in S
  BY <1>1
<1> QED
  BY <1>1, <1>2, SubSeqProperties

LEMMA ClientTypes ==
    ASSUME TypeOK, InFlightOK, NEW c \in Client, ClientAct(c)
    PROVE  TypeOK' /\ InFlightOK'
<1>1. UNCHANGED <<sockets, active, parent, k, child, holds>>
  BY ClientLeavesServer
<1>2. CASE Connect(c)
  <2>1. client' \in [Client -> {"off", "running", "over"}] /\ backlog' \in Seq(Client)
    <3>1. backlog \in Seq(Client) /\ Append(backlog, c) \in Seq(Client)
      BY DEF TypeOK
    <3>2. backlog' = Append(backlog, c) \/ backlog' = backlog
      BY <1>2 DEF Connect
    <3>3. client' \in [Client -> {"off", "running", "over"}]
      BY <1>2, Zenon DEF TypeOK, Connect
    <3> QED
      BY <3>1, <3>2, <3>3
  <2>2. UNCHANGED <<up, down, reset, sends>>
    BY <1>2 DEF Connect
  <2> QED
    BY <1>1, <2>1, <2>2 DEF TypeOK, InFlightOK
<1>3. CASE WriterSend(c)
  <2>1. sends' \in 0..MaxSends /\ sends' = sends + 1 /\ sends \in Nat
    BY <1>3, MaxSendsAssumption DEF TypeOK, WriterSend
  <2>2. up' = [up EXCEPT ![c] = @ + 1] /\ UNCHANGED <<backlog, down, reset, client>>
    BY <1>3 DEF WriterSend
  <2>3. \A d \in Client : up'[d] \in Nat /\ up'[d] <= sends'
    BY <2>1, <2>2 DEF TypeOK, InFlightOK
  <2>4. up' \in [Client -> 0..MaxSends]
    <3>1. \A d \in Client : up'[d] \in 0..MaxSends
      BY <2>1, <2>3, MaxSendsAssumption
    <3>2. up' = [d \in Client |-> up'[d]]
      BY <2>2 DEF TypeOK
    <3> QED
      BY <3>1, <3>2
  <2> QED
    BY <1>1, <2>1, <2>2, <2>3, <2>4 DEF TypeOK, InFlightOK
<1>4. ASSUME NEW unread, ClientEnds(c, unread)
      PROVE  TypeOK' /\ InFlightOK'
  <2>1. (reset[c] \/ unread # <<>>) \in BOOLEAN
    OBVIOUS
  <2>2. reset' \in [Client -> BOOLEAN]
    BY <1>4, <2>1, Zenon DEF TypeOK, ClientEnds
  <2> QED
    BY <1>1, <1>4, <2>2 DEF TypeOK, InFlightOK, ClientEnds
<1>5. CASE ReaderRecv(c)
  <2>1. PICK m \in 1..Len(down[c]) :
           LET chunk == SubSeq(down[c], 1, m)
               rest  == SubSeq(down[c], m + 1, Len(down[c]))
           IN IF Mentions(chunk)
              THEN ClientEnds(c, rest)
              ELSE /\ down' = [down EXCEPT ![c] = rest]
                   /\ UNCHANGED <<backlog, sockets, active, parent, k, child, holds,
                                  up, reset, client, sends>>
    BY <1>5 DEF ReaderRecv
  <2> DEFINE rest == SubSeq(down[c], m + 1, Len(down[c]))
  <2>2. rest \in Seq(Tokens)
    <3>1. down[c] \in Seq(Tokens)
      BY DEF TypeOK
    <3> QED
      BY <3>1, RestTyped
  <2>3. CASE ClientEnds(c, rest)
    BY <1>4, <2>3
  <2>4. CASE down' = [down EXCEPT ![c] = rest]
             /\ UNCHANGED <<backlog, up, reset, client, sends>>
    <3> HIDE DEF rest
    <3> QED
      BY <1>1, <2>2, <2>4 DEF TypeOK, InFlightOK
  <2> QED
    BY <2>1, <2>3, <2>4
<1> QED
  BY <1>2, <1>3, <1>4, <1>5 DEF ClientAct, Leave, ReaderStep, ReaderEof

LEMMA ChildTypes ==
    ASSUME TypeOK, InFlightOK, NEW c \in Client, ChildStep(c)
    PROVE  TypeOK' /\ InFlightOK'
<1>1. CASE ChildServe(c)
  <2>1. PICK m \in 1..up[c] : up' = [up EXCEPT ![c] = @ - m]
    BY <1>1 DEF ChildServe
  <2>2. up[c] \in 0..MaxSends /\ up[c] - m \in 0..MaxSends /\ up[c] - m <= up[c]
    BY <2>1, MaxSendsAssumption DEF TypeOK
  <2>3. up' \in [Client -> 0..MaxSends] /\ \A d \in Client : up'[d] <= up[d]
    BY <2>1, <2>2, MaxSendsAssumption DEF TypeOK
  <2>4. UNCHANGED <<backlog, sockets, active, parent, k, child, holds, client, sends>>
    BY <1>1 DEF ChildServe
  <2>5. down' \in [Client -> Seq(Tokens)] /\ reset' \in [Client -> BOOLEAN]
    <3>1. "response" \in Tokens
      BY DEF Tokens
    <3>2. Append(down[c], "response") \in Seq(Tokens)
      BY <3>1 DEF TypeOK
    <3> QED
      BY <1>1, <3>2 DEF TypeOK, ChildServe
  <2>6. InFlightOK'
    BY <2>3, <2>4, MaxSendsAssumption DEF TypeOK, InFlightOK
  <2> QED
    BY <2>3, <2>4, <2>5, <2>6 DEF TypeOK
<1>2. CASE ChildEnds(c)
  BY <1>2 DEF TypeOK, InFlightOK, ChildEnds, Without
<1> QED
  BY <1>1, <1>2 DEF ChildStep

-----------------------------------------------------------------------------
(* The parent's step, one action at a time: types and where it stands.     *)
LEMMA ParentTypes ==
    ASSUME TypeOK, InFlightOK, ParentOK, ParentStep
    PROVE  TypeOK' /\ InFlightOK' /\ ParentOK'
<1>1. Len(sockets) \in Nat /\ active \in 0..2 /\ k \in 1..4
  BY DEF TypeOK
<1>2. CASE Accept
  <2>1. /\ parent = "accept" /\ backlog # <<>>
        /\ sockets' = Append(sockets, Head(backlog)) /\ backlog' = Tail(backlog)
        /\ holds' = holds \cup {<<Parent, Head(backlog)>>}
        /\ parent' = IF active = 2 THEN "broadcast" ELSE "fork"
        /\ UNCHANGED <<active, k, child, up, down, reset, client, sends>>
    BY <1>2 DEF Accept
  <2>2. Len(sockets) = active /\ k = 1
    BY <2>1 DEF ParentOK
  <2>3. Head(backlog) \in Client /\ Tail(backlog) \in Seq(Client)
    BY <2>1, HeadTailProperties DEF TypeOK
  <2>4. sockets' \in Seq(Client) /\ Len(sockets') = active + 1
    BY <2>1, <2>2, <2>3 DEF TypeOK
  <2>5. TypeOK'
    <3>1. holds' \subseteq (Client \cup {Parent}) \X Client
      BY <2>1, <2>3 DEF TypeOK
    <3>2. Len(sockets') <= 3 /\ parent' \in {"broadcast", "fork"}
      BY <1>1, <2>1, <2>4
    <3> QED
      BY <2>1, <2>3, <2>4, <3>1, <3>2 DEF TypeOK
  <2>6. ParentOK'
    BY <1>1, <2>1, <2>2, <2>4 DEF ParentOK
  <2> QED
    BY <2>1, <2>5, <2>6 DEF InFlightOK
<1>3. CASE Fork
  <2> DEFINE c == Last(sockets)
  <2>1. /\ parent = "fork" /\ child' = [child EXCEPT ![c] = "running"]
        /\ holds' = holds \cup {<<c, d>> : d \in {e \in Client : <<Parent, e>> \in holds}}
        /\ active' = active + 1 /\ parent' = "accept"
        /\ UNCHANGED <<backlog, sockets, k, up, down, reset, client, sends>>
    BY <1>3 DEF Fork
  <2>2. Len(sockets) = active + 1 /\ active < 2 /\ k = 1
    BY <2>1 DEF ParentOK
  <2>3. c \in Client
    BY <1>1, <2>2 DEF TypeOK, Last
  <2>4. active' \in 0..2
    BY <1>1, <2>1, <2>2
  <2>5. holds' \subseteq (Client \cup {Parent}) \X Client
    <3> HIDE DEF c
    <3>1. \A h \in holds' : h \in holds \/ \E d \in Client : h = <<c, d>>
      BY <2>1
    <3>2. \A d \in Client : <<c, d>> \in (Client \cup {Parent}) \X Client
      BY <2>3
    <3>3. holds \subseteq (Client \cup {Parent}) \X Client
      BY DEF TypeOK
    <3> QED
      BY <3>1, <3>2, <3>3
  <2>6. TypeOK'
    BY <2>1, <2>3, <2>4, <2>5 DEF TypeOK
  <2> QED
    BY <2>1, <2>2, <2>6 DEF InFlightOK, ParentOK
<1>4. ASSUME parent = "broadcast", k <= active + 1
      PROVE  Len(sockets) = 3 /\ active = 2 /\ k \in 1..3 /\ sockets[k] \in Client
  <2>1. Len(sockets) = active + 1 /\ active = 2
    BY <1>4 DEF ParentOK
  <2>2. k \in 1..Len(sockets) /\ Len(sockets) = 3
    BY <1>1, <1>4, <2>1
  <2>3. sockets \in Seq(Client)
    BY DEF TypeOK
  <2> QED
    BY <2>1, <2>2, <2>3
<1>5. CASE Broadcast
  <2> DEFINE c == sockets[k]
  <2>1. /\ parent = "broadcast" /\ k <= active + 1
        /\ IF client[c] = "running"
           THEN down' = [down EXCEPT ![c] = @ \o Terminate] /\ UNCHANGED reset
           ELSE reset' = [reset EXCEPT ![c] = TRUE] /\ UNCHANGED down
        /\ holds' = holds \ {<<Parent, c>>} /\ k' = k + 1
        /\ UNCHANGED <<backlog, sockets, active, parent, child, up, client, sends>>
    BY <1>5 DEF Broadcast
  <2>2. c \in Client /\ k' \in 1..4
    BY <1>4, <2>1
  <2>3. down' \in [Client -> Seq(Tokens)] /\ reset' \in [Client -> BOOLEAN]
    <3>1. Terminate \in Seq(Tokens) /\ down[c] \in Seq(Tokens)
      BY <2>2 DEF Terminate, Tokens, TypeOK
    <3>2. down[c] \o Terminate \in Seq(Tokens)
      BY <3>1, ConcatProperties
    <3> QED
      BY <2>1, <2>2, <3>2 DEF TypeOK
  <2>4. TypeOK'
    <3>1. holds' \subseteq (Client \cup {Parent}) \X Client
      BY <2>1 DEF TypeOK
    <3> HIDE DEF c
    <3> QED
      BY <2>1, <2>2, <2>3, <3>1 DEF TypeOK
  <2> QED
    BY <2>1, <2>4 DEF InFlightOK, ParentOK
<1>6. CASE BroadcastFails
  <2>1. k' \in 1..4
    BY <1>1, <1>4, <1>6 DEF BroadcastFails
  <2> QED
    BY <1>6, <2>1 DEF BroadcastFails, TypeOK, InFlightOK, ParentOK
<1>7. CASE BroadcastBreaksPipe
  BY <1>7 DEF BroadcastBreaksPipe, Without, TypeOK, InFlightOK, ParentOK
<1>8. CASE StartKill
  BY <1>1, <1>8 DEF StartKill, TypeOK, InFlightOK, ParentOK
<1>9. CASE KillChild
  <2>1. Len(sockets) = 3 /\ active = 2 /\ k <= active /\ k' = k + 1
    BY <1>9 DEF KillChild, ParentOK
  <2>2. sockets[k] \in Client /\ k' \in 1..3
    <3>1. sockets \in Seq(Client) /\ k \in 1..Len(sockets)
      BY <1>1, <2>1 DEF TypeOK
    <3> QED
      BY <1>1, <2>1, <3>1
  <2>3. TypeOK'
    BY <1>9, <2>2 DEF KillChild, Without, TypeOK
  <2> QED
    BY <1>9, <2>1, <2>2, <2>3 DEF KillChild, InFlightOK, ParentOK
<1>10. CASE Exit
  BY <1>10 DEF Exit, Without, TypeOK, InFlightOK, ParentOK
<1> QED
  BY <1>2, <1>3, <1>5, <1>6, <1>7, <1>8, <1>9, <1>10 DEF ParentStep

-----------------------------------------------------------------------------
LEMMA InvInit == Init => IInv
<1> SUFFICES ASSUME Init PROVE IInv
  OBVIOUS
<1>1. TypeOK
  <2>1. \A S : <<>> \in Seq(S) /\ Len(<<>>) = 0
    BY EmptySeq
  <2> QED
    BY <2>1, MaxSendsAssumption DEF Init, TypeOK
<1>2. ParentOK /\ KilledOK /\ InFlightOK /\ ExitReleasesConnections
  BY DEF Init, ParentOK, KilledOK, InFlightOK, ExitReleasesConnections
<1>3. HoldersOK
  BY DEF Init, HoldersOK
<1> QED
  BY <1>1, <1>2, <1>3 DEF IInv

(* The bookkeeping of descriptors and children under the parent's step.    *)
LEMMA ParentHolders ==
    ASSUME IInv, ParentStep
    PROVE  HoldersOK' /\ KilledOK' /\ ExitReleasesConnections'
<1>1. Len(sockets) \in Nat /\ active \in 0..2 /\ k \in 1..4 /\ sockets \in Seq(Client)
  BY DEF IInv, TypeOK
<1>2. /\ \A h \in holds : h[1] = Parent \/ (h[1] \in Client /\ child[h[1]] = "running")
      /\ \A c \in Client : child[c] = "running" =>
            \E j \in 1..active : j <= Len(sockets) /\ sockets[j] = c
      /\ child \in [Client -> {"none", "running", "ended"}]
  BY DEF IInv, HoldersOK, TypeOK
<1>3. CASE Accept
  <2>1. /\ parent' \in {"broadcast", "fork"} /\ sockets' = Append(sockets, Head(backlog))
        /\ holds' = holds \cup {<<Parent, Head(backlog)>>} /\ UNCHANGED <<active, child>>
    BY <1>3 DEF Accept
  <2>2. Head(backlog) \in Client
    BY <1>3, HeadTailProperties DEF IInv, TypeOK, Accept
  <2>3. /\ Len(sockets') = Len(sockets) + 1
        /\ \A j \in 1..Len(sockets) : sockets'[j] = sockets[j]
    BY <1>1, <2>1, <2>2
  <2>4. \A c \in Client : child'[c] = "running" =>
            \E j \in 1..active' : j <= Len(sockets') /\ sockets'[j] = c
    BY <1>1, <1>2, <2>1, <2>3
  <2>5. \A h \in holds' : h[1] = Parent \/ (h[1] \in Client /\ child'[h[1]] = "running")
    BY <1>2, <2>1
  <2> QED
    BY <2>1, <2>4, <2>5 DEF HoldersOK, KilledOK, ExitReleasesConnections
<1>4. CASE Fork
  <2> DEFINE f == Last(sockets)
  <2>1. /\ parent = "fork" /\ child' = [child EXCEPT ![f] = "running"]
        /\ holds' = holds \cup {<<f, d>> : d \in {e \in Client : <<Parent, e>> \in holds}}
        /\ active' = active + 1 /\ parent' = "accept" /\ UNCHANGED sockets
    BY <1>4 DEF Fork
  <2>2. Len(sockets) = active + 1 /\ f = sockets[active + 1] /\ f \in Client
    BY <1>1, <2>1 DEF IInv, ParentOK, Last
  <2> HIDE DEF f
  <2>3. \A h \in holds' : h[1] = Parent \/ (h[1] \in Client /\ child'[h[1]] = "running")
    <3>1. \A h \in holds' : h \in holds \/ \E d \in Client : h = <<f, d>>
      BY <2>1
    <3>2. child'[f] = "running" /\ \A c \in Client : child[c] = "running" => child'[c] = "running"
      BY <1>2, <2>1, <2>2
    <3> QED
      BY <1>2, <2>2, <3>1, <3>2
  <2>4. \A c \in Client : child'[c] = "running" =>
            \E j \in 1..active' : j <= Len(sockets') /\ sockets'[j] = c
    <3> SUFFICES ASSUME NEW c \in Client, child'[c] = "running"
                 PROVE  \E j \in 1..active' : j <= Len(sockets') /\ sockets'[j] = c
      OBVIOUS
    <3>1. CASE c = f
      BY <1>1, <2>1, <2>2, <3>1
    <3>2. CASE c # f
      BY <1>1, <1>2, <2>1, <2>2, <3>2
    <3> QED
      BY <3>1, <3>2
  <2> QED
    BY <2>1, <2>3, <2>4 DEF HoldersOK, KilledOK, ExitReleasesConnections
<1>5. CASE Broadcast \/ BroadcastFails \/ StartKill
  <2>1. /\ holds' \subseteq holds /\ UNCHANGED <<child, sockets, active>>
        /\ parent' # "exit"
    BY <1>5 DEF Broadcast, BroadcastFails, StartKill
  <2>2. KilledOK'
    BY <1>1, <1>5 DEF Broadcast, BroadcastFails, StartKill, KilledOK
  <2> QED
    BY <1>2, <2>1, <2>2 DEF HoldersOK, ExitReleasesConnections
<1>6. CASE BroadcastBreaksPipe
  BY <1>2, <1>6 DEF BroadcastBreaksPipe, Without, HoldersOK, KilledOK, ExitReleasesConnections
<1>7. CASE KillChild
  <2>1. /\ parent = "kill" /\ k <= active /\ child' = [child EXCEPT ![sockets[k]] = "ended"]
        /\ holds' = Without(sockets[k]) /\ k' = k + 1 /\ UNCHANGED <<sockets, active, parent>>
    BY <1>7 DEF KillChild
  <2>2. Len(sockets) = active + 1 /\ \A j \in 1..(k - 1) : child[sockets[j]] = "ended"
    BY <2>1 DEF IInv, ParentOK, KilledOK
  <2>3. \A j \in 1..k : sockets[j] \in Client
    BY <1>1, <2>1, <2>2
  <2>4. KilledOK'
    <3> SUFFICES ASSUME NEW j \in 1..k PROVE child'[sockets[j]] = "ended"
      BY <1>1, <2>1 DEF KilledOK
    <3>1. CASE j = k
      BY <1>1, <1>2, <2>1, <2>3, <3>1
    <3>2. CASE j # k
      BY <1>1, <1>2, <2>1, <2>2, <2>3, <3>2
    <3> QED
      BY <3>1, <3>2
  <2>5. HoldersOK'
    <3>1. \A h \in holds' : h \in holds /\ h[1] # sockets[k]
      BY <2>1 DEF Without
    <3>2. \A c \in Client : c # sockets[k] => child'[c] = child[c]
      BY <1>2, <2>1
    <3>3. \A h \in holds' : h[1] = Parent \/ (h[1] \in Client /\ child'[h[1]] = "running")
      BY <1>2, <3>1, <3>2
    <3>4. \A c \in Client : child'[c] = "running" => child[c] = "running"
      BY <1>2, <2>1
    <3> QED
      BY <1>2, <2>1, <3>3, <3>4 DEF HoldersOK
  <2> QED
    BY <2>1, <2>4, <2>5 DEF ExitReleasesConnections
<1>8. CASE Exit
  <2>1. /\ parent = "kill" /\ k > active /\ parent' = "exit" /\ holds' = Without(Parent)
        /\ UNCHANGED <<child, sockets, active>>
    BY <1>8 DEF Exit
  <2>2. \A c \in Client : child[c] # "running"
    <3> SUFFICES ASSUME NEW c \in Client, child[c] = "running" PROVE FALSE
      OBVIOUS
    <3>1. PICK j \in 1..active : sockets[j] = c
      BY <1>2
    <3>2. j \in 1..(k - 1)
      BY <1>1, <2>1
    <3> QED
      BY <2>1, <3>1, <3>2 DEF IInv, KilledOK
  <2>3. \A h \in holds : h[1] = Parent
    BY <1>2, <2>2
  <2>4. holds' = {}
    BY <2>1, <2>3 DEF Without
  <2> QED
    BY <1>2, <2>1, <2>2, <2>4 DEF HoldersOK, KilledOK, ExitReleasesConnections
<1> QED
  BY <1>3, <1>4, <1>5, <1>6, <1>7, <1>8 DEF ParentStep

(* A child's end closes its descriptors, and those of nobody else.         *)
LEMMA ChildHolders ==
    ASSUME IInv, NEW c \in Client, ChildStep(c)
    PROVE  ParentOK' /\ HoldersOK' /\ KilledOK' /\ ExitReleasesConnections'
<1>1. UNCHANGED <<sockets, active, parent, k>>
  BY DEF ChildStep, ChildServe, ChildEnds
<1>2. ParentOK'
  BY <1>1 DEF IInv, ParentOK
<1>3. CASE ChildServe(c)
  BY <1>1, <1>2, <1>3 DEF IInv, ChildServe, HoldersOK, KilledOK, ExitReleasesConnections
<1>4. CASE ChildEnds(c)
  <2>1. child' = [child EXCEPT ![c] = "ended"] /\ holds' = Without(c)
    BY <1>4 DEF ChildEnds
  <2>2. child \in [Client -> {"none", "running", "ended"}]
    BY DEF IInv, TypeOK
  <2>3. \A d \in Client : child'[d] = IF d = c THEN "ended" ELSE child[d]
    BY <2>1, <2>2
  <2>4. \A h \in holds' : h \in holds /\ h[1] # c
    BY <2>1 DEF Without
  <2>5. HoldersOK'
    <3>1. \A h \in holds' : h[1] = Parent \/ (h[1] \in Client /\ child'[h[1]] = "running")
      BY <2>3, <2>4 DEF IInv, HoldersOK
    <3>2. \A d \in Client : child'[d] = "running" => child[d] = "running"
      BY <2>3
    <3> QED
      BY <1>1, <3>1, <3>2 DEF IInv, HoldersOK
  <2>6. KilledOK'
    <3> SUFFICES ASSUME parent = "kill", NEW j \in 1..(k - 1)
                 PROVE  child'[sockets[j]] = "ended"
      BY <1>1 DEF KilledOK
    <3>1. child[sockets[j]] = "ended"
      BY DEF IInv, KilledOK
    <3>2. child' = [d \in Client |-> IF d = c THEN "ended" ELSE child[d]]
      BY <2>1, <2>2
    <3>3. sockets[j] \in Client
      <4>1. sockets \in Seq(Client) /\ j \in 1..Len(sockets)
        <5>1. Len(sockets) = active + 1 /\ k <= active + 1 /\ k \in Nat /\ active \in Nat
          BY DEF IInv, TypeOK, ParentOK
        <5> QED
          BY <5>1 DEF IInv, TypeOK
      <4> QED
        BY <4>1
    <3> QED
      BY <3>1, <3>2, <3>3
  <2>7. ExitReleasesConnections'
    BY <1>1, <2>4 DEF IInv, ExitReleasesConnections
  <2> QED
    BY <1>2, <2>5, <2>6, <2>7
<1> QED
  BY <1>3, <1>4 DEF ChildStep

LEMMA InvNext == IInv /\ [Next]_vars => IInv'
<1> SUFFICES ASSUME IInv, [Next]_vars PROVE IInv'
  OBVIOUS
<1>1. CASE ParentStep
  BY <1>1, ParentTypes, ParentHolders DEF IInv
<1>2. ASSUME NEW c \in Client, ClientAct(c) PROVE IInv'
  <2>1. UNCHANGED <<sockets, active, parent, k, child, holds>>
    BY <1>2, ClientLeavesServer
  <2>2. ParentOK' /\ HoldersOK' /\ KilledOK' /\ ExitReleasesConnections'
    BY <2>1 DEF IInv, ParentOK, HoldersOK, KilledOK, ExitReleasesConnections
  <2> QED
    BY <1>2, <2>2, ClientTypes DEF IInv
<1>3. ASSUME NEW c \in Client, ChildStep(c) PROVE IInv'
  BY <1>3, ChildTypes, ChildHolders DEF IInv
<1>4. CASE UNCHANGED vars
  <2>1. TypeOK' /\ InFlightOK'
    BY <1>4 DEF vars, IInv, TypeOK, InFlightOK
  <2>2. ParentOK' /\ HoldersOK' /\ KilledOK' /\ ExitReleasesConnections'
    BY <1>4 DEF vars, IInv, ParentOK, HoldersOK, KilledOK, ExitReleasesConnections
  <2> QED
    BY <2>1, <2>2 DEF IInv
<1> QED
  BY <1>1, <1>2, <1>3, <1>4, Steps

(* The invariant of the server's processes (main and its children): who    *)
(* holds descriptors, which children run, and how far the loops have come. *)
THEOREM Invariant == Spec => []IInv
<1> QED
  BY InvInit, InvNext, PTL DEF Spec

(* For any clients and any number of requests: the loops of main stay      *)
(* within client_sockets[], no counter leaves its bounds, and once main    *)
(* has returned no process of the server holds a connection open, whoever  *)
(* inherited its descriptor at a fork.                                     *)
THEOREM AlwaysSafe == Spec => []SessionSafe
<1>1. IInv => SessionSafe
  BY DEF IInv, SessionSafe
<1> QED
  BY <1>1, Invariant, PTL

=============================================================================
