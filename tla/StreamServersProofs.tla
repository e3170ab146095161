-------------------------- MODULE StreamServersProofs --------------------------
(***************************************************************************)
(* A theorem about the request servers over TCP, for any numbers of        *)
(* clients, workers and connections and whatever they type of the inputs   *)
(* of StreamServers: no client ends the server it shares with others.      *)
(***************************************************************************)
EXTENDS StreamServers, TLAPS

-----------------------------------------------------------------------------
(* What holds of every system.  No program of these has threads, and the   *)
(* server has no user who types: its terminal only interrupts it.          *)
Base ==
    /\ DOMAIN pc = Procs
    /\ task = [p \in Procs |-> p]
    /\ DOMAIN said = Procs /\ said["server"] \in Seq({<<"^C">>})

(* What every call but an interrupt does.                                  *)
Plain ==
    /\ UNCHANGED <<system, task>>
    /\ DOMAIN pc' = Procs
    /\ DOMAIN said' = Procs /\ said'["server"] = said["server"]

LEMMA MovePlain ==
    ASSUME Base, NEW p, NEW next, Goto(p, next), UNCHANGED <<task, said>>
    PROVE  Plain
  BY DEF Base, Plain, Goto

LEMMA KillPlain == ASSUME Base, NEW T, Kill(T) PROVE Plain
  BY DEF Base, Plain, Kill, Ended, screen

LEMMA MovesPlain ==
    ASSUME Base, NEW p, NEW at, NEW next,
           \/ Jump(p, at, next)
           \/ \E v : Assign(p, at, v, next)
           \/ \E v, files : Compute(p, at, v, files, next)
           \/ \E what : Show(p, at, what, next)
           \/ Accept(p, at, next)
           \/ Close(p, at, next)
           \/ CloseListener(p, at, next)
           \/ \E kids : Wait(p, at, kids, next)
    PROVE  Plain
<1>1. Goto(p, next) /\ UNCHANGED <<task, said>>
  BY DEF Jump, Assign, Compute, Show, Accept, Close, CloseListener, Wait, locals, screen
<1> QED BY <1>1, MovePlain

LEMMA TypePlain ==
    ASSUME Base, NEW c \in Clients, NEW at, NEW inputs, NEW next, Type(c, at, inputs, next)
    PROVE  Plain
<1>1. PICK m : said' = [said EXCEPT ![c] = Append(@, m)]
  BY DEF Type
<1>2. c # "server"
  BY ServerAssumption
<1> QED BY <1>1, <1>2 DEF Base, Plain, Type, Goto

LEMMA ConnectPlain ==
    ASSUME Base, NEW p, NEW at, NEW next, NEW refused, Connect(p, at, next, refused)
    PROVE  Plain
<1>1. \E to \in {next, refused} : Goto(p, to)
  BY DEF Connect
<1>2. UNCHANGED <<task, said>>
  BY DEF Connect, locals, screen
<1> QED BY <1>1, <1>2, MovePlain

LEMMA ReceivePlain ==
    ASSUME Base, NEW p, NEW at, NEW n, NEW next, NEW end,
           Recv(p, at, n, next, end) \/ RecvPrint(p, at, n, next, end)
    PROVE  Plain
<1>1. \E to \in {next, end} : Goto(p, to)
  BY DEF Recv, RecvPrint, Receive
<1>2. UNCHANGED <<task, said>>
  BY DEF Recv, RecvPrint, Receive
<1> QED BY <1>1, <1>2, MovePlain

LEMMA FieldPlain ==
    ASSUME Base, NEW p, NEW at, NEW kept, NEW next, NEW end, Field(p, at, kept, next, end)
    PROVE  Plain
<1>1. \E to \in {next, end} : Goto(p, to)
  BY DEF Field
<1>2. UNCHANGED <<task, said>>
  BY DEF Field, screen
<1> QED BY <1>1, <1>2, MovePlain

LEMMA SendPlain ==
    ASSUME Base, NEW p, NEW at, NEW m, NEW next, Send(p, at, m, next)
    PROVE  Plain
<1>1. CASE Kill({task[p]})
  BY <1>1, KillPlain
<1>2. CASE Goto(p, next) /\ UNCHANGED <<task, said>>
  BY <1>2, MovePlain
<1> QED BY <1>1, <1>2 DEF Send, SendOr, locals, screen

LEMMA SendFieldsPlain ==
    ASSUME Base, NEW p, NEW at, NEW next, SendFields(p, at, next)
    PROVE  Plain
<1>1. CASE Kill({task[p]})
  BY <1>1, KillPlain
<1>2. ASSUME NEW to, Goto(p, to), UNCHANGED <<task, said>> PROVE Plain
  BY <1>2, MovePlain
<1>3. \/ Kill({task[p]})
      \/ (\E to \in {at, next} : Goto(p, to)) /\ UNCHANGED <<task, said>>
  BY DEF SendFields, locals, screen
<1> QED BY <1>1, <1>2, <1>3

LEMMA ExitPlain == ASSUME Base, NEW p, NEW at, Exit(p, at) PROVE Plain
  BY KillPlain DEF Exit

LEMMA ForkPlain ==
    ASSUME Base, NEW p, NEW at, NEW kids, NEW child, NEW next, Fork(p, at, kids, child, next)
    PROVE  Plain
  BY DEF Fork, Base, Plain, screen

-----------------------------------------------------------------------------
(* The programs, call by call.                                             *)
LEMMA ArrayPlain ==
    ASSUME Base, NEW x, ArrayServer(x) \/ (x \in Clients /\ ArrayClient(x))
    PROVE  Plain
<1>1. ASSUME NEW l, NEW kept,
             \/ Field(x, l, kept, ArrayNext(var'[x]), "close")
             \/ Field(x, l, kept, ArrayReads(Last(said[x]), var'[x]), "stale")
      PROVE  Plain
  BY <1>1 DEF Field, Goto, Base, Plain, screen
<1>2. CASE ArrayServer(x)
  BY <1>1, <1>2, MovesPlain, SendFieldsPlain, ExitPlain DEF ArrayServer
<1>3. CASE x \in Clients /\ ArrayClient(x)
  BY <1>1, <1>3, ConnectPlain, TypePlain, MovesPlain, SendFieldsPlain, ExitPlain DEF ArrayClient
<1> QED BY <1>2, <1>3

LEMMA SortPlain ==
    ASSUME Base, NEW x, SortServer(x) \/ (x \in Clients /\ SortClient(x))
    PROVE  Plain
<1>1. CASE Field(x, "n", <<>>, IF var'[x] = <<<<"n", 0>>>> THEN "sort" ELSE "arr", "close")
  BY <1>1 DEF Field, Goto, Base, Plain, screen
<1>2. CASE SortServer(x)
  BY <1>1, <1>2, MovesPlain, FieldPlain, SendFieldsPlain, ExitPlain DEF SortServer
<1>3. CASE x \in Clients /\ SortClient(x)
  BY <1>3, ConnectPlain, TypePlain, MovesPlain, FieldPlain, SendFieldsPlain, ExitPlain DEF SortClient
<1> QED BY <1>2, <1>3

LEMMA CalcPlain ==
    ASSUME Base, NEW x, CalcServer(x) \/ (x \in Clients /\ CalcClient(x))
    PROVE  Plain
<1>1. CASE CalcServer(x)
  BY <1>1, MovesPlain, ReceivePlain, SendPlain DEF CalcServer
<1>2. CASE x \in Clients /\ CalcClient(x)
  BY <1>2, ConnectPlain, TypePlain, MovesPlain, ReceivePlain, SendPlain, ExitPlain DEF CalcClient
<1> QED BY <1>1, <1>2

LEMMA FilePlain ==
    ASSUME Base, NEW x, FileServer(x) \/ (x \in Clients /\ FileClient(x))
    PROVE  Plain
<1>1. ASSUME NEW l, NEW kept,
             \/ Field(x, l, kept, FileNext(var'[x], "choice"), "close")
             \/ Field(x, l, kept, IF var'[x] = Status(FALSE) THEN "close" ELSE "menu", "menu")
      PROVE  Plain
  BY <1>1 DEF Field, Goto, Base, Plain, screen
<1>2. CASE FileServer(x)
  BY <1>1, <1>2, MovesPlain, FieldPlain, SendPlain, ExitPlain DEF FileServer, ReplaceFile, Rewrite
<1>3. CASE x \in Clients /\ FileClient(x)
  BY <1>1, <1>3, ConnectPlain, TypePlain, MovesPlain, FieldPlain, SendFieldsPlain, ExitPlain
     DEF FileClient
<1> QED BY <1>2, <1>3

LEMMA TextPlain ==
    ASSUME Base, NEW x, TextServer(x) \/ (x \in Clients /\ TextClient(x))
    PROVE  Plain
<1>1. CASE Recv(x, "status", 1, IF buf'[x] = Status(FALSE) THEN "close" ELSE "menu", "menu")
  BY <1>1 DEF Recv, Receive, Goto, Base, Plain
<1>2. CASE TextServer(x)
  BY <1>2, MovesPlain, ReceivePlain, SendPlain, ExitPlain DEF TextServer, Rewrite
<1>3. CASE x \in Clients /\ TextClient(x)
  BY <1>1, <1>3, ConnectPlain, TypePlain, MovesPlain, ReceivePlain, SendPlain, ExitPlain
     DEF TextClient
<1> QED BY <1>2, <1>3

LEMMA NamesPlain ==
    ASSUME Base, NEW x,
           \/ StatisticsServer(x) \/ DnsServer(x) \/ AddressServer(x)
           \/ x \in Clients /\ (StatisticsClient(x) \/ DnsClient(x) \/ AddressClient(x))
    PROVE  Plain
<1>1. CASE StatisticsServer(x)
  BY <1>1, MovesPlain, ReceivePlain, SendPlain, ExitPlain DEF StatisticsServer
<1>2. CASE DnsServer(x)
  BY <1>2, MovesPlain, ReceivePlain, SendPlain, ExitPlain DEF DnsServer
<1>3. CASE AddressServer(x)
  BY <1>3, MovesPlain, ExitPlain DEF AddressServer
<1>4. CASE x \in Clients /\ StatisticsClient(x)
  BY <1>4, ConnectPlain, TypePlain, ReceivePlain, SendPlain, ExitPlain DEF StatisticsClient
<1>5. CASE x \in Clients /\ DnsClient(x)
  BY <1>5, ConnectPlain, TypePlain, ReceivePlain, SendPlain, ExitPlain DEF DnsClient
<1>6. CASE x \in Clients /\ AddressClient(x)
  BY <1>6, ConnectPlain, ExitPlain DEF AddressClient
<1> QED BY <1>1, <1>2, <1>3, <1>4, <1>5, <1>6

LEMMA StudentsPlain ==
    ASSUME Base, NEW x, NEW kids, StudentServer(x, kids) \/ (x \in Clients /\ StudentClient(x))
    PROVE  Plain
<1>1. ASSUME NEW inputs, x \in Clients,
             Type(x, "menu", inputs, IF var'[x] = Finish THEN "leave" ELSE "write")
      PROVE  Plain
  <2>1. PICK m : said' = [said EXCEPT ![x] = Append(@, m)]
    BY <1>1 DEF Type
  <2>2. x # "server"
    BY <1>1, ServerAssumption
  <2> QED BY <1>1, <2>1, <2>2 DEF Type, Goto, Base, Plain
<1>2. ASSUME NEW w, StudentChild(w) PROVE Plain
  BY <1>2, MovesPlain, SendPlain, ExitPlain DEF StudentChild
<1>3. CASE StudentServer(x, kids)
  BY <1>2, <1>3, MovesPlain, FieldPlain, ForkPlain DEF StudentServer, ForkRefused
<1>4. CASE x \in Clients /\ StudentClient(x)
  BY <1>1, <1>4, ConnectPlain, MovesPlain, ReceivePlain, SendFieldsPlain, ExitPlain
     DEF StudentClient
<1> QED BY <1>3, <1>4

LEMMA PairPlain ==
    ASSUME Base, NEW x, NEW kids, PairServer(x, kids) \/ (x \in Clients /\ PairClient(x))
    PROVE  Plain
<1>1. CASE PairServer(x, kids)
  BY <1>1, MovesPlain, ReceivePlain, ForkPlain, SendPlain, ExitPlain DEF PairServer, ForkRefused
<1>2. CASE x \in Clients /\ PairClient(x)
  BY <1>2, ConnectPlain, TypePlain, ReceivePlain, SendPlain, ExitPlain DEF PairClient
<1> QED BY <1>1, <1>2

LEMMA JudgesPlain ==
    ASSUME Base, NEW x,
           \/ ParityServer(x) \/ CrcServer(x) \/ HammingServer(x)
           \/ x \in Clients /\ (ParityClient(x) \/ CrcClient(x) \/ HammingClient(x))
    PROVE  Plain
<1>1. CASE ParityServer(x)
  BY <1>1, MovesPlain, FieldPlain, SendPlain DEF ParityServer
<1>2. CASE CrcServer(x)
  BY <1>2, MovesPlain, ReceivePlain, SendPlain DEF CrcServer
<1>3. CASE HammingServer(x)
  BY <1>3, MovesPlain, FieldPlain, SendPlain DEF HammingServer
<1>4. CASE x \in Clients /\ ParityClient(x)
  BY <1>4, ConnectPlain, TypePlain, ReceivePlain, SendPlain, ExitPlain DEF ParityClient
<1>5. ASSUME NEW frames, NEW one, x \in Clients, FrameClient(x, frames, one) PROVE Plain
  BY <1>5, ConnectPlain, TypePlain, ReceivePlain, SendFieldsPlain, ExitPlain DEF FrameClient
<1> QED BY <1>1, <1>2, <1>3, <1>4, <1>5 DEF CrcClient, HammingClient

(* Only an interrupt of the server is not plain, and it says so.           *)
LEMMA BaseStep ==
    ASSUME Base, [Next]_vars
    PROVE  /\ Base' /\ UNCHANGED system
           /\ \/ said'["server"] = said["server"]
              \/ system \in {"calculator", "files", "texts"} /\ Stopped'
<1>1. ASSUME Plain
      PROVE  Base' /\ UNCHANGED system /\ said'["server"] = said["server"]
  BY <1>1 DEF Base, Plain
<1>2. ASSUME Server("server") PROVE Plain
  BY <1>2, ArrayPlain, SortPlain, CalcPlain, FilePlain, TextPlain, NamesPlain, StudentsPlain,
     PairPlain, JudgesPlain DEF Server
<1>3. ASSUME NEW c \in Clients, Client(c) PROVE Plain
  BY <1>3, ArrayPlain, SortPlain, CalcPlain, FilePlain, TextPlain, NamesPlain, StudentsPlain,
     PairPlain, JudgesPlain DEF Client
<1>4. ASSUME NEW c \in Varied, Quit(c) PROVE Plain
  BY <1>4, KillPlain DEF Quit
<1>5. ASSUME Interrupt("server", {"server"})
      PROVE  Base' /\ UNCHANGED system /\ Stopped'
  <2>1. /\ DOMAIN pc' = Procs /\ UNCHANGED <<system, task>>
        /\ said' = [said EXCEPT !["server"] = Append(@, <<"^C">>)]
    BY <1>5 DEF Interrupt, Ended, locals
  <2>2. DOMAIN said' = Procs /\ said'["server"] = Append(said["server"], <<"^C">>)
    BY <2>1, ServerAssumption DEF Base
  <2>3. ASSUME NEW S, NEW s \in Seq(S), NEW e \in S
        PROVE  Append(s, e) \in Seq(S) /\ Append(s, e) # <<>>
    <3>1. Append(s, e) \in Seq(S) /\ Len(Append(s, e)) = Len(s) + 1 /\ Len(s) \in Nat
      OBVIOUS
    <3>2. Len(Append(s, e)) # 0 /\ Len(<<>>) = 0
      BY <3>1
    <3> QED BY <3>1, <3>2
  <2>4. said["server"] \in Seq({<<"^C">>}) /\ <<"^C">> \in {<<"^C">>}
    BY DEF Base
  <2>5. said'["server"] \in Seq({<<"^C">>}) /\ said'["server"] # <<>>
    BY ONLY <2>2, <2>3, <2>4
  <2> QED BY <2>1, <2>2, <2>5 DEF Base, Stopped
<1>6. ASSUME UNCHANGED vars PROVE Plain
  BY <1>6 DEF vars, locals, screen, Base, Plain
<1> QED BY <1>1, <1>2, <1>3, <1>4, <1>5, <1>6 DEF Next, Programs, Leave

-----------------------------------------------------------------------------
(* The student server leaves every answer to a child: none of its own calls *)
(* can end it, and what ends is another task.                              *)
Spared == pc'["server"] # "done"
Others(p, next) == p # "server" \/ next # "done"

LEMMA GoSpares ==
    ASSUME Base, ~Gone, NEW p, NEW next, Others(p, next), Goto(p, next)
    PROVE  Spared
  BY ServerAssumption DEF Base, Others, Spared, Gone, Goto

LEMMA KillSpares == ASSUME Base, ~Gone, NEW p \in Procs \ {"server"}, Kill({task[p]}) PROVE Spared
<1>1. task[p] # task["server"]
  BY ServerAssumption DEF Base
<1>2. pc'["server"] = pc["server"]
  BY <1>1, ServerAssumption DEF Kill, Ended
<1> QED BY <1>2 DEF Spared, Gone

LEMMA ChildSpares ==
    ASSUME Base, ~Gone, NEW w \in Procs \ {"server"}, StudentChild(w)
    PROVE  Spared
<1>1. ASSUME NEW next, Goto(w, next) PROVE Spared
  BY <1>1, GoSpares DEF Others
<1>2. \/ Kill({task[w]})
      \/ Goto(w, "write") \/ Goto(w, "close")
  BY DEF StudentChild, CloseListener, Send, SendOr, Exit
<1> QED BY <1>1, <1>2, KillSpares

LEMMA StudentServerSpares ==
    ASSUME Base, ~Gone, StudentServer("server", Workers)
    PROVE  Spared
<1> DEFINE x == "server"
<1>1. ASSUME NEW next, Goto(x, next), next # "done" PROVE Spared
  BY <1>1, GoSpares DEF Others
<1>2. CASE \/ Accept(x, "accept", "option")
           \/ Field(x, "option", <<>>, "data", "memset")
           \/ \E v : Assign(x, "memset", v, "data")
           \/ Field(x, "data", var[x], "fork", "fork")
           \/ ForkRefused(x, "fork", "accept")
           \/ Close(x, "close_new", "accept")
  <2>1. \E next \in {"option", "data", "memset", "fork", "accept"} : Goto(x, next)
    BY <1>2 DEF Accept, Field, Assign, Close, ForkRefused, Jump
  <2> QED BY <1>1, <2>1
<1>3. CASE Fork(x, "fork", Workers, "close_listener", "close_new")
  <2>1. PICK w \in Workers : pc' = [pc EXCEPT ![x] = "close_new", ![w] = "close_listener"]
    BY <1>3 DEF Fork
  <2> QED BY <2>1, WorkersAssumption, ServerAssumption DEF Base, Spared
<1>4. ASSUME NEW w \in Workers, StudentChild(w) PROVE Spared
  BY <1>4, ChildSpares, WorkersAssumption
<1> QED BY <1>2, <1>3, <1>4 DEF StudentServer

LEMMA StudentClientSpares ==
    ASSUME Base, ~Gone, NEW c \in Clients, StudentClient(c)
    PROVE  Spared
<1>1. c \in Procs \ {"server"}
  BY ClientsAssumption, ServerAssumption
<1>2. ASSUME NEW next, pc' = [pc EXCEPT ![c] = next] PROVE Spared
  BY <1>1, <1>2 DEF Base, Spared, Gone
<1>3. CASE Connect(c, "connect", "menu", "done")
  BY <1>2, <1>3 DEF Connect, Goto
<1>4. ASSUME NEW inputs, Type(c, "menu", inputs, IF var'[c] = Finish THEN "leave" ELSE "write")
      PROVE  Spared
  BY <1>2, <1>4 DEF Type, Goto
<1>5. CASE SendFields(c, "write", "reply")
  BY <1>1, <1>2, <1>5, KillSpares DEF SendFields, Goto
<1>6. CASE RecvPrint(c, "reply", 1, "close", "close") \/ Close(c, "close", "connect")
  BY <1>2, <1>6 DEF RecvPrint, Receive, Close, Goto
<1>7. CASE Exit(c, "leave")
  BY <1>1, <1>7, KillSpares DEF Exit
<1> QED BY <1>3, <1>4, <1>5, <1>6, <1>7 DEF StudentClient

StudentsInv == system = "students" => ~Gone

LEMMA StudentsStep ==
    ASSUME Base, StudentsInv, UNCHANGED system, [Next]_vars
    PROVE  StudentsInv'
<1> SUFFICES ASSUME system = "students" PROVE Spared
  BY DEF StudentsInv, Spared, Gone
<1>1. ~Gone
  BY DEF StudentsInv
<1>2. ASSUME Server("server") PROVE Spared
  BY <1>1, <1>2, StudentServerSpares DEF Server
<1>3. ASSUME NEW c \in Clients, Client(c) PROVE Spared
  BY <1>1, <1>3, StudentClientSpares DEF Client
<1>4. ASSUME NEW c \in Varied, Quit(c) PROVE Spared
  <2>1. c \in Procs \ {"server"}
    BY VariedAssumption, ClientsAssumption, ServerAssumption
  <2>2. task[c] = c
    BY <2>1 DEF Base
  <2> QED BY <1>1, <1>4, <2>1, <2>2, KillSpares DEF Quit
<1>5. ASSUME UNCHANGED vars PROVE Spared
  BY <1>1, <1>5 DEF vars, Spared, Gone
<1> QED BY <1>2, <1>3, <1>4, <1>5 DEF Next, Programs, Leave

-----------------------------------------------------------------------------
(* A server that serves its connections itself ends if it sends on one      *)
(* that was reset.  What a client does leaves a connection without a reset *)
(* to the server as long as the server has sent nothing on it.             *)
Fresh(k) == k.in["c"] = <<>> /\ "s" \notin k.rst
Keepers == {{"kernel"}, {"server"}}
Shape(k) == DOMAIN k = {"in", "by", "rst"} /\ DOMAIN k.by = Ends /\ DOMAIN k.in = Ends

Shapes == DOMAIN conn = 1 .. MaxConns /\ \A i \in 1 .. MaxConns : Shape(conn[i])

(* Whoever waits to be accepted waits once, with the kernel at the other end. *)
Waitlist ==
    /\ backlog \in Seq(1 .. MaxConns)
    /\ \A k \in DOMAIN backlog : conn[backlog[k]].by["s"] = {"kernel"}
    /\ \A j, k \in DOMAIN backlog : j # k => backlog[j] # backlog[k]

Common ==
    /\ DOMAIN fd = Procs /\ \A c \in Clients : fd[c].end = "c"
    /\ listening = {"server"}
    /\ Shapes /\ Waitlist

(* The connection in the server's hands.                                   *)
Took ==
    /\ fd["server"].end = "s" /\ fd["server"].conn \in 1 .. MaxConns
    /\ conn[fd["server"].conn].by["s"] = {"server"}

(* What a client's step may do to connection k.                            *)
Gently(k, l) ==
    /\ Shape(l)
    /\ Fresh(k) => Fresh(l)
    /\ k.by["s"] \in Keepers => l.by["s"] = k.by["s"]

Enters(i) ==
    /\ backlog' = Append(backlog, i)
    /\ conn[i].by["s"] = {} /\ conn'[i].by["s"] = {"kernel"}
    /\ Fresh(conn'[i])

(* What a client's step may do.                                            *)
Gentle ==
    /\ listening' = listening
    /\ pc'["server"] = pc["server"] /\ fd'["server"] = fd["server"]
    /\ DOMAIN fd' = Procs /\ \A c \in Clients : fd'[c].end = "c"
    /\ DOMAIN conn' = 1 .. MaxConns /\ \A i \in 1 .. MaxConns : Gently(conn[i], conn'[i])
    /\ backlog' = backlog \/ \E i \in 1 .. MaxConns : Enters(i)

LEMMA Separate ==
    /\ "server" \in Procs /\ "kernel" # "server"
    /\ \A c \in Clients : c \in Procs /\ c # "server" /\ c # "kernel"
  BY ServerAssumption, ClientsAssumption

LEMMA BothEnds == "c" \in Ends /\ "s" \in Ends /\ "c" # "s" /\ Other("c") = "s" /\ Other("s") = "c"
  BY DEF Ends, Other

LEMMA GentlySelf == ASSUME NEW k, Shape(k) PROVE Gently(k, k)
  BY DEF Gently

LEMMA GentlyIn ==
    ASSUME NEW k, Shape(k), NEW e \in Ends, NEW v, e = "s" \/ k.in["c"] # <<>>
    PROVE  Gently(k, [k EXCEPT !.in[e] = v])
  BY DEF Gently, Fresh, Shape, Ends

LEMMA GentlyRst ==
    ASSUME NEW k, Shape(k)
    PROVE  Gently(k, [k EXCEPT !.rst = @ \cup {"c"}])
  BY DEF Gently, Fresh, Shape

LEMMA DropShape ==
    ASSUME NEW k, Shape(k), NEW e \in Ends, NEW T
    PROVE  /\ Shape(Drop(k, e, T))
           /\ Drop(k, e, T).by[e] = k.by[e] \ T
           /\ \A d \in Ends \ {e} : Drop(k, e, T).by[d] = k.by[d]
  BY DEF Shape, Drop

LEMMA DropFields ==
    ASSUME NEW k, Shape(k), NEW e \in Ends, NEW T
    PROVE  /\ Drop(k, e, T).in = k.in
           /\ Drop(k, e, T).rst = k.rst \cup (IF k.by[e] # {} /\ k.by[e] \subseteq T /\ k.in[e] # <<>>
                                              THEN {Other(e)} ELSE {})
<1>1. DOMAIN k = {"in", "by", "rst"}
  BY DEF Shape
<1> DEFINE r == IF k.by[e] # {} /\ k.by[e] \subseteq T /\ k.in[e] # <<>>
                THEN k.rst \cup {Other(e)} ELSE k.rst
<1>2. Drop(k, e, T) = [k EXCEPT !.by[e] = @ \ T, !.rst = r]
  BY DEF Drop
<1>3. Drop(k, e, T).in = k.in /\ Drop(k, e, T).rst = r
  BY <1>1, <1>2
<1> QED BY <1>3

(* A client that ends: data it leaves unread resets the server's end.       *)
LEMMA LeaveEnd ==
    ASSUME NEW k, Shape(k), NEW c \in Clients
    PROVE  LET m == Drop(Drop(k, "c", {c}), "s", {c}) IN
           /\ Shape(m) /\ m.in = k.in
           /\ m.by["c"] = k.by["c"] \ {c} /\ m.by["s"] = k.by["s"] \ {c}
           /\ "s" \in m.rst => \/ "s" \in k.rst
                               \/ k.by["c"] \subseteq {c} /\ k.in["c"] # <<>>
           /\ "c" \in m.rst => \/ "c" \in k.rst
                               \/ k.by["s"] # {} /\ k.by["s"] \subseteq {c}
<1> DEFINE l == Drop(k, "c", {c})
           m == Drop(l, "s", {c})
<1>1. Shape(l) /\ l.by["c"] = k.by["c"] \ {c} /\ l.by["s"] = k.by["s"]
  BY BothEnds, DropShape
<1>2. Shape(m) /\ m.by["s"] = l.by["s"] \ {c} /\ m.by["c"] = l.by["c"]
  BY <1>1, BothEnds, DropShape
<1>3. /\ l.in = k.in
      /\ l.rst = k.rst \cup (IF k.by["c"] # {} /\ k.by["c"] \subseteq {c} /\ k.in["c"] # <<>>
                             THEN {Other("c")} ELSE {})
  BY BothEnds, DropFields
<1>4. /\ m.in = l.in
      /\ m.rst = l.rst \cup (IF l.by["s"] # {} /\ l.by["s"] \subseteq {c} /\ l.in["s"] # <<>>
                             THEN {Other("s")} ELSE {})
  BY <1>1, BothEnds, DropFields
<1>5. "s" \in m.rst => "s" \in l.rst
  BY <1>4, BothEnds
<1>6. "s" \in l.rst => "s" \in k.rst \/ (k.by["c"] \subseteq {c} /\ k.in["c"] # <<>>)
  BY <1>3
<1>7. "c" \in l.rst => "c" \in k.rst
  BY <1>3, BothEnds
<1>8. "c" \in m.rst => "c" \in l.rst \/ (l.by["s"] # {} /\ l.by["s"] \subseteq {c})
  BY <1>4
<1> QED BY <1>1, <1>2, <1>3, <1>4, <1>5, <1>6, <1>7, <1>8

LEMMA GentlyLeave ==
    ASSUME NEW k, Shape(k), NEW c \in Clients
    PROVE  Gently(k, Drop(Drop(k, "c", {c}), "s", {c}))
<1>1. c # "server" /\ c # "kernel"
  BY Separate
<1>2. PICK m : m = Drop(Drop(k, "c", {c}), "s", {c})
  OBVIOUS
<1>3. /\ Shape(m) /\ m.in = k.in /\ m.by["s"] = k.by["s"] \ {c}
      /\ "s" \in m.rst => "s" \in k.rst \/ k.in["c"] # <<>>
  BY <1>2, LeaveEnd
<1>4. Fresh(k) => Fresh(m)
  BY <1>3 DEF Fresh
<1>5. k.by["s"] \in Keepers => m.by["s"] = k.by["s"]
  BY <1>1, <1>3 DEF Keepers
<1> QED BY <1>2, <1>3, <1>4, <1>5 DEF Gently

-----------------------------------------------------------------------------
(* The calls of a client are gentle.                                       *)
LEMMA OneConn ==
    ASSUME Common, NEW j, NEW l, conn' = [conn EXCEPT ![j] = l],
           j \in 1 .. MaxConns => Gently(conn[j], l)
    PROVE  DOMAIN conn' = 1 .. MaxConns /\ \A i \in 1 .. MaxConns : Gently(conn[i], conn'[i])
  BY GentlySelf DEF Common, Shapes

LEMMA SameConns ==
    ASSUME Common, UNCHANGED conn
    PROVE  DOMAIN conn' = 1 .. MaxConns /\ \A i \in 1 .. MaxConns : Gently(conn[i], conn'[i])
  BY GentlySelf DEF Common, Shapes

LEMMA GentleMove ==
    ASSUME Base, Common, NEW c \in Clients, NEW next, Goto(c, next),
           UNCHANGED <<fd, backlog, listening>>,
           DOMAIN conn' = 1 .. MaxConns, \A i \in 1 .. MaxConns : Gently(conn[i], conn'[i])
    PROVE  Gentle
<1>1. pc'["server"] = pc["server"]
  BY Separate DEF Base, Goto
<1> QED BY <1>1 DEF Gentle, Common

LEMMA TypeGentle ==
    ASSUME Base, Common, NEW c \in Clients, NEW at, NEW next,
           \/ \E inputs : Type(c, at, inputs, next)
           \/ \E what : Show(c, at, what, next)
    PROVE  Gentle
<1>1. Goto(c, next) /\ UNCHANGED <<fd, backlog, listening, conn>>
  BY DEF Type, Show, net, locals
<1> QED BY <1>1, SameConns, GentleMove

LEMMA ConnectGentle ==
    ASSUME Base, Common, NEW c \in Clients, NEW at, NEW next, NEW refused,
           Connect(c, at, next, refused)
    PROVE  Gentle
<1>1. PICK i \in 1 .. MaxConns :
        /\ conn[i] = NoConn
        /\ conn' = [conn EXCEPT ![i].by = [c |-> {task[c]}, s |-> {"kernel"}]]
        /\ backlog' = Append(backlog, i)
        /\ fd' = [fd EXCEPT ![c] = [conn |-> i, end |-> "c"]]
        /\ pc' = [pc EXCEPT ![c] = next]
        /\ UNCHANGED listening
  BY DEF Connect, Goto, Common
<1> DEFINE l == [NoConn EXCEPT !.by = [c |-> {task[c]}, s |-> {"kernel"}]]
<1>2. conn' = [conn EXCEPT ![i] = l]
  BY <1>1
<1>3. /\ Shape(l) /\ l.in = NoConn.in /\ l.rst = {} /\ l.by["s"] = {"kernel"}
      /\ NoConn.by["s"] = {} /\ NoConn.in["c"] = <<>> /\ NoConn.rst = {}
  BY DEF NoConn, Ends, Shape
<1>4. Fresh(l) /\ Gently(NoConn, l)
  BY <1>3 DEF Gently, Fresh, Keepers
<1>5. DOMAIN conn' = 1 .. MaxConns /\ \A j \in 1 .. MaxConns : Gently(conn[j], conn'[j])
  BY <1>1, <1>2, <1>4, OneConn
<1>6. Enters(i)
  <2>1. conn'[i] = l
    BY <1>2 DEF Common, Shapes
  <2> QED BY <1>1, <1>3, <1>4, <2>1 DEF Enters
<1>7. /\ pc'["server"] = pc["server"] /\ fd'["server"] = fd["server"] /\ DOMAIN fd' = Procs
      /\ \A d \in Clients : fd'[d].end = "c"
  BY <1>1, Separate DEF Base, Common
<1> QED BY <1>1, <1>5, <1>6, <1>7 DEF Gentle

LEMMA ReceiveGentle ==
    ASSUME Base, Common, NEW c \in Clients, NEW at, NEW n, NEW next, NEW end,
           Recv(c, at, n, next, end) \/ RecvPrint(c, at, n, next, end)
    PROVE  Gentle
<1>1. (\E to : Goto(c, to)) /\ UNCHANGED <<fd, backlog, listening>>
  BY DEF Recv, RecvPrint, Receive
<1>2. DOMAIN conn' = 1 .. MaxConns /\ \A i \in 1 .. MaxConns : Gently(conn[i], conn'[i])
  <2>1. ASSUME NEW show, Read(c, n, show)
        PROVE  DOMAIN conn' = 1 .. MaxConns /\ \A i \in 1 .. MaxConns : Gently(conn[i], conn'[i])
    <3> DEFINE f == fd[c].conn
    <3>1. PICK k \in 1 .. Len(Arrived(c)) :
            conn' = [conn EXCEPT ![f].in[fd[c].end] = SubSeq(@, k + 1, Len(@))]
      BY <2>1 DEF Read
    <3>2. fd[c].end = "c" /\ Arrived(c) = conn[f].in["c"]
      BY DEF Common, Arrived, Mine
    <3>3. conn[f].in["c"] # <<>>
      <4>1. Len(<<>>) = 0
        OBVIOUS
      <4>2. 1 .. 0 = {}
        OBVIOUS
      <4> QED BY <3>1, <3>2, <4>1, <4>2
    <3>4. PICK v : conn' = [conn EXCEPT ![f].in["c"] = v]
      BY <3>1, <3>2
    <3>5. f \in 1 .. MaxConns => Gently(conn[f], [conn[f] EXCEPT !.in["c"] = v])
      BY <3>3, GentlyIn, BothEnds DEF Common, Shapes
    <3>6. conn' = [conn EXCEPT ![f] = [conn[f] EXCEPT !.in["c"] = v]]
      BY <3>4
    <3> QED BY <3>5, <3>6, OneConn
  <2> QED BY <2>1, SameConns DEF Recv, RecvPrint, Receive
<1> QED BY <1>1, <1>2, GentleMove

LEMMA KillGentle ==
    ASSUME Base, Common, NEW c \in Clients, Kill({task[c]})
    PROVE  Gentle
<1>1. task[c] = c /\ c # "server" /\ task["server"] = "server"
  BY Separate DEF Base
<1>2. listening' = listening /\ ~(listening \subseteq {c})
  BY <1>1 DEF Kill, Closed, Common
<1>3. /\ conn' = [i \in DOMAIN conn |-> Drop(Drop(conn[i], "c", {c}), "s", {c})]
      /\ backlog' = backlog
  BY <1>1, <1>2 DEF Kill, Closed
<1>4. DOMAIN conn' = 1 .. MaxConns /\ \A i \in 1 .. MaxConns : Gently(conn[i], conn'[i])
  BY <1>3, GentlyLeave DEF Common, Shapes
<1>5. pc'["server"] = pc["server"] /\ fd'["server"] = fd["server"] /\ DOMAIN fd' = Procs
  BY <1>1, Separate DEF Kill, Ended
<1>6. \A d \in Clients : fd'[d].end = "c"
  BY Separate DEF Kill, Common, NoFd
<1> QED BY <1>2, <1>3, <1>4, <1>5, <1>6 DEF Gentle

LEMMA SendGentle ==
    ASSUME Base, Common, NEW c \in Clients, NEW to,
           \/ Kill({task[c]})
           \/ /\ Goto(c, to) /\ UNCHANGED <<fd, backlog, listening>>
              /\ \/ UNCHANGED conn
                 \/ conn' = [conn EXCEPT ![fd[c].conn].rst = @ \cup {fd[c].end}]
                 \/ \E v : conn' = [conn EXCEPT ![fd[c].conn].in[Other(fd[c].end)] = v]
    PROVE  Gentle
<1> DEFINE f == fd[c].conn
<1>1. fd[c].end = "c" /\ Other(fd[c].end) = "s"
  BY BothEnds DEF Common
<1>2. ASSUME conn' = [conn EXCEPT ![f].rst = @ \cup {fd[c].end}]
      PROVE  DOMAIN conn' = 1 .. MaxConns /\ \A i \in 1 .. MaxConns : Gently(conn[i], conn'[i])
  <2>1. conn' = [conn EXCEPT ![f] = [conn[f] EXCEPT !.rst = @ \cup {"c"}]]
    BY <1>1, <1>2
  <2>2. f \in 1 .. MaxConns => Gently(conn[f], [conn[f] EXCEPT !.rst = @ \cup {"c"}])
    BY GentlyRst DEF Common, Shapes
  <2> QED BY <2>1, <2>2, OneConn
<1>3. ASSUME NEW v, conn' = [conn EXCEPT ![f].in[Other(fd[c].end)] = v]
      PROVE  DOMAIN conn' = 1 .. MaxConns /\ \A i \in 1 .. MaxConns : Gently(conn[i], conn'[i])
  <2>1. conn' = [conn EXCEPT ![f] = [conn[f] EXCEPT !.in["s"] = v]]
    BY <1>1, <1>3
  <2>2. f \in 1 .. MaxConns => Gently(conn[f], [conn[f] EXCEPT !.in["s"] = v])
    BY GentlyIn, BothEnds DEF Common, Shapes
  <2> QED BY <2>1, <2>2, OneConn
<1>4. CASE Goto(c, to) /\ UNCHANGED <<fd, backlog, listening>> /\ ~Kill({task[c]})
  <2>1. DOMAIN conn' = 1 .. MaxConns /\ \A i \in 1 .. MaxConns : Gently(conn[i], conn'[i])
    BY <1>2, <1>3, <1>4, SameConns
  <2> QED BY <1>4, <2>1, GentleMove
<1> QED BY <1>4, KillGentle

LEMMA ClientCallsGentle ==
    ASSUME Base, Common, NEW c \in Clients, NEW at, NEW next,
           (\E m : Send(c, at, m, next)) \/ SendFields(c, at, next) \/ Exit(c, at)
    PROVE  Gentle
<1>1. CASE \E m : Send(c, at, m, next)
  <2>1. PICK m : Send(c, at, m, next)
    BY <1>1
  <2>2. \/ Kill({task[c]})
        \/ /\ Goto(c, next) /\ UNCHANGED <<fd, backlog, listening>>
           /\ \/ UNCHANGED conn
              \/ conn' = [conn EXCEPT ![fd[c].conn].rst = @ \cup {fd[c].end}]
              \/ conn' = [conn EXCEPT ![fd[c].conn].in[Other(fd[c].end)] =
                                         conn[fd[c].conn].in[Other(fd[c].end)] \o m]
    BY <2>1 DEF Send, SendOr, locals, net
  <2> QED BY <2>2, SendGentle
<1>2. CASE SendFields(c, at, next)
  <2>1. PICK to \in {at, next} :
        \/ Kill({task[c]})
        \/ /\ Goto(c, to) /\ UNCHANGED <<fd, backlog, listening>>
           /\ \/ UNCHANGED conn
              \/ conn' = [conn EXCEPT ![fd[c].conn].rst = @ \cup {fd[c].end}]
              \/ conn' = [conn EXCEPT ![fd[c].conn].in[Other(fd[c].end)] =
                                  Append(conn[fd[c].conn].in[Other(fd[c].end)], Head(var[c]))]
    BY <1>2 DEF SendFields, locals, net
  <2> QED BY <2>1, SendGentle
<1>3. CASE Exit(c, at)
  BY <1>3, KillGentle DEF Exit
<1> QED BY <1>1, <1>2, <1>3

(* After a gentle step a server has what it had.                           *)
LEMMA GentleCommon ==
    ASSUME Common, Gentle
    PROVE  /\ Common'
           /\ \A k \in DOMAIN backlog' :
                \/ backlog'[k] \in 1 .. MaxConns /\ Enters(backlog'[k])
                \/ k \in DOMAIN backlog /\ backlog'[k] = backlog[k] /\ backlog[k] \in 1 .. MaxConns
           /\ Took => Took'
<1>1. /\ listening' = {"server"} /\ DOMAIN fd' = Procs
      /\ \A c \in Clients : fd'[c].end = "c"
      /\ Shapes'
  BY DEF Gentle, Common, Shapes, Gently
<1>2. Took => Took'
  BY DEF Gentle, Took, Gently, Keepers
<1>3. /\ backlog \in Seq(1 .. MaxConns)
      /\ \A k \in DOMAIN backlog : backlog[k] \in 1 .. MaxConns
  <2>1. \A S : \A s \in Seq(S) : \A k \in DOMAIN s : s[k] \in S
    OBVIOUS
  <2>2. backlog \in Seq(1 .. MaxConns)
    BY DEF Common, Waitlist
  <2> QED BY ONLY <2>1, <2>2
<1>4. \A k \in DOMAIN backlog : conn'[backlog[k]].by["s"] = {"kernel"}
  <2> TAKE k \in DOMAIN backlog
  <2>1. backlog[k] \in 1 .. MaxConns
    BY <1>3
  <2>2. conn[backlog[k]].by["s"] = {"kernel"}
    BY DEF Common, Waitlist
  <2>3. Gently(conn[backlog[k]], conn'[backlog[k]])
    BY <2>1 DEF Gentle
  <2> QED BY <2>2, <2>3 DEF Gently, Keepers
<1>5. CASE backlog' = backlog
  <2>1. Waitlist'
    BY <1>3, <1>4, <1>5 DEF Common, Waitlist
  <2> QED BY <1>1, <1>2, <1>3, <1>5, <2>1 DEF Common
<1>6. ASSUME NEW i \in 1 .. MaxConns, Enters(i)
      PROVE  /\ Waitlist'
             /\ \A k \in DOMAIN backlog' :
                  \/ backlog'[k] \in 1 .. MaxConns /\ Enters(backlog'[k])
                  \/ k \in DOMAIN backlog /\ backlog'[k] = backlog[k]
  <2>1. /\ backlog' \in Seq(1 .. MaxConns) /\ Len(backlog) \in Nat
        /\ DOMAIN backlog = 1 .. Len(backlog) /\ DOMAIN backlog' = 1 .. Len(backlog) + 1
        /\ backlog'[Len(backlog) + 1] = i
        /\ \A k \in 1 .. Len(backlog) : backlog'[k] = backlog[k]
    BY <1>3, <1>6 DEF Enters
  <2>2. \A k \in DOMAIN backlog' :
          \/ backlog'[k] = i /\ k = Len(backlog) + 1
          \/ k \in DOMAIN backlog /\ backlog'[k] = backlog[k]
    BY <2>1
  <2>3. \A k \in DOMAIN backlog : backlog[k] # i
    BY <1>6 DEF Enters, Common, Waitlist
  <2>4. \A j, k \in DOMAIN backlog : j # k => backlog[j] # backlog[k]
    BY DEF Common, Waitlist
  <2>5. \A j, k \in DOMAIN backlog' : j # k => backlog'[j] # backlog'[k]
    BY <2>2, <2>3, <2>4
  <2>6. \A k \in DOMAIN backlog' : conn'[backlog'[k]].by["s"] = {"kernel"}
    BY <1>4, <1>6, <2>2 DEF Enters
  <2> QED BY <1>6, <2>1, <2>2, <2>5, <2>6 DEF Waitlist
<1> QED BY <1>1, <1>2, <1>3, <1>5, <1>6 DEF Gentle, Common

-----------------------------------------------------------------------------
(* The server's own calls.                                                 *)
LEMMA ServerAccepts ==
    ASSUME Base, Common, NEW next, Accept("server", "accept", next)
    PROVE  /\ Common' /\ Took' /\ pc'["server"] = next
           /\ \A c \in Clients : pc'[c] = pc[c] /\ fd'[c] = fd[c]
           /\ fd'["server"].conn \in {backlog[k] : k \in DOMAIN backlog}
           /\ conn[fd'["server"].conn].by["s"] = {"kernel"}
           /\ \A i \in 1 .. MaxConns :
                /\ conn'[i].in = conn[i].in /\ conn'[i].rst = conn[i].rst
                /\ conn'[i].by["c"] = conn[i].by["c"]
                /\ i # fd'["server"].conn => conn'[i] = conn[i]
           /\ \A k \in DOMAIN backlog' :
                /\ backlog'[k] \in 1 .. MaxConns /\ backlog'[k] # fd'["server"].conn
                /\ backlog'[k] \in {backlog[j] : j \in DOMAIN backlog}
<1> DEFINE h == Head(backlog)
<1>1. /\ backlog # <<>> /\ backlog' = Tail(backlog)
      /\ fd' = [fd EXCEPT !["server"] = [conn |-> h, end |-> "s"]]
      /\ conn' = [conn EXCEPT ![h].by["s"] = {"server"}]
      /\ pc' = [pc EXCEPT !["server"] = next]
      /\ UNCHANGED listening
  BY Separate DEF Accept, Goto, Base
<1>2. backlog \in Seq(1 .. MaxConns)
  BY DEF Common, Waitlist
<1>3. /\ 1 \in DOMAIN backlog /\ h = backlog[1] /\ h \in 1 .. MaxConns
      /\ backlog' \in Seq(1 .. MaxConns)
      /\ \A k \in DOMAIN backlog' : /\ k \in Nat /\ k + 1 \in DOMAIN backlog /\ k + 1 # 1
                                    /\ backlog'[k] = backlog[k + 1]
                                    /\ backlog'[k] \in 1 .. MaxConns
  <2>1. \A S : \A s \in Seq(S) : s # <<>> =>
          /\ 1 \in DOMAIN s /\ Head(s) = s[1] /\ Head(s) \in S /\ Tail(s) \in Seq(S)
          /\ \A k \in DOMAIN Tail(s) : /\ k \in Nat /\ k + 1 \in DOMAIN s /\ k + 1 # 1
                                       /\ Tail(s)[k] = s[k + 1]
    OBVIOUS
  <2>2. \A S : \A s \in Seq(S) : \A k \in DOMAIN s : s[k] \in S
    OBVIOUS
  <2> QED BY ONLY <1>1, <1>2, <2>1, <2>2
<1>4. conn[h].by["s"] = {"kernel"}
  BY <1>3 DEF Common, Waitlist
<1>5. \A i \in 1 .. MaxConns :
        /\ conn'[i].in = conn[i].in /\ conn'[i].rst = conn[i].rst
        /\ conn'[i].by["c"] = conn[i].by["c"]
        /\ i # h => conn'[i] = conn[i]
  BY <1>1 DEF Common, Shapes, Shape, Ends
<1>6. conn'[h].by["s"] = {"server"} /\ Shapes'
  BY <1>1, <1>3 DEF Common, Shapes, Shape, Ends
<1>7. /\ pc'["server"] = next /\ fd'["server"].conn = h /\ fd'["server"].end = "s"
      /\ DOMAIN fd' = Procs
      /\ \A c \in Clients : pc'[c] = pc[c] /\ fd'[c] = fd[c]
  BY <1>1, Separate DEF Base, Common
<1>8. \A k \in DOMAIN backlog' : /\ backlog'[k] # h /\ conn[backlog'[k]].by["s"] = {"kernel"}
                                /\ backlog'[k] \in {backlog[j] : j \in DOMAIN backlog}
  <2> TAKE k \in DOMAIN backlog'
  <2>1. 1 \in DOMAIN backlog /\ k + 1 \in DOMAIN backlog /\ k + 1 # 1 /\ backlog'[k] = backlog[k + 1]
    BY <1>3
  <2>2. backlog[k + 1] # backlog[1] /\ conn[backlog[k + 1]].by["s"] = {"kernel"}
    BY <2>1 DEF Common, Waitlist
  <2> QED BY <1>3, <2>1, <2>2
<1>9. \A j, k \in DOMAIN backlog' : j # k => backlog'[j] # backlog'[k]
  <2> SUFFICES ASSUME NEW j \in DOMAIN backlog', NEW k \in DOMAIN backlog', j # k
               PROVE  backlog'[j] # backlog'[k]
    OBVIOUS
  <2>1. j \in Nat /\ k \in Nat /\ j + 1 \in DOMAIN backlog /\ k + 1 \in DOMAIN backlog
    BY <1>3
  <2>2. j + 1 # k + 1
    BY <2>1
  <2>3. backlog[j + 1] # backlog[k + 1]
    BY <2>1, <2>2 DEF Common, Waitlist
  <2> QED BY <1>3, <2>3
<1>10. Waitlist'
  <2>1. \A k \in DOMAIN backlog' : conn'[backlog'[k]].by["s"] = {"kernel"}
    BY <1>3, <1>5, <1>8
  <2> QED BY <1>3, <1>9, <2>1 DEF Waitlist
<1>11. Common'
  BY <1>1, <1>6, <1>7, <1>10 DEF Common
<1>12. Took'
  BY <1>3, <1>6, <1>7 DEF Took
<1> QED BY <1>3, <1>4, <1>5, <1>7, <1>8, <1>11, <1>12

(* A step that changes only the server's own connection.                   *)
LEMMA ServerUses ==
    ASSUME Base, Common, Took, NEW next, NEW l, Goto("server", next),
           UNCHANGED <<fd, backlog, listening>>,
           \/ conn' = [conn EXCEPT ![fd["server"].conn] = l]
           \/ (UNCHANGED conn /\ l = conn[fd["server"].conn]),
           Shape(l)
    PROVE  /\ Common' /\ pc'["server"] = next /\ (l.by["s"] = {"server"} => Took')
           /\ conn'[fd["server"].conn] = l
           /\ \A c \in Clients : pc'[c] = pc[c]
           /\ \A i \in 1 .. MaxConns : i # fd["server"].conn => conn'[i] = conn[i]
           /\ \A k \in DOMAIN backlog : backlog[k] \in 1 .. MaxConns /\ backlog[k] # fd["server"].conn
<1> DEFINE f == fd["server"].conn
<1>1. f \in 1 .. MaxConns /\ conn[f].by["s"] = {"server"} /\ fd["server"].end = "s"
  BY DEF Took
<1>2. conn'[f] = l /\ \A i \in 1 .. MaxConns : i # f => conn'[i] = conn[i]
  BY <1>1 DEF Common, Shapes
<1>3. pc'["server"] = next /\ \A c \in Clients : pc'[c] = pc[c]
  BY Separate DEF Base, Goto
<1>4. \A k \in DOMAIN backlog : backlog[k] \in 1 .. MaxConns /\ backlog[k] # f
  <2> TAKE k \in DOMAIN backlog
  <2>1. \A S : \A s \in Seq(S) : \A j \in DOMAIN s : s[j] \in S
    OBVIOUS
  <2>2. backlog \in Seq(1 .. MaxConns)
    BY DEF Common, Waitlist
  <2>3. backlog[k] \in 1 .. MaxConns
    BY ONLY <2>1, <2>2
  <2>4. conn[backlog[k]].by["s"] = {"kernel"}
    BY DEF Common, Waitlist
  <2> QED BY <1>1, <2>3, <2>4, Separate
<1>5. Waitlist' /\ Shapes'
  BY <1>2, <1>4 DEF Common, Waitlist, Shapes
<1>6. Common'
  BY <1>5 DEF Common
<1>7. l.by["s"] = {"server"} => Took'
  BY <1>1, <1>2 DEF Took
<1> QED BY <1>2, <1>3, <1>4, <1>6, <1>7

-----------------------------------------------------------------------------
(* The servers of Lab06 serve one connection after the other and send once *)
(* on each, after which only a close follows.                              *)
WaitingFresh == \A k \in DOMAIN backlog : Fresh(conn[backlog[k]])

JudgeAt(l) ==
    /\ l # "done"
    /\ l = "accept" \/ Took
    /\ l \in {"accept", "close"} \/ Fresh(conn[fd["server"].conn])

JudgeOK == Common /\ WaitingFresh /\ JudgeAt(pc["server"])
JudgesInv == system \in Judges => JudgeOK

LEMMA GentleJudge ==
    ASSUME JudgeOK, Gentle
    PROVE  JudgeOK'
<1>1. pc'["server"] = pc["server"] /\ fd'["server"] = fd["server"]
  BY DEF Gentle
<1>2. /\ Common' /\ (Took => Took')
      /\ \A k \in DOMAIN backlog' :
           \/ backlog'[k] \in 1 .. MaxConns /\ Enters(backlog'[k])
           \/ k \in DOMAIN backlog /\ backlog'[k] = backlog[k] /\ backlog[k] \in 1 .. MaxConns
  BY GentleCommon DEF JudgeOK
<1>3. \A k \in DOMAIN backlog' : Fresh(conn'[backlog'[k]])
  BY <1>2 DEF Enters, JudgeOK, WaitingFresh, Gentle, Gently
<1>4. Took /\ Fresh(conn[fd["server"].conn]) => Fresh(conn'[fd["server"].conn])
  BY DEF Gentle, Gently, Took
<1>5. JudgeAt(pc["server"])'
  <2>1. JudgeAt(pc["server"])
    BY DEF JudgeOK
  <2> QED BY <1>1, <1>2, <1>4, <2>1 DEF JudgeAt, Fresh
<1>6. WaitingFresh'
  BY <1>3 DEF WaitingFresh, Fresh
<1> QED BY <1>2, <1>5, <1>6 DEF JudgeOK

LEMMA JudgeAccepts ==
    ASSUME Base, JudgeOK, NEW next, next \notin {"accept", "close", "done"},
           Accept("server", "accept", next)
    PROVE  JudgeOK'
<1> DEFINE h == fd'["server"].conn
<1>1. /\ Common' /\ Took' /\ pc'["server"] = next
      /\ h \in {backlog[k] : k \in DOMAIN backlog}
      /\ \A i \in 1 .. MaxConns :
           /\ conn'[i].in = conn[i].in /\ conn'[i].rst = conn[i].rst
           /\ i # h => conn'[i] = conn[i]
      /\ \A k \in DOMAIN backlog' :
           /\ backlog'[k] \in 1 .. MaxConns /\ backlog'[k] # h
           /\ backlog'[k] \in {backlog[j] : j \in DOMAIN backlog}
  BY ServerAccepts DEF JudgeOK
<1>2. \A k \in DOMAIN backlog : Fresh(conn[backlog[k]])
  BY DEF JudgeOK, WaitingFresh
<1>3. \A k \in DOMAIN backlog' : Fresh(conn'[backlog'[k]])
  BY <1>1, <1>2
<1>4. Fresh(conn'[h])
  BY <1>1, <1>2 DEF Fresh, Took
<1> QED BY <1>1, <1>3, <1>4 DEF JudgeOK, JudgeAt, WaitingFresh, Fresh

(* It goes on, and leaves its connection as l.                             *)
LEMMA JudgeGoes ==
    ASSUME Base, JudgeOK, Took, NEW next, NEW l, Goto("server", next),
           UNCHANGED <<fd, backlog, listening>>,
           \/ conn' = [conn EXCEPT ![fd["server"].conn] = l]
           \/ (UNCHANGED conn /\ l = conn[fd["server"].conn]),
           Shape(l),
           next # "done",
           next = "accept" \/ l.by["s"] = {"server"},
           next \in {"accept", "close"} \/ Fresh(l)
    PROVE  JudgeOK'
<1>1. /\ Common' /\ pc'["server"] = next /\ (l.by["s"] = {"server"} => Took')
      /\ conn'[fd["server"].conn] = l
      /\ \A i \in 1 .. MaxConns : i # fd["server"].conn => conn'[i] = conn[i]
      /\ \A k \in DOMAIN backlog : backlog[k] \in 1 .. MaxConns /\ backlog[k] # fd["server"].conn
  BY ServerUses DEF JudgeOK
<1>2. WaitingFresh'
  BY <1>1 DEF JudgeOK, WaitingFresh, Fresh
<1>3. JudgeAt(next)'
  BY <1>1 DEF JudgeAt, Fresh
<1> QED BY <1>1, <1>2, <1>3 DEF JudgeOK

LEMMA JudgeKnows ==
    ASSUME Base, JudgeOK, pc["server"] # "accept"
    PROVE  /\ Took /\ fd["server"].conn \in 1 .. MaxConns /\ fd["server"].end = "s"
           /\ task["server"] = "server"
           /\ conn[fd["server"].conn].by["s"] = {"server"}
           /\ Shape(conn[fd["server"].conn])
           /\ pc["server"] # "close" => Fresh(conn[fd["server"].conn])
<1>1. Took /\ (pc["server"] # "close" => Fresh(conn[fd["server"].conn]))
  BY DEF JudgeOK, JudgeAt
<1>2. Shape(conn[fd["server"].conn])
  BY <1>1 DEF Took, JudgeOK, Common, Shapes
<1> QED BY <1>1, <1>2, Separate DEF Took, Base

(* A read takes what the client sent, or goes on without.                  *)
LEMMA JudgeReads ==
    ASSUME Base, JudgeOK, NEW at, at \notin {"accept", "close"}, NEW next, NEW end,
           {next, end} \cap {"accept", "done"} = {},
           \/ \E n : Recv("server", at, n, next, end)
           \/ \E kept : Field("server", at, kept, next, end)
    PROVE  JudgeOK'
<1> DEFINE f == fd["server"].conn
<1>1. pc["server"] = at
  BY DEF Recv, Receive, Field, At
<1>2. /\ Took /\ f \in 1 .. MaxConns /\ fd["server"].end = "s"
      /\ conn[f].by["s"] = {"server"} /\ Shape(conn[f]) /\ Fresh(conn[f])
  BY <1>1, JudgeKnows
<1>3. PICK to \in {next, end} : Goto("server", to)
  BY DEF Recv, Receive, Field
<1>4. to # "accept" /\ to # "done" /\ UNCHANGED <<fd, backlog, listening>>
  BY <1>3 DEF Recv, Receive, Field
<1>5. PICK v : UNCHANGED conn \/ conn' = [conn EXCEPT ![f].in["s"] = v]
  <2>1. ASSUME NEW n, Recv("server", at, n, next, end)
        PROVE  UNCHANGED conn \/ \E v : conn' = [conn EXCEPT ![f].in["s"] = v]
    <3>1. CASE Read("server", n, FALSE)
      <4>1. PICK k \in 1 .. Len(Arrived("server")) :
              conn' = [conn EXCEPT ![f].in["s"] = SubSeq(@, k + 1, Len(@))]
        BY <1>2, <3>1 DEF Read
      <4> QED BY <4>1
    <3> QED BY <2>1, <3>1 DEF Recv, Receive
  <2>2. ASSUME NEW kept, Field("server", at, kept, next, end)
        PROVE  UNCHANGED conn \/ \E v : conn' = [conn EXCEPT ![f].in["s"] = v]
    <3>1. UNCHANGED conn \/ conn' = [conn EXCEPT ![f].in["s"] = Tail(@)]
      BY <1>2, <2>2 DEF Field
    <3> QED BY <3>1
  <2> QED BY <2>1, <2>2
<1>6. PICK l : /\ conn' = [conn EXCEPT ![f] = l] \/ (UNCHANGED conn /\ l = conn[f])
               /\ Shape(l) /\ l.by["s"] = {"server"} /\ Fresh(l)
  <2>1. CASE UNCHANGED conn
    BY <1>2, <2>1
  <2>2. CASE conn' = [conn EXCEPT ![f].in["s"] = v]
    <3> DEFINE m == [conn[f] EXCEPT !.in["s"] = v]
    <3>1. conn' = [conn EXCEPT ![f] = m]
      BY <2>2
    <3>2. Shape(m) /\ m.by["s"] = {"server"} /\ Fresh(m)
      BY <1>2 DEF Shape, Fresh, Ends
    <3> QED BY <3>1, <3>2
  <2> QED BY <1>5, <2>1, <2>2
<1> QED BY <1>2, <1>3, <1>4, <1>6, JudgeGoes

LEMMA JudgeAssigns ==
    ASSUME Base, JudgeOK, NEW at, at \notin {"accept", "close"}, NEW v, NEW next,
           next \notin {"accept", "done"}, Assign("server", at, v, next)
    PROVE  JudgeOK'
<1> DEFINE f == fd["server"].conn
<1>1. /\ pc["server"] = at /\ Goto("server", next)
      /\ UNCHANGED <<fd, backlog, listening, conn>>
  BY DEF Assign, At, net
<1>2. Took /\ conn[f].by["s"] = {"server"} /\ Shape(conn[f]) /\ Fresh(conn[f])
  BY <1>1, JudgeKnows
<1>3. PICK l : l = conn[f]
  OBVIOUS
<1>4. UNCHANGED conn /\ l = conn[f] /\ Shape(l) /\ l.by["s"] = {"server"} /\ Fresh(l)
  BY <1>1, <1>2, <1>3
<1> QED BY <1>1, <1>2, <1>4, JudgeGoes

(* It never sends on a connection that was reset.                          *)
LEMMA JudgeSends ==
    ASSUME Base, JudgeOK, NEW at, at \notin {"accept", "close"}, NEW m,
           Send("server", at, m, "close")
    PROVE  JudgeOK'
<1> DEFINE f == fd["server"].conn
<1>1. pc["server"] = at
  BY DEF Send, SendOr, At
<1>2. /\ Took /\ f \in 1 .. MaxConns /\ fd["server"].end = "s"
      /\ conn[f].by["s"] = {"server"} /\ Shape(conn[f]) /\ Fresh(conn[f])
  BY <1>1, JudgeKnows
<1>3. ~Reset("server")
  BY <1>2 DEF Reset, Mine, Fresh
<1>4. /\ Goto("server", "close") /\ UNCHANGED <<fd, backlog, listening>>
      /\ \/ UNCHANGED conn
         \/ conn' = [conn EXCEPT ![f].rst = @ \cup {"s"}]
         \/ conn' = [conn EXCEPT ![f].in["c"] = @ \o m]
  BY <1>2, <1>3, BothEnds DEF Send, SendOr, locals, net
<1>5. PICK l : /\ conn' = [conn EXCEPT ![f] = l] \/ (UNCHANGED conn /\ l = conn[f])
               /\ Shape(l) /\ l.by["s"] = {"server"}
  <2>1. CASE UNCHANGED conn
    BY <1>2, <2>1
  <2>2. CASE conn' = [conn EXCEPT ![f].rst = @ \cup {"s"}]
    <3> DEFINE k == [conn[f] EXCEPT !.rst = @ \cup {"s"}]
    <3>1. conn' = [conn EXCEPT ![f] = k]
      BY <2>2
    <3>2. Shape(k) /\ k.by["s"] = {"server"}
      BY <1>2 DEF Shape
    <3> QED BY <3>1, <3>2
  <2>3. CASE conn' = [conn EXCEPT ![f].in["c"] = @ \o m]
    <3>1. PICK v : conn' = [conn EXCEPT ![f].in["c"] = v]
      BY <2>3
    <3> DEFINE k == [conn[f] EXCEPT !.in["c"] = v]
    <3>2. conn' = [conn EXCEPT ![f] = k]
      BY <3>1
    <3>3. Shape(k) /\ k.by["s"] = {"server"}
      BY <1>2 DEF Shape, Ends
    <3> QED BY <3>2, <3>3
  <2> QED BY <1>4, <2>1, <2>2, <2>3
<1>6. PICK next : next = "close"
  OBVIOUS
<1>7. Goto("server", next) /\ next # "done" /\ next \in {"accept", "close"}
  BY <1>4, <1>6
<1> QED BY <1>2, <1>4, <1>5, <1>7, JudgeGoes

LEMMA JudgeCloses ==
    ASSUME Base, JudgeOK, Close("server", "close", "accept")
    PROVE  JudgeOK'
<1> DEFINE f == fd["server"].conn
<1>1. pc["server"] = "close"
  BY DEF Close, At
<1>2. /\ Took /\ f \in 1 .. MaxConns /\ fd["server"].end = "s" /\ task["server"] = "server"
      /\ Shape(conn[f])
  BY <1>1, JudgeKnows
<1>3. PICK l : l = Drop(conn[f], "s", {"server"})
  OBVIOUS
<1>4. /\ Goto("server", "accept") /\ UNCHANGED <<fd, backlog, listening>>
      /\ conn' = [conn EXCEPT ![f] = l]
  <2>1. f # 0
    BY <1>2
  <2> QED BY <1>2, <1>3, <2>1 DEF Close, locals
<1>5. Shape(l)
  BY <1>2, <1>3, BothEnds, DropShape
<1>6. PICK next : next = "accept"
  OBVIOUS
<1>7. Goto("server", next) /\ next # "done" /\ next \in {"accept", "close"} /\ next = "accept"
  BY <1>4, <1>6
<1> QED BY <1>2, <1>4, <1>5, <1>7, JudgeGoes

LEMMA JudgesStep ==
    ASSUME Base, JudgesInv, UNCHANGED system, [Next]_vars
    PROVE  JudgesInv'
<1> SUFFICES ASSUME system \in Judges PROVE JudgeOK'
  BY DEF JudgesInv
<1>1. JudgeOK /\ Common
  BY DEF JudgesInv, JudgeOK
<1>2. ASSUME Server("server") PROVE JudgeOK'
  <2>1. CASE ParityServer("server")
    <3>1. /\ "parity_choice" \notin {"accept", "close", "done"}
          /\ {"frame", "close"} \cap {"accept", "done"} = {}
          /\ {"verify", "close"} \cap {"accept", "done"} = {}
          /\ "frame" \notin {"accept", "close"} /\ "verify" \notin {"accept", "close"}
      OBVIOUS
    <3>2. CASE Accept("server", "accept", "parity_choice")
      BY <1>1, <3>1, <3>2, JudgeAccepts
    <3>3. CASE Field("server", "parity_choice", <<>>, "frame", "close")
      BY <1>1, <3>1, <3>3, JudgeReads
    <3>4. CASE Field("server", "frame", var["server"], "verify", "close")
      BY <1>1, <3>1, <3>4, JudgeReads
    <3>5. CASE Send("server", "verify", <<ParityVerdict(var["server"])>>, "close")
      BY <1>1, <3>1, <3>5, JudgeSends
    <3>6. CASE Close("server", "close", "accept")
      BY <1>1, <3>6, JudgeCloses
    <3> QED BY <2>1, <3>2, <3>3, <3>4, <3>5, <3>6 DEF ParityServer
  <2>2. CASE CrcServer("server")
    <3>1. /\ "generator" \notin {"accept", "close", "done"}
          /\ {"keep", "close"} \cap {"accept", "done"} = {}
          /\ {"verify", "unframed"} \cap {"accept", "done"} = {}
          /\ "keep" \notin {"accept", "close"} /\ "frame" \notin {"accept", "close"}
          /\ "frame" \notin {"accept", "done"}
          /\ "verify" \notin {"accept", "close"} /\ "unframed" \notin {"accept", "close"}
      OBVIOUS
    <3>2. CASE Accept("server", "accept", "generator")
      BY <1>1, <3>1, <3>2, JudgeAccepts
    <3>3. CASE Recv("server", "generator", 2, "keep", "close")
      BY <1>1, <3>1, <3>3, JudgeReads
    <3>4. CASE Assign("server", "keep", buf["server"], "frame")
      BY <1>1, <3>1, <3>4, JudgeAssigns
    <3>5. CASE Recv("server", "frame", 1, "verify", "unframed")
      BY <1>1, <3>1, <3>5, JudgeReads
    <3>6. CASE Send("server", "verify", <<CrcVerdict(var["server"] \o buf["server"])>>, "close")
      BY <1>1, <3>1, <3>6, JudgeSends
    <3>7. ASSUME NEW v, Send("server", "unframed", <<v>>, "close") PROVE JudgeOK'
      BY <1>1, <3>1, <3>7, JudgeSends
    <3>8. CASE Close("server", "close", "accept")
      BY <1>1, <3>8, JudgeCloses
    <3> QED BY <2>2, <3>2, <3>3, <3>4, <3>5, <3>6, <3>7, <3>8 DEF CrcServer
  <2>3. CASE HammingServer("server")
    <3>1. /\ "total_len" \notin {"accept", "close", "done"}
          /\ {"code", "close"} \cap {"accept", "done"} = {}
          /\ {"verify", "close"} \cap {"accept", "done"} = {}
          /\ "code" \notin {"accept", "close"} /\ "verify" \notin {"accept", "close"}
      OBVIOUS
    <3>2. CASE Accept("server", "accept", "total_len")
      BY <1>1, <3>1, <3>2, JudgeAccepts
    <3>3. CASE Field("server", "total_len", <<>>, "code", "close")
      BY <1>1, <3>1, <3>3, JudgeReads
    <3>4. CASE Field("server", "code", var["server"], "verify", "close")
      BY <1>1, <3>1, <3>4, JudgeReads
    <3>5. CASE Send("server", "verify", <<HammingVerdict(var["server"])>>, "close")
      BY <1>1, <3>1, <3>5, JudgeSends
    <3>6. CASE Close("server", "close", "accept")
      BY <1>1, <3>6, JudgeCloses
    <3> QED BY <2>3, <3>2, <3>3, <3>4, <3>5, <3>6 DEF HammingServer
  <2> QED BY <1>2, <2>1, <2>2, <2>3 DEF Server, Judges
<1>3. ASSUME NEW c \in Clients, Client(c) PROVE JudgeOK'
  <2>1. ASSUME NEW frames, NEW one, FrameClient(c, frames, one) PROVE Gentle
    <3>1. ASSUME Connect(c, "connect", "type", "done") PROVE Gentle
      BY <1>1, <3>1, ConnectGentle
    <3>2. ASSUME Type(c, "type", Inputs(c, frames, one), "send") PROVE Gentle
      BY <1>1, <3>2, TypeGentle
    <3>3. ASSUME SendFields(c, "send", "verdict") PROVE Gentle
      BY <1>1, <3>3, ClientCallsGentle
    <3>4. ASSUME RecvPrint(c, "verdict", 1, "close", "close") PROVE Gentle
      BY <1>1, <3>4, ReceiveGentle
    <3>5. ASSUME Exit(c, "close") PROVE Gentle
      BY <1>1, <3>5, ClientCallsGentle
    <3> QED BY <2>1, <3>1, <3>2, <3>3, <3>4, <3>5 DEF FrameClient
  <2>2. ASSUME ParityClient(c) PROVE Gentle
    <3>1. ASSUME Connect(c, "connect", "choose", "done") PROVE Gentle
      BY <1>1, <3>1, ConnectGentle
    <3>2. ASSUME NEW at, NEW inputs, NEW next, Type(c, at, inputs, next) PROVE Gentle
      BY <1>1, <3>2, TypeGentle
    <3>3. ASSUME NEW at, NEW next, Send(c, at, <<var[c]>>, next) PROVE Gentle
      BY <1>1, <3>3, ClientCallsGentle
    <3>4. ASSUME RecvPrint(c, "verdict", 1, "close", "close") PROVE Gentle
      BY <1>1, <3>4, ReceiveGentle
    <3>5. ASSUME Exit(c, "close") PROVE Gentle
      BY <1>1, <3>5, ClientCallsGentle
    <3> QED BY <2>2, <3>1, <3>2, <3>3, <3>4, <3>5 DEF ParityClient
  <2>3. ParityClient(c) \/ CrcClient(c) \/ HammingClient(c)
    BY <1>3 DEF Client, Judges
  <2> QED BY <1>1, <2>1, <2>2, <2>3, GentleJudge DEF CrcClient, HammingClient
<1>4. ASSUME NEW c \in Varied, Quit(c) PROVE JudgeOK'
  <2>1. c \in Clients /\ task[c] = c
    BY VariedAssumption, Separate DEF Base
  <2> QED BY <1>1, <1>4, <2>1, KillGentle, GentleJudge DEF Quit
<1>5. ASSUME UNCHANGED vars PROVE JudgeOK'
  <2>1. UNCHANGED <<pc, fd, conn, backlog, listening>>
    BY <1>5 DEF vars, locals, net
  <2>2. Common' /\ WaitingFresh' /\ (Took => Took')
    BY <1>1, <2>1 DEF Common, Shapes, Waitlist, JudgeOK, WaitingFresh, Took
  <2> QED BY <1>1, <2>1, <2>2 DEF JudgeOK, JudgeAt
<1> QED BY <1>2, <1>3, <1>4, <1>5 DEF Next, Programs, Leave, Judges

-----------------------------------------------------------------------------
(* The calculator answers each structure a client sends.  Server and client *)
(* take turns on a connection: while a request waits or is answered,        *)
(* nothing the server sent is unread, so no client that leaves resets it.   *)
Single(s) == \E a : s = <<a>>
One(s) == s = <<>> \/ Single(s)

Answering(i) == pc["server"] \in {"handle", "send"} /\ fd["server"].conn = i

Link(k, answering) ==
    /\ k.by["s"] = {} \/ k.by["s"] \in Keepers
    /\ k.by["s"] \in Keepers =>
        /\ One(k.in["s"]) /\ One(k.in["c"])
        /\ k.in["s"] # <<>> \/ answering => Fresh(k)
        /\ k.in["s"] = <<>> \/ ~answering
        /\ k.by["c"] # {} => "s" \notin k.rst
        /\ "c" \notin k.rst

Links == \A i \in 1 .. MaxConns : Link(conn[i], Answering(i))

Quiet(i) == conn[i].in["s"] = <<>> /\ ~Answering(i) /\ conn[i].in["c"] = <<>>

Calm(i) == conn[i].by["s"] = {} \/ Quiet(i)

ClientTalks(c) ==
    /\ pc[c] \in {"connect", "menu", "send", "read", "show", "close", "done"}
    /\ pc[c] \in {"menu", "send", "read", "show"} =>
          fd[c].conn \in 1 .. MaxConns /\ conn[fd[c].conn].by["c"] = {c}
    /\ pc[c] \in {"menu", "send", "show"} => Calm(fd[c].conn)

ServerTalks ==
    /\ pc["server"] \in {"accept", "read", "handle", "send", "close"}
    /\ pc["server"] # "accept" => Took

CalcOK ==
    /\ Common /\ ServerTalks /\ Links
    /\ \A c \in Clients : ClientTalks(c)

CalcInv == system = "calculator" => Stopped \/ CalcOK

(* A client's step: what is left to say when it is gentle.                 *)
LEMMA ClientTakesStep ==
    ASSUME CalcOK, Gentle,
           \A i \in 1 .. MaxConns : Link(conn'[i], Answering(i)),
           \A c \in Clients : ClientTalks(c)'
    PROVE  CalcOK'
<1>1. pc'["server"] = pc["server"] /\ fd'["server"] = fd["server"]
  BY DEF Gentle
<1>2. Common' /\ (Took => Took')
  BY GentleCommon DEF CalcOK
<1>3. \A i : Answering(i)' <=> Answering(i)
  BY <1>1 DEF Answering
<1>4. Links'
  BY <1>3 DEF Links, Link, Fresh
<1>5. ServerTalks'
  BY <1>1, <1>2 DEF CalcOK, ServerTalks
<1> QED BY <1>2, <1>4, <1>5 DEF CalcOK

(* It touches only the connection it has to itself.                        *)
LEMMA ClientUses ==
    ASSUME NEW c \in Clients, NEW next, NEW l, Base, CalcOK, Gentle,
           pc[c] \in {"menu", "send", "read", "show"},
           Goto(c, next), UNCHANGED fd,
           \A i \in 1 .. MaxConns : conn'[i] = IF i = fd[c].conn THEN l ELSE conn[i],
           l.by["c"] = {c},
           Link(l, Answering(fd[c].conn)),
           next \in {"menu", "send", "read", "show", "close"},
           next \in {"menu", "send", "show"} =>
               \/ l.by["s"] = {}
               \/ l.in["s"] = <<>> /\ ~Answering(fd[c].conn) /\ l.in["c"] = <<>>
    PROVE  CalcOK'
<1> DEFINE f == fd[c].conn
<1>1. f \in 1 .. MaxConns /\ conn[f].by["c"] = {c}
  BY DEF CalcOK, ClientTalks
<1>2. conn'[f] = l
  BY <1>1
<1>3. /\ pc'["server"] = pc["server"] /\ pc'[c] = next
      /\ \A d \in Clients \ {c} : pc'[d] = pc[d]
  BY Separate DEF Base, Goto
<1>4. \A i : Answering(i)' <=> Answering(i)
  BY <1>3 DEF Answering
<1>5. ASSUME NEW i \in 1 .. MaxConns PROVE Link(conn'[i], Answering(i))
  <2>1. CASE i = f
    BY <1>2, <2>1
  <2>2. CASE i # f
    <3>1. conn'[i] = conn[i]
      BY <2>2
    <3>2. Link(conn[i], Answering(i))
      BY DEF CalcOK, Links
    <3> QED BY <3>1, <3>2
  <2> QED BY <2>1, <2>2
<1>6. ClientTalks(c)'
  BY <1>1, <1>2, <1>3, <1>4 DEF ClientTalks, Calm, Quiet
<1>7. ASSUME NEW d \in Clients \ {c} PROVE ClientTalks(d)'
  <2>1. ClientTalks(d)
    BY DEF CalcOK
  <2>2. pc'[d] = pc[d] /\ fd'[d] = fd[d]
    BY <1>3
  <2>3. pc[d] \in {"menu", "send", "read", "show"} =>
          fd[d].conn \in 1 .. MaxConns /\ conn'[fd[d].conn] = conn[fd[d].conn]
    <3> SUFFICES ASSUME pc[d] \in {"menu", "send", "read", "show"}
                 PROVE  fd[d].conn \in 1 .. MaxConns /\ conn'[fd[d].conn] = conn[fd[d].conn]
      OBVIOUS
    <3>1. fd[d].conn \in 1 .. MaxConns /\ conn[fd[d].conn].by["c"] = {d}
      BY <2>1 DEF ClientTalks
    <3>2. fd[d].conn # f
      BY <1>1, <3>1
    <3> QED BY <3>1, <3>2
  <2> QED BY <1>4, <2>1, <2>2, <2>3 DEF ClientTalks, Calm, Quiet
<1> QED BY <1>5, <1>6, <1>7, ClientTakesStep

LEMMA ClientMoves ==
    ASSUME Base, CalcOK, NEW c \in Clients,
           \/ \E inputs : Type(c, "menu", inputs, "send")
           \/ \E what : Show(c, "show", what, "menu")
    PROVE  CalcOK'
<1> DEFINE f == fd[c].conn
<1>1. PICK next \in {"menu", "send"} : Goto(c, next)
  BY DEF Type, Show
<1>2. pc[c] \in {"menu", "send", "show"} /\ UNCHANGED <<fd, conn>>
  BY DEF Type, Show, At, locals, net
<1>3. f \in 1 .. MaxConns /\ conn[f].by["c"] = {c} /\ Calm(f)
  BY <1>2 DEF CalcOK, ClientTalks
<1>4. PICK l : l = conn[f]
  OBVIOUS
<1>5. Link(l, Answering(f))
  BY <1>3, <1>4 DEF CalcOK, Links
<1>6. \A i \in 1 .. MaxConns : conn'[i] = IF i = f THEN l ELSE conn[i]
  BY <1>2, <1>4
<1>7. /\ pc[c] \in {"menu", "send", "read", "show"}
      /\ next \in {"menu", "send", "read", "show", "close"}
      /\ l.by["c"] = {c}
      /\ next \in {"menu", "send", "show"} =>
           \/ l.by["s"] = {}
           \/ l.in["s"] = <<>> /\ ~Answering(f) /\ l.in["c"] = <<>>
  BY <1>2, <1>3, <1>4 DEF Calm, Quiet
<1>8. Gentle
  BY TypeGentle DEF CalcOK
<1> QED BY <1>1, <1>2, <1>5, <1>6, <1>7, <1>8, ClientUses

LEMMA ClientConnects ==
    ASSUME Base, CalcOK, NEW c \in Clients, Connect(c, "connect", "menu", "done")
    PROVE  CalcOK'
<1>1. PICK i \in 1 .. MaxConns :
        /\ conn[i] = NoConn
        /\ conn' = [conn EXCEPT ![i].by = [c |-> {task[c]}, s |-> {"kernel"}]]
        /\ fd' = [fd EXCEPT ![c] = [conn |-> i, end |-> "c"]]
        /\ pc' = [pc EXCEPT ![c] = "menu"]
  BY DEF Connect, Goto, CalcOK, Common
<1> DEFINE l == [NoConn EXCEPT !.by = [c |-> {task[c]}, s |-> {"kernel"}]]
<1>2. task[c] = c
  BY Separate DEF Base
<1>3. /\ l.in["s"] = <<>> /\ l.in["c"] = <<>> /\ l.rst = {} /\ l.by["s"] = {"kernel"}
      /\ l.by["c"] = {c}
      /\ NoConn.by["s"] = {} /\ NoConn.by["c"] = {}
  BY <1>2 DEF NoConn, Ends
<1>4. conn'[i] = l /\ \A j \in 1 .. MaxConns : j # i => conn'[j] = conn[j]
  BY <1>1 DEF CalcOK, Common, Shapes
<1>5. /\ pc'["server"] = pc["server"] /\ fd'["server"] = fd["server"]
      /\ pc'[c] = "menu" /\ fd'[c].conn = i
      /\ \A d \in Clients \ {c} : pc'[d] = pc[d] /\ fd'[d] = fd[d]
  BY <1>1, Separate DEF Base, CalcOK, Common
<1>6. \A j : Answering(j)' <=> Answering(j)
  BY <1>5 DEF Answering
<1>7. ~Answering(i)
  <2> SUFFICES ASSUME pc["server"] \in {"handle", "send"}, fd["server"].conn = i PROVE FALSE
    BY DEF Answering
  <2>1. conn[i].by["s"] = {"server"}
    BY DEF CalcOK, ServerTalks, Took
  <2> QED BY <1>1, <1>3, <2>1
<1>8. Link(l, Answering(i))
  BY <1>3, <1>7 DEF Link, One, Keepers
<1>9. ASSUME NEW j \in 1 .. MaxConns PROVE Link(conn'[j], Answering(j))
  <2>1. CASE j = i
    BY <1>4, <1>8, <2>1
  <2>2. CASE j # i
    <3>1. conn'[j] = conn[j]
      BY <1>4, <2>2
    <3>2. Link(conn[j], Answering(j))
      BY DEF CalcOK, Links
    <3> QED BY <3>1, <3>2
  <2> QED BY <2>1, <2>2
<1>10. ClientTalks(c)'
  <2>1. Calm(i)'
    BY <1>3, <1>4, <1>6, <1>7 DEF Calm, Quiet
  <2> QED BY <1>3, <1>4, <1>5, <2>1 DEF ClientTalks, Calm, Quiet, Answering
<1>11. ASSUME NEW d \in Clients \ {c} PROVE ClientTalks(d)'
  <2>1. ClientTalks(d)
    BY DEF CalcOK
  <2>2. pc[d] \in {"menu", "send", "read", "show"} =>
          fd[d].conn \in 1 .. MaxConns /\ conn'[fd[d].conn] = conn[fd[d].conn]
    <3> SUFFICES ASSUME pc[d] \in {"menu", "send", "read", "show"}
                 PROVE  fd[d].conn \in 1 .. MaxConns /\ conn'[fd[d].conn] = conn[fd[d].conn]
      OBVIOUS
    <3>1. fd[d].conn \in 1 .. MaxConns /\ conn[fd[d].conn].by["c"] = {d}
      BY <2>1 DEF ClientTalks
    <3>2. fd[d].conn # i
      BY <1>1, <1>3, <3>1
    <3> QED BY <1>4, <3>1, <3>2
  <2> QED BY <1>5, <1>6, <2>1, <2>2 DEF ClientTalks, Calm, Quiet
<1>12. Gentle
  BY ConnectGentle DEF CalcOK
<1> QED BY <1>9, <1>10, <1>11, <1>12, ClientTakesStep

(* A client that ends leaves a request or the answer behind, never both.   *)
LEMMA ClientEnds ==
    ASSUME Base, CalcOK, NEW c \in Clients, Kill({task[c]})
    PROVE  CalcOK'
<1>1. task[c] = c /\ task["server"] = "server" /\ c # "server" /\ c \in Procs
      /\ \A d \in Clients : task[d] = d
  BY Separate DEF Base
<1>2. Gentle
  BY KillGentle DEF CalcOK
<1>3. ~(listening \subseteq {c})
  BY <1>1 DEF CalcOK, Common
<1>4. \A i \in 1 .. MaxConns : conn'[i] = Drop(Drop(conn[i], "c", {c}), "s", {c})
  BY <1>1, <1>3 DEF Kill, Closed, CalcOK, Common, Shapes
<1>5. ASSUME NEW i \in 1 .. MaxConns
      PROVE  /\ conn'[i].in = conn[i].in
             /\ conn'[i].by["c"] = conn[i].by["c"] \ {c}
             /\ conn'[i].by["s"] = conn[i].by["s"] \ {c}
             /\ "s" \in conn'[i].rst => \/ "s" \in conn[i].rst
                                        \/ conn[i].by["c"] \subseteq {c} /\ conn[i].in["c"] # <<>>
             /\ "c" \in conn'[i].rst => \/ "c" \in conn[i].rst
                                        \/ conn[i].by["s"] # {} /\ conn[i].by["s"] \subseteq {c}
  <2>1. Shape(conn[i])
    BY DEF CalcOK, Common, Shapes
  <2> QED BY <1>4, <2>1, LeaveEnd
<1>6. /\ pc'["server"] = pc["server"] /\ fd'["server"] = fd["server"]
      /\ pc'[c] \in {"none", "done"}
      /\ \A d \in Clients \ {c} : pc'[d] = pc[d] /\ fd'[d] = fd[d]
  BY <1>1, Separate DEF Kill, Ended
<1>7. \A j : Answering(j)' <=> Answering(j)
  BY <1>6 DEF Answering
<1>8. ASSUME NEW i \in 1 .. MaxConns PROVE Link(conn'[i], Answering(i))
  <2>1. Link(conn[i], Answering(i))
    BY DEF CalcOK, Links
  <2>2. CASE conn[i].by["s"] = {}
    <3>1. conn'[i].by["s"] = {}
      BY <1>5, <2>2
    <3> QED BY <3>1 DEF Link, Keepers
  <2>3. CASE conn[i].by["s"] \in Keepers
    <3>1. conn'[i].by["s"] = conn[i].by["s"] /\ ~(conn[i].by["s"] \subseteq {c})
      <4>1. \A S : S \in Keepers => S \ {c} = S /\ ~(S \subseteq {c})
        BY <1>1, Separate DEF Keepers
      <4> QED BY <1>5, <2>3, <4>1
    <3>2. conn'[i].by["c"] # {} => "s" \notin conn'[i].rst
      BY <1>5, <2>1, <2>3 DEF Link
    <3>3. "c" \notin conn'[i].rst
      BY <1>5, <2>1, <2>3, <3>1 DEF Link
    <3>4. conn[i].in["s"] # <<>> \/ Answering(i) => Fresh(conn'[i])
      BY <1>2, <2>1, <2>3 DEF Gentle, Gently, Link
    <3>5. One(conn'[i].in["s"]) /\ One(conn'[i].in["c"]) /\ (conn'[i].in["s"] = <<>> \/ ~Answering(i))
      BY <1>5, <2>1, <2>3 DEF Link
    <3> QED BY <1>5, <2>3, <3>1, <3>2, <3>3, <3>4, <3>5 DEF Link
  <2> QED BY <2>1, <2>2, <2>3 DEF Link
<1>9. ClientTalks(c)'
  <2>1. pc'[c] = "done"
    <3>1. pc[c] # "none"
      BY DEF CalcOK, ClientTalks
    <3> QED BY <1>1, <3>1 DEF Kill, Ended
  <2> QED BY <2>1 DEF ClientTalks
<1>10. ASSUME NEW d \in Clients \ {c} PROVE ClientTalks(d)'
  <2>1. ClientTalks(d)
    BY DEF CalcOK
  <2>2. pc[d] \in {"menu", "send", "read", "show"} =>
          /\ fd[d].conn \in 1 .. MaxConns
          /\ conn'[fd[d].conn].by["c"] = {d} /\ conn'[fd[d].conn].in = conn[fd[d].conn].in
          /\ conn[fd[d].conn].by["s"] = {} => conn'[fd[d].conn].by["s"] = {}
    BY <1>5, <2>1 DEF ClientTalks
  <2> QED BY <1>6, <1>7, <2>1, <2>2 DEF ClientTalks, Calm, Quiet
<1> QED BY <1>2, <1>8, <1>9, <1>10, ClientTakesStep

(* The conversation of a client, call by call.                             *)
LEMMA OneRead ==
    ASSUME NEW s, One(s), s # <<>>, NEW k \in 1 .. Len(s)
    PROVE  SubSeq(s, k + 1, Len(s)) = <<>>
<1>1. PICK a : s = <<a>>
  BY DEF One, Single
<1>2. Len(s) = 1 /\ k = 1
  BY <1>1
<1>3. SubSeq(s, 2, 1) = <<>>
  BY <1>1
<1> QED BY <1>2, <1>3

LEMMA OneSent == ASSUME NEW m, Single(m) PROVE <<>> \o m = m /\ m # <<>> /\ One(m)
<1>1. PICK a : m = <<a>>
  BY DEF Single
<1>2. \A S : \A s \in Seq(S) : <<>> \o s = s
  OBVIOUS
<1>3. <<a>> \in Seq({a})
  OBVIOUS
<1>4. <<>> \o <<a>> = <<a>>
  BY ONLY <1>2, <1>3
<1>5. <<a>> # <<>>
  OBVIOUS
<1> QED BY <1>1, <1>4, <1>5 DEF One

LEMMA ClientSends ==
    ASSUME Base, CalcOK, NEW c \in Clients, NEW m, Single(m), NEW next \in {"close", "read"},
           Send(c, "send", m, next)
    PROVE  CalcOK'
<1> DEFINE f == fd[c].conn
           k == conn[f]
<1>1. pc[c] = "send"
  BY DEF Send, SendOr, At
<1>2. /\ f \in 1 .. MaxConns /\ k.by["c"] = {c} /\ Calm(f)
      /\ task[c] = c /\ fd[c].end = "c"
  BY <1>1, Separate DEF CalcOK, ClientTalks, Common, Base
<1>3. Link(k, Answering(f)) /\ Shape(k)
  BY <1>2 DEF CalcOK, Links, Common, Shapes
<1>4. m # <<>> /\ <<>> \o m = m /\ One(m)
  BY OneSent
<1>5. Open(c) /\ (PeerClosed(c) <=> k.by["s"] = {})
  BY <1>2, BothEnds DEF Open, PeerClosed, Mine
<1>6. \/ Kill({task[c]})
      \/ /\ Goto(c, next) /\ UNCHANGED fd
         /\ \/ k.by["s"] = {} /\ conn' = [conn EXCEPT ![f].rst = @ \cup {"c"}]
            \/ k.by["s"] # {} /\ conn' = [conn EXCEPT ![f].in["s"] = @ \o m]
  BY <1>2, <1>4, <1>5, BothEnds DEF Send, SendOr, locals
<1>7. CASE Goto(c, next) /\ UNCHANGED fd
  <2>1. Gentle
    <3>1. (\E n : Send(c, "send", n, next)) \/ SendFields(c, "send", next) \/ Exit(c, "send")
      OBVIOUS
    <3> QED BY <3>1, ClientCallsGentle DEF CalcOK
  <2>2. PICK l : /\ \A i \in 1 .. MaxConns : conn'[i] = IF i = f THEN l ELSE conn[i]
                 /\ l.by["c"] = {c} /\ Link(l, Answering(f))
    <3>1. CASE Kill({task[c]})
      <4>1. \A i \in 1 .. MaxConns : conn'[i] = conn[i]
        <5>1. pc'[c] = "done" /\ pc'[c] = next
          BY <1>1, <1>2, <1>7, <3>1, Separate DEF Kill, Ended, Goto, Base
        <5> QED BY <5>1
      <4> QED BY <1>2, <1>3, <4>1
    <3>2. CASE k.by["s"] = {} /\ conn' = [conn EXCEPT ![f].rst = @ \cup {"c"}]
      <4> DEFINE l == [k EXCEPT !.rst = @ \cup {"c"}]
      <4>1. \A i \in 1 .. MaxConns : conn'[i] = IF i = f THEN l ELSE conn[i]
        BY <3>2 DEF CalcOK, Common, Shapes
      <4>2. l.by = k.by
        BY <1>3 DEF Shape
      <4>3. l.by["c"] = {c} /\ Link(l, Answering(f))
        BY <1>2, <3>2, <4>2 DEF Link, Keepers
      <4> HIDE DEF l
      <4> QED BY <4>1, <4>3
    <3>3. CASE k.by["s"] # {} /\ conn' = [conn EXCEPT ![f].in["s"] = @ \o m]
      <4> DEFINE l == [k EXCEPT !.in["s"] = @ \o m]
      <4>1. \A i \in 1 .. MaxConns : conn'[i] = IF i = f THEN l ELSE conn[i]
        BY <3>3 DEF CalcOK, Common, Shapes
      <4>2. /\ l.by = k.by /\ l.rst = k.rst
            /\ l.in["s"] = k.in["s"] \o m /\ l.in["c"] = k.in["c"]
        BY <1>3 DEF Shape, Ends
      <4>3. k.in["s"] = <<>> /\ ~Answering(f) /\ k.in["c"] = <<>>
        BY <1>2, <3>3 DEF Calm, Quiet
      <4>4. l.in["s"] = m /\ l.in["c"] = <<>>
        BY <1>4, <4>2, <4>3
      <4>5. l.by["c"] = {c} /\ Link(l, Answering(f))
        BY <1>2, <1>3, <1>4, <3>3, <4>2, <4>3, <4>4 DEF Link, Fresh, One
      <4> HIDE DEF l
      <4> QED BY <4>1, <4>5
    <3> QED BY <1>6, <3>1, <3>2, <3>3
  <2>3. /\ pc[c] \in {"menu", "send", "read", "show"}
        /\ next \in {"menu", "send", "read", "show", "close"}
        /\ next \notin {"menu", "send", "show"}
    BY <1>1
  <2> QED BY <1>7, <2>1, <2>2, <2>3, ClientUses
<1> QED BY <1>6, <1>7, ClientEnds

LEMMA ClientReceives ==
    ASSUME Base, CalcOK, NEW c \in Clients, Recv(c, "read", 1, "show", "show")
    PROVE  CalcOK'
<1> DEFINE f == fd[c].conn
           k == conn[f]
<1>1. pc[c] = "read"
  BY DEF Recv, Receive, At
<1>2. /\ f \in 1 .. MaxConns /\ k.by["c"] = {c}
      /\ task[c] = c /\ fd[c].end = "c"
  BY <1>1, Separate DEF CalcOK, ClientTalks, Common, Base
<1>3. Link(k, Answering(f)) /\ Shape(k)
  BY <1>2 DEF CalcOK, Links, Common, Shapes
<1>4. /\ Open(c) /\ (PeerClosed(c) <=> k.by["s"] = {}) /\ (Reset(c) <=> "c" \in k.rst)
      /\ Arrived(c) = k.in["c"]
  BY <1>2, BothEnds DEF Open, PeerClosed, Reset, Arrived, Mine
<1>5. Gentle
  BY ReceiveGentle DEF CalcOK
<1>6. Goto(c, "show") /\ UNCHANGED fd
  BY DEF Recv, Receive
<1>7. PICK l : /\ \A i \in 1 .. MaxConns : conn'[i] = IF i = f THEN l ELSE conn[i]
               /\ l.by["c"] = {c} /\ Link(l, Answering(f))
               /\ \/ l.by["s"] = {}
                  \/ l.in["s"] = <<>> /\ ~Answering(f) /\ l.in["c"] = <<>>
  <2>1. CASE Read(c, 1, FALSE)
    <3>1. PICK n \in 1 .. Len(k.in["c"]) :
            conn' = [conn EXCEPT ![f].in["c"] = SubSeq(@, n + 1, Len(@))]
      BY <1>2, <1>4, <2>1 DEF Read
    <3>2. k.in["c"] # <<>>
      <4>1. Len(<<>>) = 0
        OBVIOUS
      <4>2. 1 .. 0 = {}
        OBVIOUS
      <4> QED BY <3>1, <4>1, <4>2
    <3> DEFINE l == [k EXCEPT !.in["c"] = SubSeq(@, n + 1, Len(@))]
    <3>3. \A i \in 1 .. MaxConns : conn'[i] = IF i = f THEN l ELSE conn[i]
      BY <3>1 DEF CalcOK, Common, Shapes
    <3>4. /\ l.by = k.by /\ l.rst = k.rst
          /\ l.in["c"] = SubSeq(k.in["c"], n + 1, Len(k.in["c"])) /\ l.in["s"] = k.in["s"]
      BY <1>3 DEF Shape, Ends
    <3>5. CASE k.by["s"] = {}
      <4>1. l.by["s"] = {} /\ l.by["c"] = {c} /\ Link(l, Answering(f))
        BY <1>2, <3>4, <3>5 DEF Link, Keepers
      <4> HIDE DEF l
      <4> QED BY <3>3, <4>1
    <3>6. CASE k.by["s"] \in Keepers
      <4>1. SubSeq(k.in["c"], n + 1, Len(k.in["c"])) = <<>>
        BY <1>3, <3>1, <3>2, <3>6, OneRead DEF Link
      <4>2. k.in["s"] = <<>> /\ ~Answering(f)
        BY <1>3, <3>2, <3>6 DEF Link, Fresh
      <4>3. l.by["c"] = {c} /\ Link(l, Answering(f)) /\ l.in["s"] = <<>> /\ l.in["c"] = <<>>
        BY <1>2, <1>3, <3>4, <3>6, <4>1, <4>2 DEF Link, Fresh, One
      <4> HIDE DEF l
      <4> QED BY <3>3, <4>2, <4>3
    <3> QED BY <1>3, <3>5, <3>6 DEF Link
  <2>2. CASE UNCHANGED conn /\ (PeerClosed(c) \/ Reset(c))
    <3>1. k.by["s"] = {}
      BY <1>3, <1>4, <2>2 DEF Link
    <3> QED BY <1>2, <1>3, <2>2, <3>1
  <2> QED BY <1>4, <2>1, <2>2 DEF Recv, Receive
<1>8. PICK next : next = "show"
  OBVIOUS
<1>9. /\ pc[c] \in {"menu", "send", "read", "show"} /\ Goto(c, next)
      /\ next \in {"menu", "send", "read", "show", "close"}
  BY <1>1, <1>6, <1>8
<1> QED BY <1>5, <1>6, <1>7, <1>9, ClientUses

LEMMA CalcClientOK ==
    ASSUME Base, CalcOK, NEW c \in Clients, CalcClient(c)
    PROVE  CalcOK'
<1>1. ASSUME NEW inputs, Type(c, "menu", inputs, "send") PROVE CalcOK'
  BY <1>1, ClientMoves
<1>2. ASSUME NEW what, Show(c, "show", what, "menu") PROVE CalcOK'
  BY <1>2, ClientMoves
<1>3. ASSUME NEW p, NEW b, Send(c, "send", <<p>>, IF b THEN "close" ELSE "read") PROVE CalcOK'
  <2>1. PICK next \in {"close", "read"} : Send(c, "send", <<p>>, next)
    BY <1>3
  <2>2. Single(<<p>>)
    BY DEF Single
  <2> QED BY <2>1, <2>2, ClientSends
<1>4. CASE Recv(c, "read", 1, "show", "show")
  BY <1>4, ClientReceives
<1>5. CASE Connect(c, "connect", "menu", "done")
  BY <1>5, ClientConnects
<1>6. CASE Exit(c, "close")
  BY <1>6, ClientEnds DEF Exit
<1> QED BY <1>1, <1>2, <1>3, <1>4, <1>5, <1>6 DEF CalcClient

-----------------------------------------------------------------------------
(* The server goes on, and leaves its connection as l.  A client that       *)
(* counts on a quiet connection still may.                                 *)
LEMMA CalcUses ==
    ASSUME Base, CalcOK, Took, NEW next, NEW l, Goto("server", next),
           UNCHANGED <<fd, backlog, listening>>,
           \/ conn' = [conn EXCEPT ![fd["server"].conn] = l]
           \/ (UNCHANGED conn /\ l = conn[fd["server"].conn]),
           Shape(l),
           next \in {"accept", "read", "handle", "send", "close"},
           next = "accept" \/ l.by["s"] = {"server"},
           l.by["c"] = conn[fd["server"].conn].by["c"],
           Link(l, next \in {"handle", "send"}),
           Quiet(fd["server"].conn) =>
               \/ l.by["s"] = {}
               \/ l.in = conn[fd["server"].conn].in /\ next \notin {"handle", "send"}
    PROVE  CalcOK'
<1> DEFINE f == fd["server"].conn
<1>1. /\ Common' /\ pc'["server"] = next /\ (l.by["s"] = {"server"} => Took')
      /\ conn'[f] = l
      /\ \A c \in Clients : pc'[c] = pc[c]
      /\ \A i \in 1 .. MaxConns : i # f => conn'[i] = conn[i]
  BY ServerUses DEF CalcOK
<1>2. f \in 1 .. MaxConns /\ conn[f].by["s"] = {"server"}
  BY DEF Took
<1>3. \A i : i # f => ~Answering(i) /\ ~Answering(i)'
  BY DEF Answering
<1>4. Answering(f)' <=> next \in {"handle", "send"}
  BY <1>1 DEF Answering
<1>5. Links'
  <2> SUFFICES ASSUME NEW i \in 1 .. MaxConns PROVE Link(conn[i], Answering(i))'
    BY DEF Links
  <2>1. CASE i = f
    BY <1>1, <1>4, <2>1 DEF Link, Fresh
  <2>2. CASE i # f
    <3>1. Link(conn[i], Answering(i)) /\ conn'[i] = conn[i]
      BY <1>1, <2>2 DEF CalcOK, Links
    <3> QED BY <1>3, <2>2, <3>1 DEF Link, Fresh
  <2> QED BY <2>1, <2>2
<1>6. ASSUME NEW c \in Clients PROVE ClientTalks(c)'
  <2>1. ClientTalks(c) /\ pc'[c] = pc[c] /\ fd'[c] = fd[c]
    BY <1>1 DEF CalcOK
  <2>2. pc[c] \in {"menu", "send", "read", "show"} =>
          fd[c].conn \in 1 .. MaxConns /\ conn'[fd[c].conn].by["c"] = {c}
    BY <1>1, <2>1 DEF ClientTalks
  <2>3. ASSUME NEW i \in 1 .. MaxConns, Calm(i) PROVE Calm(i)'
    <3>1. CASE i = f
      <4>1. Quiet(f)
        BY <1>2, <2>3, <3>1 DEF Calm
      <4> QED BY <1>1, <1>4, <3>1, <4>1 DEF Calm, Quiet
    <3>2. CASE i # f
      <4>1. conn'[i] = conn[i] /\ (Answering(i)' <=> Answering(i))
        BY <1>1, <1>3, <3>2
      <4> QED BY <2>3, <4>1 DEF Calm, Quiet
    <3> QED BY <3>1, <3>2
  <2>4. pc[c] \in {"menu", "send", "show"} => Calm(fd[c].conn)'
    BY <2>1, <2>3 DEF ClientTalks
  <2> QED BY <2>1, <2>2, <2>4 DEF ClientTalks, Calm, Quiet, Answering
<1>7. ServerTalks'
  BY <1>1 DEF ServerTalks
<1> QED BY <1>1, <1>5, <1>6, <1>7 DEF CalcOK

LEMMA CalcKnows ==
    ASSUME Base, CalcOK, pc["server"] # "accept"
    PROVE  /\ Took /\ fd["server"].conn \in 1 .. MaxConns /\ fd["server"].end = "s"
           /\ task["server"] = "server"
           /\ conn[fd["server"].conn].by["s"] = {"server"}
           /\ Shape(conn[fd["server"].conn])
           /\ Link(conn[fd["server"].conn], pc["server"] \in {"handle", "send"})
<1>1. Took
  BY DEF CalcOK, ServerTalks
<1>2. Shape(conn[fd["server"].conn]) /\ Link(conn[fd["server"].conn], Answering(fd["server"].conn))
  BY <1>1 DEF Took, CalcOK, Common, Shapes, Links
<1>3. Link(conn[fd["server"].conn], pc["server"] \in {"handle", "send"})
  BY <1>2 DEF Answering
<1> QED BY <1>1, <1>2, <1>3, Separate DEF Took, Base

LEMMA CalcAccepts ==
    ASSUME Base, CalcOK, Accept("server", "accept", "read")
    PROVE  CalcOK'
<1> DEFINE h == fd'["server"].conn
<1>1. /\ Common' /\ Took' /\ pc'["server"] = "read"
      /\ \A c \in Clients : pc'[c] = pc[c] /\ fd'[c] = fd[c]
      /\ conn[h].by["s"] = {"kernel"}
      /\ \A i \in 1 .. MaxConns :
           /\ conn'[i].in = conn[i].in /\ conn'[i].rst = conn[i].rst
           /\ conn'[i].by["c"] = conn[i].by["c"]
           /\ i # h => conn'[i] = conn[i]
  BY ServerAccepts DEF CalcOK
<1>2. pc["server"] = "accept"
  BY DEF Accept, At
<1>3. \A i : ~Answering(i) /\ ~Answering(i)'
  BY <1>1, <1>2 DEF Answering
<1>4. h \in 1 .. MaxConns /\ conn'[h].by["s"] = {"server"}
  BY <1>1 DEF Took
<1>5. Links'
  <2> SUFFICES ASSUME NEW i \in 1 .. MaxConns PROVE Link(conn[i], Answering(i))'
    BY DEF Links
  <2>1. Link(conn[i], Answering(i))
    BY DEF CalcOK, Links
  <2>2. CASE i = h
    BY <1>1, <1>3, <1>4, <2>1, <2>2 DEF Link, Fresh, Keepers
  <2>3. CASE i # h
    <3>1. conn'[i] = conn[i]
      BY <1>1, <2>3
    <3> QED BY <1>3, <2>1, <3>1 DEF Link, Fresh
  <2> QED BY <2>2, <2>3
<1>6. ASSUME NEW c \in Clients PROVE ClientTalks(c)'
  <2>1. ClientTalks(c) /\ pc'[c] = pc[c] /\ fd'[c] = fd[c]
    BY <1>1 DEF CalcOK
  <2>2. pc[c] \in {"menu", "send", "read", "show"} =>
          fd[c].conn \in 1 .. MaxConns /\ conn'[fd[c].conn].by["c"] = {c}
    BY <1>1, <2>1 DEF ClientTalks
  <2>3. ASSUME NEW i \in 1 .. MaxConns, Calm(i) PROVE Calm(i)'
    <3>1. CASE i = h
      <4>1. Quiet(h)
        BY <1>1, <2>3, <3>1 DEF Calm
      <4> QED BY <1>1, <1>3, <1>4, <3>1, <4>1 DEF Calm, Quiet
    <3>2. CASE i # h
      <4>1. conn'[i] = conn[i] /\ (Answering(i)' <=> Answering(i))
        BY <1>1, <1>3, <3>2
      <4> QED BY <2>3, <4>1 DEF Calm, Quiet
    <3> QED BY <3>1, <3>2
  <2>4. pc[c] \in {"menu", "send", "show"} => Calm(fd[c].conn)'
    BY <2>1, <2>3 DEF ClientTalks
  <2> QED BY <2>1, <2>2, <2>4 DEF ClientTalks, Calm, Quiet, Answering
<1>7. ServerTalks'
  BY <1>1 DEF ServerTalks
<1> QED BY <1>1, <1>5, <1>6, <1>7 DEF CalcOK

(* It reads the request whole, or finds the client gone.                   *)
LEMMA CalcReads ==
    ASSUME Base, CalcOK, Recv("server", "read", 1, "handle", "close")
    PROVE  CalcOK'
<1> DEFINE f == fd["server"].conn
           k == conn[f]
<1>1. pc["server"] = "read"
  BY DEF Recv, Receive, At
<1>2. /\ Took /\ f \in 1 .. MaxConns /\ fd["server"].end = "s"
      /\ k.by["s"] = {"server"} /\ Shape(k) /\ Link(k, FALSE)
  BY <1>1, CalcKnows DEF Link
<1>3. UNCHANGED <<fd, backlog, listening>>
  BY DEF Recv, Receive
<1>4. CASE Read("server", 1, FALSE) /\ Goto("server", "handle")
  <2>1. PICK n \in 1 .. Len(k.in["s"]) :
          conn' = [conn EXCEPT ![f].in["s"] = SubSeq(@, n + 1, Len(@))]
    BY <1>2, <1>4 DEF Read, Arrived, Mine
  <2>2. k.in["s"] # <<>>
    <3>1. Len(<<>>) = 0
      OBVIOUS
    <3>2. 1 .. 0 = {}
      OBVIOUS
    <3> QED BY <2>1, <3>1, <3>2
  <2>3. /\ SubSeq(k.in["s"], n + 1, Len(k.in["s"])) = <<>> /\ Fresh(k)
        /\ One(k.in["c"]) /\ "c" \notin k.rst
    BY <1>2, <2>1, <2>2, OneRead DEF Link, Keepers
  <2> DEFINE l == [k EXCEPT !.in["s"] = SubSeq(@, n + 1, Len(@))]
  <2>4. conn' = [conn EXCEPT ![f] = l]
    BY <2>1
  <2>5. /\ Shape(l) /\ l.by = k.by /\ l.rst = k.rst
        /\ l.in["s"] = SubSeq(k.in["s"], n + 1, Len(k.in["s"])) /\ l.in["c"] = k.in["c"]
    BY <1>2 DEF Shape, Ends
  <2>6. Link(l, TRUE)
    BY <1>2, <2>3, <2>5 DEF Link, Fresh, One, Keepers
  <2>7. PICK next : next = "handle"
    OBVIOUS
  <2>8. /\ Goto("server", next) /\ next \in {"accept", "read", "handle", "send", "close"}
        /\ next \in {"handle", "send"}
    BY <1>4, <2>7
  <2>9. ~Quiet(f)
    BY <2>2 DEF Quiet
  <2>10. Link(l, next \in {"handle", "send"})
    BY <2>6, <2>8 DEF Link
  <2>11. l.by["s"] = {"server"} /\ l.by["c"] = k.by["c"]
    BY <1>2, <2>5
  <2> HIDE DEF l
  <2> QED BY <1>2, <1>3, <2>4, <2>5, <2>8, <2>9, <2>10, <2>11, CalcUses
<1>5. CASE UNCHANGED conn /\ Goto("server", "close")
  <2>1. PICK l : l = k
    OBVIOUS
  <2>2. PICK next : next = "close"
    OBVIOUS
  <2>3. /\ Goto("server", next) /\ next \in {"accept", "read", "handle", "send", "close"}
        /\ next \notin {"handle", "send"}
    BY <1>5, <2>2
  <2>4. Link(l, next \in {"handle", "send"})
    BY <1>2, <2>1, <2>3 DEF Link
  <2>5. UNCHANGED conn /\ l = conn[f] /\ Shape(l) /\ l.by["s"] = {"server"} /\ l.by["c"] = k.by["c"]
        /\ l.in = k.in
    BY <1>2, <1>5, <2>1
  <2> QED BY <1>2, <1>3, <2>3, <2>4, <2>5, CalcUses
<1> QED BY <1>4, <1>5 DEF Recv, Receive

LEMMA CalcJumps ==
    ASSUME Base, CalcOK, NEW next \in {"close", "send"}, Jump("server", "handle", next)
    PROVE  CalcOK'
<1> DEFINE f == fd["server"].conn
<1>1. /\ pc["server"] = "handle" /\ Goto("server", next)
      /\ UNCHANGED <<fd, backlog, listening, conn>>
  BY DEF Jump, At, locals, net
<1>2. /\ Took /\ conn[f].by["s"] = {"server"} /\ Shape(conn[f]) /\ Link(conn[f], TRUE)
      /\ ~Quiet(f)
  BY <1>1, CalcKnows DEF Link, Quiet, Answering
<1>3. PICK l : l = conn[f]
  OBVIOUS
<1>4. Link(l, next \in {"handle", "send"})
  BY <1>2, <1>3 DEF Link
<1>5. UNCHANGED conn /\ l = conn[f] /\ Shape(l) /\ l.by["s"] = {"server"}
      /\ l.by["c"] = conn[f].by["c"]
  BY <1>1, <1>2, <1>3
<1>6. next \in {"accept", "read", "handle", "send", "close"}
  OBVIOUS
<1> QED BY <1>1, <1>2, <1>4, <1>5, <1>6, CalcUses

(* The connection of a request that is answered was not reset.             *)
LEMMA CalcSends ==
    ASSUME Base, CalcOK, NEW m, Single(m), Send("server", "send", m, "read")
    PROVE  CalcOK'
<1> DEFINE f == fd["server"].conn
           k == conn[f]
<1>1. pc["server"] = "send"
  BY DEF Send, SendOr, At
<1>2. /\ Took /\ f \in 1 .. MaxConns /\ fd["server"].end = "s" /\ task["server"] = "server"
      /\ k.by["s"] = {"server"} /\ Shape(k) /\ Link(k, TRUE) /\ ~Quiet(f)
  BY <1>1, CalcKnows DEF Link, Quiet, Answering
<1>3. Fresh(k) /\ k.in["s"] = <<>> /\ k.in["c"] = <<>> /\ "c" \notin k.rst
  BY <1>2 DEF Link, Keepers, Fresh
<1>4. m # <<>> /\ <<>> \o m = m /\ One(m)
  BY OneSent
<1>5. Open("server") /\ (PeerClosed("server") <=> k.by["c"] = {}) /\ ~Reset("server")
  BY <1>2, <1>3, BothEnds DEF Open, PeerClosed, Reset, Mine, Fresh
<1>6. /\ Goto("server", "read") /\ UNCHANGED <<fd, backlog, listening>>
      /\ \/ k.by["c"] = {} /\ conn' = [conn EXCEPT ![f].rst = @ \cup {"s"}]
         \/ conn' = [conn EXCEPT ![f].in["c"] = @ \o m]
  BY <1>2, <1>4, <1>5, BothEnds DEF Send, SendOr, locals
<1>7. PICK l : /\ conn' = [conn EXCEPT ![f] = l] /\ Shape(l) /\ l.by = k.by
               /\ Link(l, FALSE)
  <2>1. CASE k.by["c"] = {} /\ conn' = [conn EXCEPT ![f].rst = @ \cup {"s"}]
    <3> DEFINE l == [k EXCEPT !.rst = @ \cup {"s"}]
    <3>1. conn' = [conn EXCEPT ![f] = l]
      BY <2>1
    <3>2. Shape(l) /\ l.by = k.by /\ l.in = k.in /\ l.rst = k.rst \cup {"s"}
      BY <1>2 DEF Shape
    <3>3. Link(l, FALSE)
      BY <1>2, <1>3, <2>1, <3>2 DEF Link, One, Keepers
    <3> HIDE DEF l
    <3> QED BY <3>1, <3>2, <3>3
  <2>2. CASE conn' = [conn EXCEPT ![f].in["c"] = @ \o m]
    <3> DEFINE l == [k EXCEPT !.in["c"] = @ \o m]
    <3>1. conn' = [conn EXCEPT ![f] = l]
      BY <2>2
    <3>2. /\ Shape(l) /\ l.by = k.by /\ l.rst = k.rst
          /\ l.in["s"] = k.in["s"] /\ l.in["c"] = k.in["c"] \o m
      BY <1>2 DEF Shape, Ends
    <3>3. l.in["s"] = <<>> /\ l.in["c"] = m
      BY <1>3, <1>4, <3>2
    <3>4. Link(l, FALSE)
      BY <1>2, <1>3, <1>4, <3>2, <3>3 DEF Link, One, Fresh, Keepers
    <3> HIDE DEF l
    <3> QED BY <3>1, <3>2, <3>4
  <2> QED BY <1>6, <2>1, <2>2
<1>8. PICK next : next = "read"
  OBVIOUS
<1>9. /\ Goto("server", next) /\ next \in {"accept", "read", "handle", "send", "close"}
      /\ next \notin {"handle", "send"}
  BY <1>6, <1>8
<1>10. Link(l, next \in {"handle", "send"})
  BY <1>7, <1>9 DEF Link
<1>11. l.by["s"] = {"server"} /\ l.by["c"] = k.by["c"]
  BY <1>2, <1>7
<1> QED BY <1>2, <1>6, <1>7, <1>9, <1>10, <1>11, CalcUses

LEMMA CalcCloses ==
    ASSUME Base, CalcOK, Close("server", "close", "accept")
    PROVE  CalcOK'
<1> DEFINE f == fd["server"].conn
<1>1. pc["server"] = "close"
  BY DEF Close, At
<1>2. /\ Took /\ f \in 1 .. MaxConns /\ fd["server"].end = "s" /\ task["server"] = "server"
      /\ conn[f].by["s"] = {"server"} /\ Shape(conn[f])
  BY <1>1, CalcKnows
<1>3. PICK l : l = Drop(conn[f], "s", {"server"})
  OBVIOUS
<1>4. /\ Goto("server", "accept") /\ UNCHANGED <<fd, backlog, listening>>
      /\ conn' = [conn EXCEPT ![f] = l]
  <2>1. f # 0
    BY <1>2
  <2> QED BY <1>2, <1>3, <2>1 DEF Close, locals
<1>5. Shape(l) /\ l.by["s"] = {} /\ l.by["c"] = conn[f].by["c"]
  BY <1>2, <1>3, BothEnds, DropShape
<1>6. \A b : Link(l, b)
  BY <1>5 DEF Link, Keepers
<1>7. PICK next : next = "accept"
  OBVIOUS
<1>8. /\ Goto("server", next) /\ next \in {"accept", "read", "handle", "send", "close"}
      /\ next = "accept"
  BY <1>4, <1>7
<1> QED BY <1>2, <1>4, <1>5, <1>6, <1>8, CalcUses

(* Only its own terminal stops the calculator.                             *)
LEMMA CalcStep ==
    ASSUME Base, CalcInv, [Next]_vars
    PROVE  CalcInv'
<1>1. /\ UNCHANGED system
      /\ said'["server"] = said["server"] \/ Stopped'
  BY BaseStep
<1> SUFFICES ASSUME system = "calculator", ~Stopped' PROVE CalcOK'
  BY <1>1 DEF CalcInv
<1>2. CalcOK
  BY <1>1 DEF CalcInv, Stopped
<1>3. ASSUME Server("server") PROVE CalcOK'
  <2>1. CalcServer("server")
    BY <1>3 DEF Server
  <2>2. CASE Accept("server", "accept", "read")
    BY <1>2, <2>2, CalcAccepts
  <2>3. CASE Recv("server", "read", 1, "handle", "close")
    BY <1>2, <2>3, CalcReads
  <2>4. ASSUME NEW b, Jump("server", "handle", IF b THEN "close" ELSE "send") PROVE CalcOK'
    <3>1. PICK next \in {"close", "send"} : Jump("server", "handle", next)
      BY <2>4
    <3> QED BY <1>2, <3>1, CalcJumps
  <2>5. ASSUME NEW p, Send("server", "send", <<p>>, "read") PROVE CalcOK'
    <3>1. Single(<<p>>)
      BY DEF Single
    <3> QED BY <1>2, <2>5, <3>1, CalcSends
  <2>6. CASE Close("server", "close", "accept")
    BY <1>2, <2>6, CalcCloses
  <2> QED BY <2>1, <2>2, <2>3, <2>4, <2>5, <2>6 DEF CalcServer
<1>4. ASSUME NEW c \in Clients, Client(c) PROVE CalcOK'
  <2>1. CalcClient(c)
    BY <1>4 DEF Client
  <2> QED BY <1>2, <2>1, CalcClientOK
<1>5. ASSUME NEW c \in Varied, Quit(c) PROVE CalcOK'
  <2>1. c \in Clients /\ task[c] = c
    BY VariedAssumption, Separate DEF Base
  <2> QED BY <1>2, <1>5, <2>1, ClientEnds DEF Quit
<1>6. ~Interrupt("server", {"server"})
  <2> SUFFICES ASSUME Interrupt("server", {"server"}) PROVE FALSE
    OBVIOUS
  <2>1. /\ DOMAIN said = Procs /\ said["server"] \in Seq({<<"^C">>}) /\ "server" \in Procs
        /\ said' = [said EXCEPT !["server"] = Append(@, <<"^C">>)]
    BY Separate DEF Interrupt, Base
  <2>2. said'["server"] = Append(said["server"], <<"^C">>)
    BY <2>1
  <2>3. \A S : \A s \in Seq(S) : \A e \in S : Append(s, e) # <<>>
    OBVIOUS
  <2>4. Append(said["server"], <<"^C">>) # <<>>
    BY ONLY <2>1, <2>3
  <2> QED BY <2>2, <2>4 DEF Stopped
<1>7. ASSUME UNCHANGED vars PROVE CalcOK'
  <2>1. UNCHANGED <<pc, fd, conn, backlog, listening>>
    BY <1>7 DEF vars, locals, net
  <2>2. Common' /\ (Took => Took')
    BY <1>2, <2>1 DEF CalcOK, Common, Shapes, Waitlist, Took
  <2>3. Links' /\ \A c \in Clients : ClientTalks(c)'
    BY <1>2, <2>1 DEF CalcOK, Links, Link, Fresh, ClientTalks, Calm, Quiet, Answering
  <2>4. ServerTalks'
    BY <1>2, <2>1, <2>2 DEF CalcOK, ServerTalks
  <2> QED BY <2>2, <2>3, <2>4 DEF CalcOK
<1> QED BY <1>3, <1>4, <1>5, <1>6, <1>7 DEF Next, Programs, Leave

-----------------------------------------------------------------------------
(* All of them, at the start and in every step.                            *)
LivesInv == Base /\ StudentsInv /\ JudgesInv /\ CalcInv

LEMMA LivesInit == Init => LivesInv
<1> SUFFICES ASSUME Init PROVE LivesInv
  OBVIOUS
<1>1. /\ task = [p \in Procs |-> p] /\ fd = [p \in Procs |-> NoFd]
      /\ said = [p \in Procs |-> <<>>]
      /\ conn = [i \in 1 .. MaxConns |-> NoConn]
      /\ backlog = <<>> /\ listening = {"server"}
      /\ pc = [p \in Procs |-> IF p = "server" THEN "accept"
                               ELSE IF p \in Clients THEN "connect" ELSE "none"]
  BY DEF Init, SocketsInit
<1>2. pc["server"] = "accept" /\ \A c \in Clients : pc[c] = "connect"
  BY <1>1, Separate
<1>3. Base
  <2>1. said["server"] = <<>> /\ \A S : <<>> \in Seq(S)
    BY <1>1, Separate
  <2> QED BY <1>1, <2>1 DEF Base
<1>4. Common
  <2>1. \A c \in Clients : fd[c].end = "c"
    BY <1>1, Separate DEF NoFd
  <2>2. Shape(NoConn)
    BY DEF Shape, NoConn
  <2>3. Shapes
    BY <1>1, <2>2 DEF Shapes
  <2>4. backlog \in Seq(1 .. MaxConns) /\ DOMAIN backlog = {}
    <3>1. \A S : <<>> \in Seq(S)
      OBVIOUS
    <3>2. DOMAIN <<>> = {}
      OBVIOUS
    <3> QED BY <1>1, <3>1, <3>2
  <2>5. Waitlist
    BY <2>4 DEF Waitlist
  <2> QED BY <1>1, <2>1, <2>3, <2>5 DEF Common
<1>5. JudgeOK
  <2>1. DOMAIN backlog = {}
    BY <1>1
  <2> QED BY <1>2, <1>4, <2>1 DEF JudgeOK, WaitingFresh, JudgeAt
<1>6. CalcOK
  <2>1. NoConn.by["s"] = {}
    BY DEF NoConn, Ends
  <2>2. Links
    BY <1>1, <2>1 DEF Links, Link, Keepers
  <2> QED BY <1>2, <1>4, <2>2 DEF CalcOK, ServerTalks, ClientTalks
<1> QED BY <1>2, <1>3, <1>5, <1>6 DEF LivesInv, StudentsInv, JudgesInv, CalcInv, Gone

LEMMA LivesStep == ASSUME LivesInv, [Next]_vars PROVE LivesInv'
<1>1. Base /\ StudentsInv /\ JudgesInv /\ CalcInv
  BY DEF LivesInv
<1>2. Base' /\ UNCHANGED system
  BY <1>1, BaseStep
<1> QED BY <1>1, <1>2, StudentsStep, JudgesStep, CalcStep DEF LivesInv

LEMMA LivesOutlive == ASSUME LivesInv PROVE ServerOutlivesClients
<1>1. system = "students" => ~Gone
  BY DEF LivesInv, StudentsInv
<1>2. system \in Judges => ~Gone
  BY DEF LivesInv, JudgesInv, JudgeOK, JudgeAt, Gone
<1>3. system = "calculator" /\ ~Stopped => ~Gone
  BY DEF LivesInv, CalcInv, CalcOK, ServerTalks, Gone
<1> QED BY <1>1, <1>2, <1>3 DEF ServerOutlivesClients

(* No client ends the calculator, the student server or a server of Lab06   *)
(* for the others, whichever of the inputs of the model its user types, and *)
(* wherever it leaves.                                                     *)
THEOREM ServerAlwaysStaysUp == Spec => []ServerOutlivesClients
<1>1. Init => LivesInv
  BY LivesInit
<1>2. LivesInv /\ [Next]_vars => LivesInv'
  BY LivesStep
<1>3. LivesInv => ServerOutlivesClients
  BY LivesOutlive
<1> QED BY <1>1, <1>2, <1>3, PTL DEF Spec
=============================================================================
