--------------------------- MODULE EmployeeSession ---------------------------
(***************************************************************************)
(* The processes of midsem/: the server's parent with its accept loop, one *)
(* child per accepted client, and the two processes of each client.  The   *)
(* descriptors of a connection are counted per process, because a forked   *)
(* child inherits those of the clients accepted before its own and TCP     *)
(* tells the client that the server is gone only when every copy is closed.*)
(* What a child does with the database between receiving a request and     *)
(* answering it is in EmployeeStore.                                       *)
(***************************************************************************)
EXTENDS Naturals, FiniteSets, Sequences, SequencesExt

CONSTANTS Client,      \* the client programs that may be started
          Parent,      \* the server's parent process
          MaxSends     \* bound on the requests of all clients together

ASSUME ParentAssumption == Parent \notin Client
ASSUME MaxSendsAssumption == MaxSends \in Nat

VARIABLES backlog,     \* connections completed by the kernel, not yet accepted
          sockets,     \* client_sockets[]: the accepted clients, in order
          active,      \* active_clients
          parent,      \* where the parent stands in main
          k,           \* its loop index
          child,       \* the child serving each client
          holds,       \* <<process, client>>: server-side descriptors open
          up,          \* requests in flight to the server, a number
          down,        \* what is in flight to the client, in order
          reset,       \* whether the server's end has seen a TCP reset
          client,      \* "off", "running" (reader and writer) or "over"
          sends        \* requests sent so far (bounds the model)

vars == <<backlog, sockets, active, parent, k, child, holds, up, down, reset,
          client, sends>>

MaxActive == 2

(* "terminate session" is two tokens, so that recv can split it. *)
Terminate == <<"terminate", "session">>
Tokens == {"response", "terminate", "session"}

Init ==
    /\ backlog = <<>>
    /\ sockets = <<>>
    /\ active = 0
    /\ parent = "accept"
    /\ k = 1
    /\ child = [c \in Client |-> "none"]
    /\ holds = {}
    /\ up = [c \in Client |-> 0]
    /\ down = [c \in Client |-> <<>>]
    /\ reset = [c \in Client |-> FALSE]
    /\ client = [c \in Client |-> "off"]
    /\ sends = 0

Listening == parent \notin {"exit", "sigpipe"}
ServerHolds(c) == (\E p \in Client \cup {Parent} : <<p, c>> \in holds)
                  \/ (Listening /\ c \in ToSet(backlog))
Without(p) == {h \in holds : h[1] # p}

-----------------------------------------------------------------------------
(* The clients. *)
Connect(c) ==
    /\ client[c] = "off"
    /\ IF Listening
       THEN /\ client' = [client EXCEPT ![c] = "running"]
            /\ backlog' = Append(backlog, c)
       ELSE /\ client' = [client EXCEPT ![c] = "over"]
            /\ UNCHANGED backlog
    /\ UNCHANGED <<sockets, active, parent, k, child, holds, up, down, reset, sends>>

WriterSend(c) ==
    /\ client[c] = "running" /\ ServerHolds(c)
    /\ sends < MaxSends
    /\ up' = [up EXCEPT ![c] = @ + 1]
    /\ sends' = sends + 1
    /\ UNCHANGED <<backlog, sockets, active, parent, k, child, holds, down, reset, client>>

(* Both processes of the client end: its end of the connection is closed,  *)
(* with a reset if something received was left unread.                     *)
ClientEnds(c, unread) ==
    /\ client' = [client EXCEPT ![c] = "over"]
    /\ reset' = [reset EXCEPT ![c] = @ \/ unread # <<>>]
    /\ down' = [down EXCEPT ![c] = <<>>]
    /\ UNCHANGED <<backlog, sockets, active, parent, k, child, holds, up, sends>>

Mentions(chunk) == \E j \in 1..(Len(chunk) - 1) : SubSeq(chunk, j, j + 1) = Terminate

(* recv hands the reader any part of what has arrived; strstr looks for    *)
(* the message in that part only.                                          *)
ReaderRecv(c) ==
    /\ client[c] = "running"
    /\ \E m \in 1..Len(down[c]) :
          LET chunk == SubSeq(down[c], 1, m)
              rest  == SubSeq(down[c], m + 1, Len(down[c]))
          IN IF Mentions(chunk)
             THEN ClientEnds(c, rest)
             ELSE /\ down' = [down EXCEPT ![c] = rest]
                  /\ UNCHANGED <<backlog, sockets, active, parent, k, child, holds,
                                 up, reset, client, sends>>

ReaderEof(c) ==
    /\ client[c] = "running"
    /\ down[c] = <<>> /\ ~ServerHolds(c)
    /\ ClientEnds(c, <<>>)

Leave(c) ==
    /\ client[c] = "running"
    /\ ClientEnds(c, down[c])

-----------------------------------------------------------------------------
(* The children. *)
ChildServe(c) ==
    /\ child[c] = "running" /\ ~reset[c]
    /\ \E m \in 1..up[c] : up' = [up EXCEPT ![c] = @ - m]
    /\ IF client[c] = "running"
       THEN down' = [down EXCEPT ![c] = Append(@, "response")] /\ UNCHANGED reset
       ELSE reset' = [reset EXCEPT ![c] = TRUE] /\ UNCHANGED down
    /\ UNCHANGED <<backlog, sockets, active, parent, k, child, holds, client, sends>>

ChildEnds(c) ==
    /\ child[c] = "running"
    /\ client[c] = "over" /\ (up[c] = 0 \/ reset[c])
    /\ child' = [child EXCEPT ![c] = "ended"]
    /\ holds' = Without(c)
    /\ UNCHANGED <<backlog, sockets, active, parent, k, up, down, reset, client, sends>>

-----------------------------------------------------------------------------
(* The parent. *)
AcceptOneMore ==        \* active_clients > 2 for active_clients == 2
    /\ parent = "accept" /\ backlog # <<>>
    /\ backlog' = Tail(backlog)
    /\ sockets' = Append(sockets, Head(backlog))
    /\ holds' = holds \cup {<<Parent, Head(backlog)>>}
    /\ parent' = IF active > MaxActive THEN "broadcast" ELSE "fork"
    /\ UNCHANGED <<active, k, child, up, down, reset, client, sends>>

Accept ==
    /\ parent = "accept" /\ backlog # <<>>
    /\ backlog' = Tail(backlog)
    /\ sockets' = Append(sockets, Head(backlog))
    /\ holds' = holds \cup {<<Parent, Head(backlog)>>}
    /\ parent' = IF active = MaxActive THEN "broadcast" ELSE "fork"
    /\ UNCHANGED <<active, k, child, up, down, reset, client, sends>>

(* active_clients counts the clients ever accepted: nothing decrements it. *)
Fork ==
    /\ parent = "fork"
    /\ LET c == Last(sockets)
       IN /\ child' = [child EXCEPT ![c] = "running"]
          /\ holds' = holds \cup {<<c, d>> : d \in {e \in Client : <<Parent, e>> \in holds}}
    /\ active' = active + 1
    /\ parent' = "accept"
    /\ UNCHANGED <<backlog, sockets, k, up, down, reset, client, sends>>

(* One round of the broadcast: send, then close.  A client that has left   *)
(* is sent the message all the same, and its kernel answers with a reset.  *)
Broadcast ==
    /\ parent = "broadcast" /\ k <= active + 1
    /\ ~reset[sockets[k]]
    /\ LET c == sockets[k]
       IN /\ IF client[c] = "running"
             THEN down' = [down EXCEPT ![c] = @ \o Terminate] /\ UNCHANGED reset
             ELSE reset' = [reset EXCEPT ![c] = TRUE] /\ UNCHANGED down
          /\ holds' = holds \ {<<Parent, c>>}
    /\ k' = k + 1
    /\ UNCHANGED <<backlog, sockets, active, parent, child, up, client, sends>>

(* The first call on a connection after its reset fails with ECONNRESET,   *)
(* which the parent ignores, unless the child's recv has already had it.   *)
BroadcastFails ==
    /\ parent = "broadcast" /\ k <= active + 1
    /\ reset[sockets[k]] /\ child[sockets[k]] # "ended"
    /\ holds' = holds \ {<<Parent, sockets[k]>>}
    /\ k' = k + 1
    /\ UNCHANGED <<backlog, sockets, active, parent, child, up, down, reset, client, sends>>

(* Every later one raises SIGPIPE, which ends the parent in mid-loop. *)
BroadcastBreaksPipe ==
    /\ parent = "broadcast" /\ k <= active + 1
    /\ reset[sockets[k]]
    /\ parent' = "sigpipe"
    /\ holds' = Without(Parent)
    /\ UNCHANGED <<backlog, sockets, active, k, child, up, down, reset, client, sends>>

StartKillLast ==        \* the kill loop started at 1 instead of 0
    /\ parent = "broadcast" /\ k > active + 1
    /\ parent' = "kill"
    /\ k' = 2
    /\ UNCHANGED <<backlog, sockets, active, child, holds, up, down, reset, client, sends>>

StartKill ==
    /\ parent = "broadcast" /\ k > active + 1
    /\ parent' = "kill"
    /\ k' = 1
    /\ UNCHANGED <<backlog, sockets, active, child, holds, up, down, reset, client, sends>>

KillChild ==
    /\ parent = "kill" /\ k <= active
    /\ child' = [child EXCEPT ![sockets[k]] = "ended"]
    /\ holds' = Without(sockets[k])
    /\ k' = k + 1
    /\ UNCHANGED <<backlog, sockets, active, parent, up, down, reset, client, sends>>

Exit ==
    /\ parent = "kill" /\ k > active
    /\ parent' = "exit"
    /\ holds' = Without(Parent)
    /\ UNCHANGED <<backlog, sockets, active, k, child, up, down, reset, client, sends>>

-----------------------------------------------------------------------------
ParentStep ==
    \/ Accept \/ Fork
    \/ Broadcast \/ BroadcastFails \/ BroadcastBreaksPipe
    \/ StartKill \/ KillChild \/ Exit
ReaderStep(c) == ReaderRecv(c) \/ ReaderEof(c)
ChildStep(c) == ChildServe(c) \/ ChildEnds(c)

Next ==
    \/ ParentStep
    \/ \E c \in Client :
          Connect(c) \/ WriterSend(c) \/ Leave(c) \/ ReaderStep(c) \/ ChildStep(c)

(* Every process is scheduled; users need do nothing. *)
Spec ==
    /\ Init /\ [][Next]_vars
    /\ WF_vars(ParentStep)
    /\ \A c \in Client : WF_vars(ReaderStep(c)) /\ WF_vars(ChildStep(c))

-----------------------------------------------------------------------------
TypeOK ==
    /\ backlog \in Seq(Client)
    /\ sockets \in Seq(Client) /\ Len(sockets) <= MaxActive + 1
    /\ active \in 0..MaxActive
    /\ parent \in {"accept", "fork", "broadcast", "kill", "exit", "sigpipe"}
    /\ k \in 1..(MaxActive + 2)
    /\ child \in [Client -> {"none", "running", "ended"}]
    /\ holds \subseteq (Client \cup {Parent}) \X Client
    /\ up \in [Client -> 0..MaxSends]
    /\ down \in [Client -> Seq(Tokens)]
    /\ reset \in [Client -> BOOLEAN]
    /\ client \in [Client -> {"off", "running", "over"}]
    /\ sends \in 0..MaxSends

(* When the server has returned from main no descriptor of any connection  *)
(* is left open, whoever inherited it, so every client sees the end.       *)
ExitReleasesConnections == parent = "exit" => holds = {}

(* Both, and the bounds on what the parent and the clients count: the      *)
(* parent never serves more than MaxActive and one connections.            *)
SessionSafe == TypeOK /\ ExitReleasesConnections

(* Once the parent starts the broadcast every client that is running ends, *)
(* by reading "terminate session" or, when recv splits it, by end of file, *)
(* unless SIGPIPE ends the parent in the middle of the broadcast.          *)
AllEnded == \A c \in Client : client[c] # "running"

BroadcastEndsAll == parent = "broadcast" ~> AllEnded \/ parent = "sigpipe"

(* The same without the exception: all clients are reached.                *)
TerminationReachesAll == parent = "broadcast" ~> AllEnded
=============================================================================
