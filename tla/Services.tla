-------------------------------- MODULE Services --------------------------------
(***************************************************************************)
(* The servers over UDP, the name servers, the servers of Units 6 and 8    *)
(* and the multicast lecture, with their clients: one of the systems in    *)
(* each behaviour, over UDP with and without loss.                         *)
(***************************************************************************)
EXTENDS DatagramServers, UnitServers, Multicast

CONSTANT Workers    \* children, threads and the servers behind a server
ASSUME WorkersAssumption ==
    Workers \cup {"w1", "w2", "w3"} \subseteq Procs \ (Clients \cup {"server", "query"})
ASSUME ServerAssumption ==
    "server" \in Procs \ Clients /\ "kernel" \notin Procs /\ "query" \notin Clients
ASSUME VariedAssumption == Varied \subseteq Clients

Datagrams == {"palindromes", "texts", "statistics", "permutations", "students"}
Names == {"hierarchy", "resolver"}
Lectures == {"lecture", "joining"}
Children == {"website", "concurrent", "socket names", "threads", "super-server"}
Daemons == {"printf", "syslog daemon", "log", "priorities"}

(* Where the server starts, and its clients, once all of them are bound.   *)
ServerStart ==
    CASE system.name \in Datagrams \cup {"resolver"} -> "recv"
      [] system.name \in {"hierarchy", "printf"} -> "start"
      [] system.name \in Lectures -> "type"
      [] system.name = "super-server" -> "select"
      [] system.name \in (Children \cup Daemons) \ {"printf", "super-server"} -> "accept"

ClientStart ==
    CASE system.name \in Datagrams \cup Names \cup {"website", "super-server"} -> "menu"
      [] system.name \in Lectures -> "start"
      [] system.name \in Children \ {"website", "super-server"} -> "connect"
      [] system.name \in Daemons -> "shell"

Init ==
    /\ system \in [name : Datagrams \cup Names \cup Lectures, lossy : BOOLEAN]
                  \cup [name : Children \cup Daemons, lossy : {FALSE}]
    /\ \E present \in IF system.name = "website" THEN BOOLEAN ELSE {TRUE} :
         SocketsInit([p \in Procs |->
                        CASE p = "server" -> ServerStart
                          [] p \in Clients -> ClientStart
                          [] p \in Workers -> IF system.name \in Names THEN "recv" ELSE "none"
                          [] p = "query" -> "none"],
                     {"server"}, [log |-> <<>>, database |-> present])

Upstream ==
    \/ HierarchyServer("w1", RootAnswer)
    \/ HierarchyServer("w2", TldAnswer)
    \/ HierarchyServer("w3", AuthAnswer)

Server(x) ==
    \/ system.name = "palindromes" /\ PalindromeServer(x)
    \/ system.name = "texts" /\ TextDatagramServer(x)
    \/ system.name = "statistics" /\ StatisticsDatagramServer(x)
    \/ system.name = "permutations" /\ PermutationServer(x)
    \/ system.name = "students" /\ StudentDatagramServer(x, {"w1", "w2"})
    \/ system.name = "hierarchy" /\ (LocalDns(x) \/ Upstream)
    \/ system.name = "resolver" /\ (ResolverServer(x) \/ TalkingServer("w1"))
    \/ system.name \in Lectures /\ Sender(x)
    \/ system.name = "website" /\ WebsiteServer(x, {"w1", "w2"})
    \/ system.name \in {"concurrent", "socket names"} /\ ConcurrentServer(x, Workers)
    \/ system.name = "threads" /\ ThreadServer(x, Workers)
    \/ system.name = "super-server" /\ SuperServer(x, Workers)
    \/ system.name = "printf" /\ PrintfDaemon(x)
    \/ system.name = "syslog daemon" /\ SyslogDaemon(x)
    \/ system.name \in {"log", "priorities"} /\ LogServer(x)

Client(x) ==
    \/ system.name = "palindromes" /\ PalindromeClient(x)
    \/ system.name = "texts" /\ TextDatagramClient(x)
    \/ system.name = "statistics" /\ StatisticsDatagramClient(x)
    \/ system.name = "permutations" /\ PermutationClient(x)
    \/ system.name = "students" /\ StudentDatagramClient(x)
    \/ system.name = "hierarchy" /\ HierarchyClient(x)
    \/ system.name = "resolver" /\ ResolverClient(x)
    \/ system.name = "lecture" /\ BasicReceiver(x)
    \/ system.name = "joining" /\ JoiningReceiver(x)
    \/ system.name = "website" /\ WebsiteClient(x)
    \/ system.name \in {"concurrent", "socket names"} /\ ConcurrentClient(x)
    \/ system.name = "threads" /\ ThreadClient(x)
    \/ system.name = "super-server" /\ ServiceClient(x)
    \/ system.name \in {"printf", "syslog daemon"} /\ GreetingClient(x)
    \/ system.name \in {"log", "priorities"} /\ LogClient(x)

Programs == Server("server") \/ \E c \in Clients : Client(c)

(* A user who leaves.                                                      *)
Leave == \E c \in Varied : Quit(c)

Next == Programs \/ Leave

(* As long as some process can go on without its user, one does.           *)
Spec ==
    /\ Init
    /\ [][Next]_vars
    /\ WF_vars(Programs /\ said' = said)

-----------------------------------------------------------------------------
Gone == pc["server"] = "done"
Uninitialised == {<<>>} \cup Tails \cup {a \o b : a \in Tails, b \in Tails}

(* The k-th thing client c is shown, for each system.  Where a program     *)
(* prints memory it never wrote the answer only begins the text.           *)
Fits(c, k, answer) ==
    LET asked == said[c]
        request(is(_)) == SelectSeq(asked, is)[k]
        any(r) == TRUE
    IN CASE system.name = "palindromes" -> answer = Results(request(LAMBDA r : r # Halt))
         [] system.name = "texts" -> answer = TextReply(request(any))
         [] system.name = "statistics" -> answer \in StatisticsOf(request(any))
         [] system.name = "permutations" -> answer = "Server processed your string."
         [] system.name = "students" -> answer = StudentAnswer(request(any))
         [] system.name = "hierarchy" -> \E tail \in Uninitialised : answer = AuthAnswer \o tail
         [] system.name = "resolver" -> answer = IF k = 1 THEN resolve(asked[1]) ELSE "welcome"
         [] system.name \in Lectures -> TRUE
         [] system.name = "website" -> answer = handle_request(request(LAMBDA r : r # <<"exit">>))
         [] system.name \in {"concurrent", "socket names", "threads"} ->
              \/ answer = AnswerOf(request(any)[1])
              \/ /\ answer = Blank
                 /\ \/ system.name = "threads" /\ Gone
                    \/ system.name = "concurrent" /\ Contains(SubSeq(asked, 1, k), Long)
                    \/ system.name # "threads" /\ \A j \in 1 .. k : shown[c][j] = Blank
         [] system.name = "super-server" ->
              answer = <<<<"message", "?">>, <<"time", "?">>, <<"MESSAGE">>>>[Choice(c)]
         [] system.name = "printf" ->
              /\ Head(answer) = Greeting[1]
              /\ Len(answer) < MAXSIZE => SubSeq(answer, Len(answer) - 1, Len(answer)) = Mark
         [] system.name = "syslog daemon" ->
              IF answer = <<"hello">> THEN Len(disk.log) >= StdioCap
              ELSE answer = Greeting \o <<" (ACK by Daemon)">>

(* Each client is shown the answers to its own requests, in their order    *)
(* and each one once, whatever other clients do and whatever datagram is   *)
(* lost; only the syslog daemon hands a client what it printed before, and *)
(* not before stdio has held back what the first connections made it print. *)
(* A client that goes on after the end of its connection shows a blank: if  *)
(* no process was made for it, from the first on, and otherwise only after  *)
(* an overrun has ended the process.                                        *)
AnswersOwn ==
    \A c \in Clients : \A k \in DOMAIN shown[c] : Fits(c, k, shown[c][k])

(* Lectures are heard in order and none of them twice, by receivers that   *)
(* join and leave while they are given: what follows a lecture on the      *)
(* screen is the end of an older one.                                      *)
LecturesInOrder ==
    system.name \in Lectures =>
        \A c \in Clients : \A j, k \in DOMAIN shown[c] :
            j < k => shown[c][j][1] < shown[c][k][1]

(* A server ends in four cases only: the palindrome server when a user has  *)
(* typed Halt; the syslog daemon once stdio is full, if its client leaves;  *)
(* the printf daemon once the marks of its clients overrun its buffer; and  *)
(* the server with threads when a user has typed a line that leaves no room *)
(* in the buffer for the acknowledgement.                                   *)
Typed(line) == \E c \in Clients : Contains(said[c], line)

EndsFor ==
    \/ system.name = "palindromes" /\ Typed(Halt)
    \/ system.name = "syslog daemon" /\ Len(disk.log) >= StdioCap
    \/ system.name = "printf" /\ Len(var["server"]) > MAXSIZE
    \/ system.name = "threads" /\ Typed(Long)

ServerOutlivesClients == [][~Gone /\ Gone' => EndsFor]_vars

(* A server that goes back to wait for a connection has given up every     *)
(* other to a child, a thread or the end: no descriptor is lost, and what  *)
(* a client and the child that served it have left is closed.  (A thread   *)
(* shares the descriptors of its process.)                                 *)
ConnectionsReleased ==
    \A i \in DOMAIN conn :
        /\ pc["server"] \in {"accept", "select"} /\ system.name # "threads"
           => "server" \notin conn[i].by["s"]
        /\ \A p \in conn[i].by["s"] \ {"kernel"} :
             \E q \in Procs : task[q] = p /\ fd[q].conn = i /\ pc[q] # "done"

-----------------------------------------------------------------------------
Waits(c) == pc[c] \in {"resolved", "reply"}

(* Who waits in vain: a client of the resolver that asked for nothing, or  *)
(* talks to an address where nobody is, or no longer is, or whose user has *)
(* not answered; and a client of the super-server, as long as that waits   *)
(* for a connection to the port of another service; and whoever is left to *)
(* a daemon or a thread that an overrun has cost its descriptors.          *)
InVain(c) ==
    \/ /\ system.name = "resolver"
       /\ \/ pc[c] = "resolved" /\ said[c] = <<Nothing>>
          \/ pc[c] = "reply" /\ \/ shown[c][1] # "w1"
                                \/ pc["w1"] \in {"type", "done"}
    \/ /\ system.name = "super-server"
       /\ pc["server"] = "accept"
       /\ Called(Head(var["server"])) = {}
    \/ pc["server"] = "lost"
    \/ \E w \in Workers : pc[w] = "lost" /\ fd[w].conn = fd[c].conn

(* When no datagram is lost, every request is answered, or its connection   *)
(* ends, as long as the server is there; no other client, silent, slow or   *)
(* gone, holds it up.                                                       *)
RequestsAnswered ==
    \A c \in Clients : (~system.lossy /\ Waits(c)) ~> (~Waits(c) \/ Gone \/ InVain(c))

(* A lost datagram holds up only its own client: what arrives is served.   *)
(* Only the local server of the hierarchy can wait for what was lost.      *)
ArrivedServed ==
    (system.name # "hierarchy" /\ mail["server"] # <<>>) ~> (mail["server"] = <<>> \/ Gone)

(* Both: who asks is answered unless a datagram is lost, and no server     *)
(* stops serving because one is.                                           *)
EveryoneServed == RequestsAnswered /\ ArrivedServed

(* A receiver that waits when a lecture is given hears it: it is shown all  *)
(* up to the last one given, and any lecture may be the last.              *)
LecturesHeard ==
    \A c \in Clients :
        (/\ system.name \in Lectures /\ ~system.lossy
         /\ pc[c] = "recv" /\ pc["server"] = "send")
        ~> (\/ pc[c] # "recv"
            \/ \E k \in DOMAIN shown[c] : shown[c][k][1] = Len(said["server"]))
=============================================================================
