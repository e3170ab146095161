----------------------------- MODULE StreamServers -----------------------------
(***************************************************************************)
(* The request servers over TCP with their clients, one of them in each    *)
(* behaviour, and what they promise.  Any client may leave at any time; so *)
(* may the server.                                                         *)
(***************************************************************************)
EXTENDS FieldServers, FileServers, TextServers, ForkServers, FrameServers

CONSTANTS Clients, Workers
ASSUME ClientsAssumption == Clients \subseteq Procs
ASSUME WorkersAssumption == Workers \subseteq Procs \ (Clients \cup {"server"})
ASSUME ServerAssumption == "server" \in Procs \ Clients /\ "kernel" \notin Procs
ASSUME VariedAssumption == Varied \subseteq Clients

Sessions == {"arrays", "sort", "files", "texts", "statistics", "dns", "address", "pair"}
Judges == {"parity", "crc", "hamming"}
Systems == Sessions \cup Judges \cup {"calculator", "students"}

Init ==
    /\ system \in Systems
    /\ SocketsInit([p \in Procs |-> IF p = "server" THEN "accept"
                                    ELSE IF p \in Clients THEN "connect" ELSE "none"],
                   {"server"}, IF system \in {"files", "texts"} THEN Files ELSE <<>>)

Server(x) ==
    \/ system = "arrays" /\ ArrayServer(x)
    \/ system = "sort" /\ SortServer(x)
    \/ system = "calculator" /\ CalcServer(x)
    \/ system = "files" /\ FileServer(x)
    \/ system = "texts" /\ TextServer(x)
    \/ system = "statistics" /\ StatisticsServer(x)
    \/ system = "dns" /\ DnsServer(x)
    \/ system = "address" /\ AddressServer(x)
    \/ system = "students" /\ StudentServer(x, Workers)
    \/ system = "pair" /\ PairServer(x, Workers)
    \/ system = "parity" /\ ParityServer(x)
    \/ system = "crc" /\ CrcServer(x)
    \/ system = "hamming" /\ HammingServer(x)

Client(x) ==
    \/ system = "arrays" /\ ArrayClient(x)
    \/ system = "sort" /\ SortClient(x)
    \/ system = "calculator" /\ CalcClient(x)
    \/ system = "files" /\ FileClient(x)
    \/ system = "texts" /\ TextClient(x)
    \/ system = "statistics" /\ StatisticsClient(x)
    \/ system = "dns" /\ DnsClient(x)
    \/ system = "address" /\ AddressClient(x)
    \/ system = "students" /\ StudentClient(x)
    \/ system = "pair" /\ PairClient(x)
    \/ system = "parity" /\ ParityClient(x)
    \/ system = "crc" /\ CrcClient(x)
    \/ system = "hamming" /\ HammingClient(x)

Programs == Server("server") \/ \E c \in Clients : Client(c)

(* A user who leaves; the one of the server only if it ends no other way,  *)
(* or if there is a file to lose.                                          *)
Leave ==
    \/ \E c \in Varied : Quit(c)
    \/ system \in {"calculator", "files", "texts"} /\ Interrupt("server", {"server"})

Next == Programs \/ Leave

(* As long as some process can go on without its user, one does.           *)
Spec ==
    /\ Init
    /\ [][Next]_vars
    /\ WF_vars(Programs /\ said' = said)

-----------------------------------------------------------------------------
Gone == pc["server"] = "done"
Stopped == said["server"] # <<>>
Kept(c) == conn[fd[c].conn].by["s"]
Connected(c) == fd[c].conn # 0
Accepted(c) == Connected(c) /\ Kept(c) \notin {{}, {"kernel"}}

(* The answers to the requests of client c, in order.  Each is a set: more *)
(* than one where the code reads what it never wrote.                      *)
Answers(c) ==
    LET asked == said[c]
        each(is(_), answer(_)) ==
          [k \in 1 .. Len(SelectSeq(asked, is)) |-> {answer(SelectSeq(asked, is)[k])}]
    IN CASE system = "arrays" ->
              each(LAMBDA r : r[1][2] <= 3, ArrayAnswer)
         [] system = "sort" ->
              each(LAMBDA r : TRUE, LAMBDA r : IF Len(r) = 1 THEN <<>>
                                               ELSE <<<<"sorted", Ascending(r[2][2])>>>>)
         [] system = "calculator" ->
              each(LAMBDA r : r[1] # 4,
                   LAMBDA r : Displayed(Calculated(Packet(r, <<<<>>, <<>>, <<>>>>, "")), r[1]))
         [] system \in {"files", "texts"} ->
              [k \in DOMAIN asked |-> {Reply(Outcome(Before(asked, k - 1), asked[k]).reply)[1]}]
         [] system = "statistics" -> [k \in DOMAIN asked |-> StatisticsOf(asked[k])]
         [] system = "dns" ->
              each(LAMBDA r : r # <<>>, LAMBDA r : search_dns(r[1]))
         [] system = "students" -> each(LAMBDA r : TRUE, StudentAnswer)
         [] system = "pair" -> <<{<<"child", <<49, 50>>>>}, {<<"parent", <<98, 97>>>>}>>
         [] system = "parity" -> IF Len(asked) < 2 THEN <<>> ELSE <<{ParityVerdict(asked)}>>
         [] system = "crc" -> each(LAMBDA r : TRUE, CrcVerdict)
         [] system = "hamming" -> each(LAMBDA r : TRUE, HammingVerdict)
         [] system = "address" -> <<>>

(* What a client may show when its read has failed, its variables as they  *)
(* were: the results of several clients of recv and read are not looked at. *)
LeftOver(c, k, answer) ==
    CASE system = "arrays" -> answer = stale
      [] system = "sort" -> answer = Tail(said[c][1])
      [] system = "calculator" ->
           \/ answer = <<"error", "garbage">>
           \/ answer # <<>> /\ answer[1] = "result" /\ answer[3] = <<>>
           \/ \E j \in 1 .. k - 1 : answer = shown[c][j]
      [] system \in {"files", "texts"} -> answer = <<>>
      [] system \in {"statistics", "dns", "students", "pair", "address"} \cup Judges -> FALSE

(* Each client shows the answers to its own requests, in their order and   *)
(* each one once, whatever other clients ask in between.  Only when the    *)
(* server has gone does it show something else: what its variables held.   *)
AnswersOwn ==
    \A c \in Clients : \A k \in DOMAIN shown[c] :
        \/ k \in DOMAIN Answers(c) /\ shown[c][k] \in Answers(c)[k]
        \/ Gone /\ LeftOver(c, k, shown[c][k])

(* The next field that arrives is the one that is read next: neither side  *)
(* ever takes a field for another, whatever the choices and sizes.         *)
FieldNames == {"choice", "size", "array", "key", "order", "found", "odd_count", "even_count",
               "odd_arr", "even_arr", "n", "arr", "sorted", "filename", "status", "str1",
               "str2", "reply", "option", "data", "parity_choice", "frame", "generator",
               "total_len", "code"}

FieldsInStep ==
    system \in {"arrays", "sort", "files"} \cup Judges =>
        \A p \in Clients \cup {"server"} :
            /\ pc[p] \in FieldNames
            /\ Open(p)
            /\ Arrived(p) # <<>>
            => Arrived(p)[1][1] = pc[p]

(* Between two requests the file is what the complete requests made of it, *)
(* with one exception: a client of Lab02/files that leaves before it has   *)
(* sent the words of a replacement has the server replace all the same,    *)
(* with the words its variables held.                                      *)
Served == CHOOSE c \in Clients : fd[c].conn = 1

BrokenOff(c) ==
    LET n == Len(said[c])
        words(name) == {absent} \cup {Value(said[c][k], name) : k \in 1 .. n}
    IN /\ system = "files" /\ pc[c] = "done"
       /\ Value(said[c][n], "choice") = 2
       /\ \E w \in words("str1"), by \in words("str2") :
            disk.file = TokensReplaced(Before(said[c], n - 1), w, by)

ChangesAsTyped ==
    /\ system \in {"files", "texts"}
    /\ pc["server"] \in {"choice", "read", "close"}
    => \/ disk.file = Content
       \/ \E k \in 0 .. Len(said[Served]) : disk.file = Before(said[Served], k)
       \/ BrokenOff(Served)

(* A replacement in Lab02/files never loses the file, even if the server is *)
(* stopped in the middle of it: the new text is complete before the old one *)
(* is removed.  (Reordering, and quo1, empty the file before they write it.) *)
ContentsSurvive ==
    /\ system = "files"
    /\ \A c \in Clients : \A k \in DOMAIN said[c] : said[c][k] # Reorder
    => disk.file # absent \/ disk.temp # absent

(* Both: at rest the file is as the requests have it, and between two      *)
(* steps of a request it is not lost.                                      *)
FilesKept == ChangesAsTyped /\ ContentsSurvive

(* A server for several clients is not ended by one of them, wherever it   *)
(* leaves: it never sends twice to a connection that was reset.            *)
ServerOutlivesClients ==
    system \in {"calculator", "students"} \cup Judges /\ ~Stopped => ~Gone

-----------------------------------------------------------------------------
ReplyNames == {"found", "array", "odd_count", "even_count", "odd_arr", "even_arr", "sorted",
               "status", "reply", "verdict"} \cup (IF system = "calculator" THEN {"read"} ELSE {})

Waits(c) == pc[c] \in ReplyNames

(* Nothing comes of a choice the client does not send, or the server does  *)
(* not answer, and of an empty line: both sides wait, until somebody goes. *)
Unanswered(c) ==
    CASE system = "files" -> Last(said[c]) = Unknown
      [] system = "texts" -> Last(said[c]) = Unknown
      [] system = "dns" -> Last(said[c]) = EmptyLine
      [] system \notin {"files", "texts", "dns"} -> FALSE

(* A connection the student server keeps while it is with another: it had  *)
(* no child for it.                                                        *)
Unserved(c) ==
    /\ system = "students"
    /\ "server" \in Kept(c)
    /\ fd["server"].conn # fd[c].conn \/ pc["server"] = "accept"

(* A client whose connection was accepted gets its answer, or notices that *)
(* the server has gone; with two exceptions: a generator and a frame that  *)
(* are read as one, and a student for whom no child could be made, who     *)
(* waits for ever.                                                         *)
RequestsAnswered ==
    \A c \in Clients :
        (/\ Waits(c) /\ Accepted(c)
         /\ said[c] # <<>> => ~Unanswered(c))
           ~> (~Waits(c) \/ Stopped \/ Merged \/ Unserved(c))

(* A server for one session ends when its client has gone, and then the    *)
(* client that waits behind it is turned away.                             *)
SessionsEnd ==
    \A c \in Clients :
        /\ (system \in Sessions /\ fd[c].conn = 1 /\ pc[c] = "done") ~> Gone
        /\ (system \in Sessions /\ Gone /\ Waits(c)) ~> ~Waits(c)
=============================================================================
