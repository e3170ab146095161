--------------------------------- MODULE Chat ---------------------------------
(***************************************************************************)
(* The full-duplex chats: Lab03/quo1 over a UNIX socket and those of Unit  *)
(* 6, with a process or a thread that reads while another one types.  Each *)
(* definition is one program: x the process that types, r the one that     *)
(* reads.                                                                  *)
(***************************************************************************)
EXTENDS Sockets

Sides == {"server", "client"}
PeerOf(x) == IF x = "server" THEN "client" ELSE "server"
ReaderOf(x) == IF x = "server" THEN "server_reader" ELSE "client_reader"
ASSUME ChatAssumption ==
    {"server", "client", "server_reader", "client_reader"} \subseteq Procs /\ "kernel" \notin Procs

hi == <<"hi">>
exit == <<"exit">>

(* A fault: the parent kills its child before it exits.                    *)
ChatChildKilled(x, r) ==
    \/ Fork(x, "fork", {r}, "read", "type")
    \/ Type(x, "type", {hi, exit}, "write")
    \/ SendUnix(x, "write", var[x], IF var[x] = exit THEN "close" ELSE "type")
    \/ At(x, "close") /\ Kill({x, r})
    \/ RecvPrint(r, "read", 2, "read", "gone")
    \/ Exit(r, "gone")

(* Lab03/quo1: the typed line is sent first, and exit ends the parent.     *)
ChatLoops(x, r) ==
    \/ Fork(x, "fork", {r}, "read", "type")
    \/ Type(x, "type", {hi, exit}, "write")
    \/ SendUnix(x, "write", var[x], IF var[x] = exit THEN "close" ELSE "type")
    \/ Exit(x, "close")
    \/ RecvPrint(r, "read", 2, "read", "gone")
    \/ Exit(r, "gone")

ChatServer(x, r) == Accept(x, "accept", "fork") \/ ChatLoops(x, r)
ChatClient(x, r) == Connect(x, "connect", "fork", "close") \/ ChatLoops(x, r)

(* Unit 6 with fork: no line ends the loop.                                *)
ForkChatLoops(x, r) ==
    \/ Fork(x, "fork", {r}, "recv", "type")
    \/ Type(x, "type", {hi}, "send")
    \/ Send(x, "send", var[x], "type")
    \/ RecvPrint(r, "recv", 2, "recv", "close")
    \/ Exit(r, "close")

ForkChatServer(x, r) == Accept(x, "accept", "fork") \/ ForkChatLoops(x, r)
ForkChatClient(x, r) == Connect(x, "connect", "fork", "done") \/ ForkChatLoops(x, r)

(* A fault: only a failed recv ends the reader.                            *)
ThreadReadsOn(x, r) ==
    \/ Thread(x, "threads", {r}, "recv", "type")
    \/ Type(x, "type", {hi, exit}, "send")
    \/ var[x] = exit /\ Jump(x, "send", "close")
    \/ var[x] = hi /\ Send(x, "send", var[x], "type")
    \/ Exit(x, "close")
    \/ Receive(r, "recv", 2, TRUE, "recv", "recv", "return")
    \/ Return(r, "return")

(* Unit 6 with threads: exit is not sent; main joins the sending thread    *)
(* only, so that its end is the end of the process.                        *)
ThreadLoops(x, r) ==
    \/ Thread(x, "threads", {r}, "recv", "type")
    \/ Type(x, "type", {hi, exit}, "send")
    \/ var[x] = exit /\ Jump(x, "send", "close")
    \/ var[x] = hi /\ Send(x, "send", var[x], "type")
    \/ Exit(x, "close")
    \/ RecvPrint(r, "recv", 2, "recv", "return")
    \/ Return(r, "return")

ThreadChatServer(x, r) == Accept(x, "accept", "threads") \/ ThreadLoops(x, r)
ThreadChatClient(x, r) ==
    Connect(x, "connect", "threads", "done") \/ ThreadLoops(x, r)

(* The same for Windows.                                                   *)
WinLoops(x, r) ==
    \/ Thread(x, "threads", {r}, "recv", "type")
    \/ Type(x, "type", {hi, exit}, "send")
    \/ var[x] = exit /\ Jump(x, "send", "close")
    \/ var[x] = hi /\ SendWindows(x, "send", var[x], "type")
    \/ Exit(x, "close")
    \/ RecvPrint(r, "recv", 2, "recv", "return")
    \/ Return(r, "return")

WinChatServer(x, r) == Accept(x, "accept", "threads") \/ WinLoops(x, r)
WinChatClient(x, r) == Connect(x, "connect", "threads", "done") \/ WinLoops(x, r)

(* The "half-duplex" programs of Unit 6 are full duplex too.  Their reading *)
(* thread closes the descriptor that the other one sends on.               *)
HalfDuplexLoops(x, r) ==
    \/ Thread(x, "thread", {r}, "read", "type")
    \/ Type(x, "type", {hi}, "send")
    \/ Send(x, "send", var[x], "type")
    \/ RecvPrint(r, "read", 2, "read", "close")
    \/ Close(r, "close", "return")
    \/ Return(r, "return")

HalfDuplexServer(x, r) == Accept(x, "accept", "thread") \/ HalfDuplexLoops(x, r)
HalfDuplexClient(x, r) ==
    Connect(x, "connect", "thread", "done") \/ HalfDuplexLoops(x, r)

(* Ctrl-C reaches the child of a fork as well, as long as its parent is in *)
(* the foreground.                                                         *)
Leave(x) == Interrupt(x, {x, ReaderOf(x)})

-----------------------------------------------------------------------------
ChatSystems == {"chat", "fork_chat", "thread_chat", "win_chat", "half_duplex"}

ChatInit ==
    /\ system \in ChatSystems
    /\ SocketsInit([p \in Procs |-> CASE p = "server" -> "accept"
                                      [] p = "client" -> "connect"
                                      [] OTHER -> "none"],
                   {"server"}, <<>>)

ChatProgram(x) ==
    LET r == ReaderOf(x) IN
    \/ system = "chat" /\ x = "server" /\ ChatServer(x, r)
    \/ system = "chat" /\ x = "client" /\ ChatClient(x, r)
    \/ system = "fork_chat" /\ x = "server" /\ ForkChatServer(x, r)
    \/ system = "fork_chat" /\ x = "client" /\ ForkChatClient(x, r)
    \/ system = "thread_chat" /\ x = "server" /\ ThreadChatServer(x, r)
    \/ system = "thread_chat" /\ x = "client" /\ ThreadChatClient(x, r)
    \/ system = "win_chat" /\ x = "server" /\ WinChatServer(x, r)
    \/ system = "win_chat" /\ x = "client" /\ WinChatClient(x, r)
    \/ system = "half_duplex" /\ x = "server" /\ HalfDuplexServer(x, r)
    \/ system = "half_duplex" /\ x = "client" /\ HalfDuplexClient(x, r)

ChatNext ==
    /\ system \in ChatSystems
    /\ \E x \in Sides : ChatProgram(x) \/ Leave(x)

-----------------------------------------------------------------------------
(* A reader ends when every descriptor of the other end is closed, and     *)
(* exit closes only the parent's: in Lab03/quo1 no exit ever ends a reader, *)
(* on either side.  After both users have typed exit the two children read *)
(* from each other for ever.  Only Ctrl-C ends one.                        *)
Interrupted == \E x \in Sides : \E k \in DOMAIN said[x] : said[x][k] = <<"^C">>

ExitLeavesReaders ==
    system = "chat" /\ ~Interrupted =>
        \A x \in Sides : pc[ReaderOf(x)] \notin {"gone", "done"}

(* With threads the end of one process is noticed by the other one's       *)
(* reader.                                                                 *)
ExitSeen ==
    \A x \in Sides :
        (/\ system \in {"thread_chat", "win_chat"}
         /\ pc[x] = "done"
         /\ pc[ReaderOf(PeerOf(x))] # "none")
            ~> pc[ReaderOf(PeerOf(x))] = "done"

(* With processes nothing that a user typed is lost or changes its order,  *)
(* whoever leaves when: the reader outlives the typing parent.  (A thread  *)
(* dies with its process, with words still unread.)                        *)
LastWordsShown ==
    system \in {"chat", "fork_chat"} =>
        <>[](\/ Interrupted
             \/ \A x \in Sides : shown[ReaderOf(PeerOf(x))] =
                                  [k \in DOMAIN said[x] |-> said[x][k][1]])
=============================================================================
