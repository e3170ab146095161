------------------------------ MODULE TurnTaking ------------------------------
(***************************************************************************)
(* The programs in which the two sides take turns: the conversations and   *)
(* first servers of Lab01, and the half-duplex chat for Windows of Unit 6. *)
(* A word of two segments or more is one that a read can return in parts.  *)
(***************************************************************************)
EXTENDS Sockets

CONSTANT MaxRounds   \* bound: rounds of the echo server, decided by garbage

word == <<"word">>
stop == <<"stop">>
(* A word longer than the client's 50 bytes, which are two segments.       *)
long == <<"head", "middle", "rest">>

Hears(x, w) == buf[x] # <<>> /\ buf[x][1] = w[1]

(* A fault: stop is looked for before it is sent.                          *)
TalkServerStopsSilently(x) ==
    \/ Accept(x, "accept", "recv")
    \/ Receive(x, "recv", 3, TRUE, "heard", "type", "close")
    \/ Jump(x, "heard", IF Hears(x, stop) THEN "end" ELSE "type")
    \/ CloseListener(x, "close", "close_new")
    \/ Close(x, "close_new", "type")
    \/ Type(x, "type", {word, stop, long}, "send")
    \/ var[x] # stop /\ Send(x, "send", var[x], "recv")
    \/ var[x] = stop /\ Jump(x, "send", "end")
    \/ Exit(x, "end")

(* Lab01/Conversation_Server_TCP.c: the buffer is cleared before each use, *)
(* the end of the stream is taken for an empty word.                       *)
TalkServer(x) ==
    \/ Accept(x, "accept", "recv")
    \/ Receive(x, "recv", 3, TRUE, "heard", "type", "close")
    \/ Jump(x, "heard", IF Hears(x, stop) THEN "end" ELSE "type")
    \/ CloseListener(x, "close", "close_new")
    \/ Close(x, "close_new", "type")
    \/ Type(x, "type", {word, stop, long}, "send")
    \/ Send(x, "send", var[x], IF var[x] = stop THEN "end" ELSE "recv")
    \/ Exit(x, "end")

(* A fault: the client asks its user again before the answer is in.         *)
TalkClientEager(x) ==
    \/ Connect(x, "connect", "type", "done")
    \/ Type(x, "type", {word, stop}, "send")
    \/ Send(x, "send", var[x], IF var[x] = stop THEN "end" ELSE "type")
    \/ Exit(x, "end")

(* Lab01/Conversation_Client_TCP.c: the result of recv is not looked at.   *)
TalkClient(x) ==
    \/ Connect(x, "connect", "type", "done")
    \/ Type(x, "type", {word, stop}, "send")
    \/ Send(x, "send", var[x], IF var[x] = stop THEN "end" ELSE "recv")
    \/ RecvPrint(x, "recv", 2, "heard", "type")
    \/ Jump(x, "heard", IF Hears(x, stop) THEN "end" ELSE "type")
    \/ Exit(x, "end")

(* Lab01/Conversation_Server_UDP.c and Conversation_Client_UDP.c.           *)
(* A fault: the server goes back to recv when it has shown the word.        *)
TalkServerForgets(x) ==
    \/ RecvFromPrint(x, "recv", 3, "heard")
    \/ Jump(x, "heard", IF Hears(x, stop) THEN "end" ELSE "recv")
    \/ Exit(x, "end")

Lossy == system = "talk_udp_lossy"

TalkServerUDP(x) ==
    \/ RecvFromPrint(x, "recv", 3, "heard")
    \/ Jump(x, "heard", IF Hears(x, stop) THEN "end" ELSE "type")
    \/ Type(x, "type", {word, stop, long}, "send")
    \/ SendTo(x, "send", peer[x], var[x], Lossy, IF var[x] = stop THEN "end" ELSE "recv")
    \/ Exit(x, "end")

TalkClientUDP(x) ==
    \/ Type(x, "type", {word, stop}, "send")
    \/ SendTo(x, "send", "server", var[x], Lossy, IF var[x] = stop THEN "end" ELSE "recv")
    \/ RecvFromPrint(x, "recv", 2, "heard")
    \/ Jump(x, "heard", IF Hears(x, stop) THEN "end" ELSE "type")
    \/ Exit(x, "end")

(* Lab01/server.c and client.c: one word each way, always whole buffers,   *)
(* of 50 bytes from the client and 90 from the server.                     *)
FirstServer(x) ==
    \/ Accept(x, "accept", "recv")
    \/ RecvPrint(x, "recv", 1, "type", "type")
    \/ Type(x, "type", {word, long}, "send")
    \/ Send(x, "send", <<var[x][1], "padding">>, "close")
    \/ Exit(x, "close")

FirstClient(x) ==
    \/ Connect(x, "connect", "type", "type")
    \/ Type(x, "type", {word}, "send")
    \/ Send(x, "send", var[x], "recv")
    \/ RecvPrint(x, "recv", 1, "close", "close")
    \/ Exit(x, "close")

(* Lab01/udp_server.c echoes as many datagrams as an uninitialised buffer  *)
(* has characters; the next thing the client gets is a line of the server's *)
(* user.  Before any datagram the client's address is a preset one.        *)
EchoServer(x) ==
    \/ \E rounds \in 0 .. MaxRounds : Assign(x, "start", <<"rounds", rounds>>, "loop")
    \/ Jump(x, "loop", IF var[x][2] = 0 THEN "type" ELSE "recv")
    \/ RecvFromPrint(x, "recv", 1, "echo")
    \/ SendTo(x, "echo", "client", buf[x], FALSE, "next")
    \/ Assign(x, "next", [var[x] EXCEPT ![2] = @ - 1], "loop")
    \/ Type(x, "type", {word}, "send")
    \/ SendTo(x, "send", "client", var[x], FALSE, "close")
    \/ Exit(x, "close")

(* A fault: the client does not send the NUL.                              *)
EchoClientShort(x) ==
    \/ Type(x, "start", {<<"a">>, <<"a", "b">>}, "send")
    \/ SendTo(x, "send", "server", <<said[x][1][Len(shown[x]) + 1]>>, FALSE, "recv")
    \/ RecvFromPrint(x, "recv", 1, "loop")
    \/ Jump(x, "loop", IF Len(shown[x]) >= Len(said[x][1]) THEN "close" ELSE "send")
    \/ Exit(x, "close")

(* Lab01/udp_client.c sends each character of the line and its NUL.         *)
EchoClient(x) ==
    \/ Type(x, "start", {<<"a">>, <<"a", "b">>}, "send")
    \/ SendTo(x, "send", "server",
              <<(said[x][1] \o <<"NUL">>)[Len(shown[x]) + 1]>>, FALSE, "recv")
    \/ RecvFromPrint(x, "recv", 1, "loop")
    \/ Jump(x, "loop", IF Len(shown[x]) > Len(said[x][1]) THEN "close" ELSE "send")
    \/ Exit(x, "close")

(* Windows-based/Half-Duplex: a turn each; only SOCKET_ERROR ends the loop, *)
(* the end of the stream is taken for an empty message.                    *)
WinTurnServer(x) ==
    \/ Accept(x, "accept", "recv")
    \/ Receive(x, "recv", 2, TRUE, "type", "type", "close")
    \/ Type(x, "type", {word}, "send")
    \/ SendWindows(x, "send", var[x], "recv")
    \/ Exit(x, "close")

WinTurnClient(x) ==
    \/ Connect(x, "connect", "type", "done")
    \/ Type(x, "type", {word}, "send")
    \/ SendWindows(x, "send", var[x], "recv")
    \/ Receive(x, "recv", 2, TRUE, "type", "type", "close")
    \/ Exit(x, "close")

(* The portable programs of Unit 6: one greeting, one answer.               *)
GreetingServer(x) ==
    \/ Accept(x, "accept", "recv")
    \/ RecvPrint(x, "recv", 2, "send", "close")
    \/ Send(x, "send", <<"Hello, Client!">>, "close")
    \/ Exit(x, "close")

GreetingClient(x) ==
    \/ Connect(x, "connect", "send", "done")
    \/ Send(x, "send", <<"Hello, Server!">>, "recv")
    \/ RecvPrint(x, "recv", 2, "close", "close")
    \/ Exit(x, "close")

-----------------------------------------------------------------------------
TCPTurns == {"talk", "first", "win_turn", "greeting"}
UDPTurns == {"talk_udp", "talk_udp_lossy", "echo"}

TurnInit ==
    /\ system \in TCPTurns \cup UDPTurns
    /\ LET first == CASE system \in TCPTurns -> <<"accept", "connect">>
                      [] system = "echo" -> <<"start", "start">>
                      [] OTHER -> <<"recv", "type">>
       IN SocketsInit([p \in Procs |-> CASE p = "server" -> first[1]
                                         [] p = "client" -> first[2]
                                         [] OTHER -> "none"],
                      IF system \in TCPTurns THEN {"server"} ELSE {}, <<>>)

TurnProgram(x) ==
    \/ x = "server" /\ system = "talk" /\ TalkServer(x)
    \/ x = "client" /\ system = "talk" /\ TalkClient(x)
    \/ x = "server" /\ system \in {"talk_udp", "talk_udp_lossy"} /\ TalkServerUDP(x)
    \/ x = "client" /\ system \in {"talk_udp", "talk_udp_lossy"} /\ TalkClientUDP(x)
    \/ x = "server" /\ system = "first" /\ FirstServer(x)
    \/ x = "client" /\ system = "first" /\ FirstClient(x)
    \/ x = "server" /\ system = "echo" /\ EchoServer(x)
    \/ x = "client" /\ system = "echo" /\ EchoClient(x)
    \/ x = "server" /\ system = "win_turn" /\ WinTurnServer(x)
    \/ x = "client" /\ system = "win_turn" /\ WinTurnClient(x)
    \/ x = "server" /\ system = "greeting" /\ GreetingServer(x)
    \/ x = "client" /\ system = "greeting" /\ GreetingClient(x)

TurnNext ==
    /\ system \in TCPTurns \cup UDPTurns
    /\ \E x \in {"server", "client"} : TurnProgram(x) \/ Interrupt(x, {x})

-----------------------------------------------------------------------------
Typed(x, m) == \E k \in DOMAIN said[x] : said[x][k] = m
Left == \E x \in {"server", "client"} : Typed(x, <<"^C">>)

(* The talk over TCP has no message boundaries: a word of the server's     *)
(* user that exceeds the client's buffer is read in several turns, and     *)
(* from then on every answer the client shows belongs to an earlier turn.  *)
(* That is the only way to fall out of step.  Over UDP the word is cut,    *)
(* and the turns stay in step even when a datagram is lost.                *)
OverlongWord == system = "talk" /\ Typed("server", long)
ClientBuffer == IF system = "first" THEN 1 ELSE 2

WordsInStep ==
    /\ system \in {"talk", "talk_udp", "talk_udp_lossy", "first", "win_turn"}
    /\ ~Left /\ ~OverlongWord
    /\ said["client"] # <<>>
    /\ pc["client"] = "type" \/ (system = "first" /\ pc["client"] = "close")
    => /\ Len(said["server"]) = Len(said["client"])
       /\ LET answer == said["server"][Len(said["server"])] IN
          buf["client"] = IF Len(answer) <= ClientBuffer THEN answer
                          ELSE SubSeq(answer, 1, ClientBuffer)

(* As long as nobody leaves and nothing is lost, the two sides never both  *)
(* wait for the other, not even out of step.                               *)
SomebodysTurn ==
    system \in {"talk", "talk_udp", "win_turn"} /\ ~Left =>
        ~ /\ pc["client"] = "recv" /\ pc["server"] = "recv"
          /\ \A x \in {"server", "client"} : mail[x] = <<>>
          /\ \A i \in 1 .. MaxConns, e \in Ends : conn[i].in[e] = <<>>

(* Lab01/guide.md:113, the chat lasts until one side types stop: both      *)
(* programs end, and no user has to type anything more.                    *)
StopEndsBoth ==
    (/\ system \in {"talk", "talk_udp"}
     /\ \E x \in {"server", "client"} : Typed(x, stop)
     /\ ~OverlongWord)
       ~> (Left \/ \A x \in {"server", "client"} : pc[x] = "done")

(* The echo server and its client both come to an end only if the garbage  *)
(* in the server's buffer is as long as the client's line, or one longer:  *)
(* otherwise one of them waits for ever.                                   *)
EchoRoundsFit ==
    /\ system = "echo" /\ ~Left
    /\ pc["client"] = "done" /\ pc["server"] = "done"
    => Len(shown["server"]) - Len(said["client"][1]) \in {0, 1}
=============================================================================
