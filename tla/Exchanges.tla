------------------------------- MODULE Exchanges -------------------------------
(***************************************************************************)
(* One connection and at most one exchange: the blocking and non-blocking  *)
(* sockets of Unit 6, the connect with a timeout of Unit 7, the Winsock    *)
(* programs of Unit 5.  A poll that finds nothing and sleeps changes       *)
(* nothing, so that polling is a wait.                                     *)
(***************************************************************************)
EXTENDS Sockets

(* Blocking: the server reads and closes, the client waits for a reply.    *)
BlockingServer(x) ==
    \/ Accept(x, "accept", "recv")
    \/ RecvPrint(x, "recv", 1, "close", "close")
    \/ Exit(x, "close")

BlockingClient(x) ==
    \/ Connect(x, "connect", "send", "done")
    \/ Send(x, "send", <<"Hello from Blocking Client">>, "recv")
    \/ RecvPrint(x, "recv", 1, "close", "close")
    \/ Exit(x, "close")

(* Non-blocking: neither says a word.  A refused connect shows in recv.    *)
PollingServer(x) ==
    \/ Accept(x, "accept", "close_new")
    \/ Close(x, "close_new", "close")
    \/ Exit(x, "close")

(* A fault: 0 is taken for "no data yet".                                  *)
PollingClientGoesOn(x) ==
    \/ Connect(x, "connect", "recv", "recv")
    \/ Receive(x, "recv", 1, TRUE, "close", "recv", "close")
    \/ Exit(x, "close")

PollingClient(x) ==
    \/ Connect(x, "connect", "recv", "recv")
    \/ RecvPrint(x, "recv", 1, "close", "close")
    \/ Exit(x, "close")

(* SO_ERROR tells whether the connect that select waited for has failed.   *)
(* The results of send and of the client's recv are not looked at.         *)
SelectServer(x) ==
    \/ Accept(x, "accept", "recv")
    \/ RecvPrint(x, "recv", 1, "type", "close")
    \/ Type(x, "type", {<<"reply">>}, "send")
    \/ Send(x, "send", var[x], "close")
    \/ Exit(x, "close")

SelectClient(x) ==
    \/ Connect(x, "connect", "type", "close")
    \/ Type(x, "type", {<<"message">>}, "send")
    \/ Send(x, "send", var[x], "recv")
    \/ RecvPrint(x, "recv", 1, "close", "close")
    \/ Exit(x, "close")

(* Winsock: only SOCKET_ERROR ends the programs early, and that ends the   *)
(* server for every client.                                                *)
WinsockServer(x) ==
    \/ Accept(x, "accept", "recv")
    \/ Receive(x, "recv", 1, TRUE, "send", "send", "close")
    \/ SendWindows(x, "send", <<"Hello from the server!">>, "close_client")
    \/ Close(x, "close_client", "accept")
    \/ Exit(x, "close")

WinsockClient(x) ==
    \/ Connect(x, "connect", "send", "close")
    \/ SendWindows(x, "send", <<"Hello, server!">>, "recv")
    \/ RecvPrint(x, "recv", 1, "close", "close")
    \/ Exit(x, "close")

-----------------------------------------------------------------------------
ExchangeSystems == {"blocking", "polling", "select", "winsock"}

ExchangeInit ==
    /\ system \in ExchangeSystems
    /\ SocketsInit([p \in Procs |-> CASE p = "server" -> "accept"
                                      [] p = "client" -> "connect"
                                      [] OTHER -> "none"],
                   {"server"}, <<>>)

ExchangeProgram(x) ==
    \/ x = "server" /\ system = "blocking" /\ BlockingServer(x)
    \/ x = "client" /\ system = "blocking" /\ BlockingClient(x)
    \/ x = "server" /\ system = "polling" /\ PollingServer(x)
    \/ x = "client" /\ system = "polling" /\ PollingClient(x)
    \/ x = "server" /\ system = "select" /\ SelectServer(x)
    \/ x = "client" /\ system = "select" /\ SelectClient(x)
    \/ x = "server" /\ system = "winsock" /\ WinsockServer(x)
    \/ x = "client" /\ system = "winsock" /\ WinsockClient(x)

ExchangeNext ==
    /\ system \in ExchangeSystems
    /\ \E x \in {"server", "client"} : ExchangeProgram(x) \/ Interrupt(x, {x})

-----------------------------------------------------------------------------
(* Whoever waits for a message when the other program has ended does not   *)
(* wait for ever: the end, the reset and the refusal are all noticed, by a *)
(* program that blocks and by one that polls.                              *)
EndNoticed ==
    \A x, y \in {"server", "client"} :
        (system \in ExchangeSystems /\ pc[x] = "done" /\ pc[y] = "recv") ~> pc[y] # "recv"
=============================================================================
