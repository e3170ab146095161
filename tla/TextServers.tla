------------------------------ MODULE TextServers ------------------------------
(***************************************************************************)
(* Servers that answer one text with another over a connection: the        *)
(* statistics of Lab02 (additional), the DNS of Lab04 (quo2) and the one   *)
(* of Lab01 that only looks at its client's address.                       *)
(***************************************************************************)
EXTENDS Sockets, LabAlgorithms

CONSTANT FileCap     \* characters of a file the statistics keep, 3595 in the code

(* The files there are: one that fits, one that is longer by its newline.  *)
StatisticsFiles ==
    [short |-> <<97, 49, Newline, 98>>,
     long |-> [k \in 1 .. FileCap + 1 |-> IF k > FileCap THEN Newline ELSE 97]]

StatisticsOf(name) ==
    IF name \in {<<"short">>, <<"long">>}
    THEN Statistics(StatisticsFiles[name[1]], FileCap)
    ELSE {<<"File not present">>}

StatisticsServer(x) ==
    \/ Accept(x, "accept", "read")
    \/ Recv(x, "read", 1, "requested", "close")
    \/ Jump(x, "requested", IF buf[x] = <<"stop">> THEN "close" ELSE "send")
    \/ \E answer \in StatisticsOf(buf[x]) : Send(x, "send", <<answer>>, "read")
    \/ Exit(x, "close")

StatisticsClient(x) ==
    \/ Connect(x, "connect", "name", "done")
    \/ Type(x, "name", Inputs(x, {<<"short">>, <<"long">>, <<"none">>, <<"stop">>}, <<"short">>),
            "send")
    \/ Send(x, "send", var[x], IF var[x] = <<"stop">> THEN "close" ELSE "reply")
    \/ RecvPrint(x, "reply", 1, "name", "name")
    \/ Exit(x, "close")

-----------------------------------------------------------------------------
database == [host |-> "ip"]

search_dns(host) ==
    IF host \in DOMAIN database THEN database[host] ELSE "Host not found in database"

(* A fault: only an error ends the session.                                *)
DnsServerReadsOn(x) ==
    \/ Accept(x, "accept", "read")
    \/ Receive(x, "read", 1, FALSE, "requested", "read", "close")
    \/ Jump(x, "requested", IF buf[x] = <<"exit">> THEN "close" ELSE "write")
    \/ Send(x, "write", <<search_dns(buf[x][1])>>, "read")
    \/ Exit(x, "close")

DnsServer(x) ==
    \/ Accept(x, "accept", "read")
    \/ Recv(x, "read", 1, "requested", "close")
    \/ Jump(x, "requested", IF buf[x] = <<"exit">> THEN "close" ELSE "write")
    \/ Send(x, "write", <<search_dns(buf[x][1])>>, "read")
    \/ Exit(x, "close")

(* An empty line sends nothing, and its answer is waited for.              *)
EmptyLine == <<>>

DnsClient(x) ==
    \/ Connect(x, "connect", "name", "done")
    \/ Type(x, "name", Inputs(x, {<<"host">>, <<"other">>, <<"exit">>, EmptyLine}, <<"host">>),
            "write")
    \/ Send(x, "write", var[x], IF var[x] = <<"exit">> THEN "close" ELSE "reply")
    \/ RecvPrint(x, "reply", 1, "name", "name")
    \/ Exit(x, "close")

-----------------------------------------------------------------------------
AddressServer(x) == Accept(x, "accept", "close") \/ Exit(x, "close")
AddressClient(x) == Connect(x, "connect", "close", "done") \/ Exit(x, "close")
=============================================================================
