------------------------------ MODULE NameServers ------------------------------
(***************************************************************************)
(* The name servers of Unit 7.  DNS_TLD_AUTH: a local server that asks     *)
(* root, TLD and authoritative server in turn, over UDP.  AQ_DNSExtended:  *)
(* a resolver, and the server a client talks to once it has its address.   *)
(* DNS-global website: a child per connection.                             *)
(***************************************************************************)
EXTENDS Sockets

CONSTANTS Clients,     \* the processes that users start
          MaxRuns      \* bound: requests to the website, and runs of the
                       \* clients of a daemon, of all users together
ASSUME ClientsAssumption == Clients \subseteq Procs

MoreRuns == Cardinality(UNION {{c} \X DOMAIN said[c] : c \in Clients}) < MaxRuns

-----------------------------------------------------------------------------
(* DNS_TLD_AUTH.  A text is a sequence of pieces.  recvfrom writes over    *)
(* what the buffer held and ends nothing: the rest of a longer text before *)
(* it, or of what the memory held, stays behind the new one.               *)

Overlay(old, new) == new \o SubSeq(old, Len(new) + 1, Len(old))
Tails == {<<>>, <<"garbage">>}

RootAnswer == <<"root", "root", "root">>
TldAnswer  == <<"tld", "tld">>
AuthAnswer == <<"auth", "auth", "auth", "auth">>

HierarchyServer(w, answer) ==
    \/ RecvFrom(w, "recv", 1, "send")
    \/ SendTo(w, "send", peer[w], answer, system.lossy, "recv")

(* The second half of query_server, on the socket made for this query.     *)
query_server(x, at, next) ==
    /\ At(x, at)
    /\ mail["query"] # <<>>
    /\ var' = [var EXCEPT ![x] = Overlay(@, Head(mail["query"]).body)]
    /\ mail' = [mail EXCEPT !["query"] = Tail(@)]
    /\ Goto(x, next)
    /\ UNCHANGED <<task, fd, peer, buf, conn, backlog, listening, disk, screen>>

(* At first the buffer holds anything; as long as the last answer is the   *)
(* longest, only what is behind that can be seen.                          *)
LocalDns(x) ==
    \/ \E tail \in Tails : Assign(x, "start", <<"?", "?", "?", "?">> \o tail, "recv")
    \/ RecvFrom(x, "recv", 1, "ask_root")
    \/ SendOn(x, "query", "ask_root", "w1", buf[x], system.lossy, "root")
    \/ query_server(x, "root", "ask_tld")
    \/ SendOn(x, "query", "ask_tld", "w2", buf[x], system.lossy, "tld")
    \/ query_server(x, "tld", "ask_auth")
    \/ SendOn(x, "query", "ask_auth", "w3", buf[x], system.lossy, "auth")
    \/ query_server(x, "auth", "send")
    \/ SendTo(x, "send", peer[x], var[x], system.lossy, "recv")

HierarchyClient(x) ==
    \/ SendTo(x, "menu", "server", <<"www.google.com">>, system.lossy, "reply")
    \/ RecvFrom(x, "reply", 9, "show")
    \/ \E tail \in Tails : Show(x, "show", <<buf[x] \o tail>>, "close")
    \/ Exit(x, "close")

-----------------------------------------------------------------------------
(* AQ_DNSExtended.  A request is its first word and the name behind it.    *)

Resolve(host) == <<"RESOLVE ", host>>
Prefixless == <<"server1.com", "">>
Nothing == <<"", "">>
table == [server1 |-> "w1", server2 |-> "nobody"]

resolve(r) ==
    IF r[1] = "RESOLVE " /\ r[2] \in DOMAIN table THEN table[r[2]] ELSE "NOTFOUND"

(* A fault: an empty datagram is looked at again, not the next one.        *)
ResolverServerSticks(x) ==
    \/ RecvFrom(x, "recv", 1, "received")
    \/ Jump(x, "received", IF buf[x] = <<Nothing>> THEN "received" ELSE "send")
    \/ SendTo(x, "send", peer[x], <<resolve(buf[x][1])>>, system.lossy, "recv")

ResolverServer(x) ==
    \/ RecvFrom(x, "recv", 1, "received")
    \/ Jump(x, "received", IF buf[x] = <<Nothing>> THEN "recv" ELSE "send")
    \/ SendTo(x, "send", peer[x], <<resolve(buf[x][1])>>, system.lossy, "recv")

(* The server behind the first name; its user types the answers.           *)
TalkingServer(w) ==
    \/ RecvFrom(w, "recv", 1, "received")
    \/ Jump(w, "received", IF buf[w] = <<"CLOSE">> THEN "close" ELSE "type")
    \/ Type(w, "type", {<<"welcome">>}, "send")
    \/ SendTo(w, "send", peer[w], var[w], system.lossy, "recv")
    \/ Exit(w, "close")

(* Nobody listens at the address of the second name.                       *)
SendToAddress(x, address) ==
    IF address = "w1" THEN SendTo(x, "send", address, var[x], system.lossy,
                                  IF var[x] = <<"CLOSE">> THEN "close" ELSE "reply")
    ELSE Jump(x, "send", IF var[x] = <<"CLOSE">> THEN "close" ELSE "reply")

ResolverClient(x) ==
    \/ Type(x, "menu", Inputs(x, {Resolve("server1"), Resolve("server2"), Resolve("other"),
                                  Prefixless, Nothing}, Resolve("server1")), "ask")
    \/ SendTo(x, "ask", "server", <<var[x]>>, system.lossy, "resolved")
    \/ RecvFromPrint(x, "resolved", 1, IF buf'[x] = <<"NOTFOUND">> THEN "close" ELSE "talk")
    \/ Type(x, "talk", Inputs(x, {<<"hello">>, <<"CLOSE">>}, <<"hello">>), "send")
    \/ SendToAddress(x, IF shown[x] = <<>> THEN "nobody" ELSE shown[x][1])
    \/ RecvFromPrint(x, "reply", 1, "talk")
    \/ Exit(x, "close")

-----------------------------------------------------------------------------
(* DNS-global website.  A connection that brings no name is answered too;  *)
(* so is a name when there is no database.txt to look it up in.            *)

websites == [google |-> "ip"]

handle_request(domain) ==
    IF domain # <<>> /\ ~disk.database THEN "Server Error: database.txt missing"
    ELSE IF domain # <<>> /\ domain[1] \in DOMAIN websites THEN websites[domain[1]]
    ELSE "Domain Not Found"

(* A fault: the parent keeps the descriptor.                                *)
WebsiteServerKeeps(x, kids) ==
    \/ Accept(x, "accept", "fork")
    \/ Fork(x, "fork", kids, "close_listener", "accept")
    \/ \E w \in kids :
         \/ CloseListener(w, "close_listener", "read")
         \/ Field(w, "read", <<>>, "send", "send")
         \/ Send(w, "send", <<handle_request(var[w])>>, "close")
         \/ Exit(w, "close")

WebsiteServer(x, kids) ==
    \/ Accept(x, "accept", "fork")
    \/ Fork(x, "fork", kids, "close_listener", "close_new")
    \/ ForkRefused(x, "fork", "close_new")
    \/ Close(x, "close_new", "accept")
    \/ \E w \in kids :
         \/ CloseListener(w, "close_listener", "read")
         \/ Field(w, "read", <<>>, "send", "send")
         \/ Send(w, "send", <<handle_request(var[w])>>, "close")
         \/ Exit(w, "close")

(* The browser that is started for an address that was found is left out.  *)
WebsiteClient(x) ==
    \/ /\ MoreRuns
       /\ Type(x, "menu", Inputs(x, {<<"other">>, <<"exit">>}, <<"google">>),
               IF var'[x] = <<"exit">> THEN "leave" ELSE "connect")
    \/ Connect(x, "connect", "send", "menu")
    \/ Send(x, "send", var[x], "reply")
    \/ RecvPrint(x, "reply", 1, "close", "close")
    \/ Close(x, "close", "menu")
    \/ Exit(x, "leave")
=============================================================================
