------------------------------- MODULE Multicast -------------------------------
(***************************************************************************)
(* Unit 8, IGMP: a lecturer sends to a group, and receivers on hosts of    *)
(* their own belong to it: from the start (IGMP_basic), or when their user *)
(* joins and until he leaves (IGMP_JOIN_Leave).                            *)
(***************************************************************************)
EXTENDS NameServers

CONSTANT MaxChoices     \* bound: choices of the user of a receiver

(* A lecture is a text of pieces that name it; later ones are shorter.     *)
Lecture(n) == [k \in 1 .. (3 - (IF n > 2 THEN 2 ELSE n)) |-> n]

(* Whether the socket of c is in the group: joined in the menu program.     *)
Member(c) == var[c] = <<"joined">>

(* One copy for each member; each copy may be lost.                        *)
Lectured(x, at, next) ==
    /\ At(x, at)
    /\ \E lost \in SUBSET {c \in Procs : Member(c)} :
         /\ system.lossy \/ lost = {}
         /\ mail' = [c \in Procs |->
                       IF Member(c) /\ c \notin lost /\ pc[c] # "done"
                       THEN Append(mail[c], Datagram(x, Lecture(Len(said[x])))) ELSE mail[c]]
    /\ Goto(x, next)
    /\ UNCHANGED <<locals, conn, backlog, listening, disk, screen>>

Sender(x) ==
    \/ Type(x, "type", {<<"lecture">>}, "send")
    \/ Lectured(x, "send", "type")

(* recvfrom into a buffer that is never cleared, and printed to its end;    *)
(* what it held at first is anything.                                      *)
Held(x) == IF shown[x] # <<>> THEN {buf[x]} ELSE {<<>>, <<0, 0, 0>>}

(* A fault: the lecture stays in the queue.                                 *)
ListenPeeks(x, at, next) ==
    /\ At(x, at)
    /\ mail[x] # <<>>
    /\ \E held \in Held(x) : buf' = [buf EXCEPT ![x] = Overlay(held, Head(mail[x]).body)]
    /\ shown' = [shown EXCEPT ![x] = IF Len(@) < 3 THEN Append(@, buf'[x]) ELSE @]
    /\ Goto(x, next)
    /\ UNCHANGED <<task, fd, peer, var, conn, backlog, listening, mail, disk, said>>

Listen(x, at, next) ==
    /\ At(x, at)
    /\ mail[x] # <<>>
    /\ \E held \in Held(x) : buf' = [buf EXCEPT ![x] = Overlay(held, Head(mail[x]).body)]
    /\ shown' = [shown EXCEPT ![x] = Append(@, buf'[x])]
    /\ mail' = [mail EXCEPT ![x] = Tail(@)]
    /\ Goto(x, next)
    /\ UNCHANGED <<task, fd, peer, var, conn, backlog, listening, disk, said>>

BasicReceiver(x) ==
    \/ Assign(x, "start", <<"joined">>, "recv")
    \/ Listen(x, "recv", "recv")

ChoicesOf(x) ==
    IF x \in Varied THEN {"join", "leave", "receive", "exit"}
    ELSE IF said[x] = <<>> THEN {"join"} ELSE {"receive"}

(* The choice of the user is typed, and the flag and the membership change  *)
(* together.                                                               *)
Chosen(x, choice, next) ==
    /\ At(x, "menu")
    /\ choice \in ChoicesOf(x)
    /\ Len(said[x]) < MaxChoices
    /\ said' = [said EXCEPT ![x] = Append(@, <<choice>>)]
    /\ var' = [var EXCEPT ![x] = CASE choice = "join" -> <<"joined">>
                                   [] choice \in {"leave", "exit"} -> <<"left">>
                                   [] choice = "receive" -> @]
    /\ Goto(x, next)
    /\ UNCHANGED <<task, fd, peer, buf, net, shown>>

(* A fault: a receiver that is no member waits as well.                     *)
JoiningReceiverUnchecked(x) ==
    \/ Assign(x, "start", <<"left">>, "menu")
    \/ Chosen(x, "join", "menu") \/ Chosen(x, "leave", "menu")
    \/ Chosen(x, "receive", "recv")
    \/ Chosen(x, "exit", "close")
    \/ Listen(x, "recv", "menu")
    \/ Exit(x, "close")

JoiningReceiver(x) ==
    \/ Assign(x, "start", <<"left">>, "menu")
    \/ Chosen(x, "join", "menu") \/ Chosen(x, "leave", "menu")
    \/ Chosen(x, "receive", IF Member(x) THEN "recv" ELSE "menu")
    \/ Chosen(x, "exit", "close")
    \/ Listen(x, "recv", "menu")
    \/ Exit(x, "close")
=============================================================================
