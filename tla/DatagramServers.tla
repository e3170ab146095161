---------------------------- MODULE DatagramServers ----------------------------
(***************************************************************************)
(* The request servers over UDP: Lab01 Excercise/quo2, the UDP halves of   *)
(* Lab02 (quo1 and additional) and of Lab04 (quo1), and Lab03/quo2.  No    *)
(* client has a timeout; each sends to where its last answer came from.    *)
(***************************************************************************)
EXTENDS TextServers, ForkServers

Lossy == system.lossy
ServerOf(x) == IF peer[x] = x THEN "server" ELSE peer[x]

-----------------------------------------------------------------------------
(* Lab01 Excercise/quo2: one client's Halt ends the server for all.        *)

Halt == <<72, 97, 108, 116>>
Vowels == <<97, 101, 105, 111, 117>>
tolower(c) == IF c \in 65 .. 90 THEN c + 32 ELSE c

Results(text) ==
    <<Len(text), checkPalindrome(text)>>
    \o [v \in DOMAIN Vowels |-> Len(SelectSeq(text, LAMBDA c : tolower(c) = Vowels[v]))]

PalindromeServer(x) ==
    \/ RecvFrom(x, "recv", 1, "requested")
    \/ Jump(x, "requested", IF buf[x] = <<Halt>> THEN "close" ELSE "send")
    \/ SendTo(x, "send", peer[x], <<Results(buf[x][1])>>, Lossy, "recv")
    \/ Exit(x, "close")

PalindromeClient(x) ==
    \/ Type(x, "menu", Inputs(x, {<<97, 98, 65>>, <<98>>, Halt}, <<98, 97, 98>>), "send")
    \/ SendTo(x, "send", ServerOf(x), <<var[x]>>, Lossy,
              IF var[x] = Halt THEN "close" ELSE "reply")
    \/ RecvFromPrint(x, "reply", 1, "menu")
    \/ Exit(x, "close")

-----------------------------------------------------------------------------
(* Lab02/quo1 over UDP.  A request is a number and a text; number 0 stands *)
(* for "FILE", and a choice that is not on the menu sends nothing but an   *)
(* empty datagram.  The operations are placeholders; the file name of the  *)
(* last client is the one of all.                                          *)

File(name) == <<0, name>>
Menu(choice) == <<choice, "str">>
NoMenu == <<9, "">>

TextReply(r) ==
    CASE r[1] = 0 -> IF r[2] = "present" THEN "OK" ELSE "File not present"
      [] r[1] \in {1, 2} -> "String not found"
      [] r[1] = 3 -> "File reordered successfully"
      [] r[1] > 3 -> ""

TextDatagramServer(x) ==
    \/ RecvFrom(x, "recv", 1, "requested")
    \/ Assign(x, "requested", IF buf[x][1][1] = 0 THEN <<buf[x][1][2]>> ELSE var[x],
              IF buf[x][1][1] = 4 THEN "recv" ELSE "send")
    \/ SendTo(x, "send", peer[x], <<TextReply(buf[x][1])>>, Lossy, "recv")

TextDatagramClient(x) ==
    \/ Type(x, "menu",
            IF said[x] = <<>> THEN Inputs(x, {File("present"), File("absent")}, File("present"))
            ELSE Inputs(x, {Menu(1), Menu(3), Menu(4), NoMenu}, Menu(2)), "send")
    \/ SendTo(x, "send", ServerOf(x), <<var[x]>>, Lossy,
              IF var[x] = Menu(4) THEN "close" ELSE "reply")
    \/ RecvFromPrint(x, "reply", 1,
                     IF buf'[x] = <<"File not present">> THEN "close" ELSE "menu")
    \/ Exit(x, "close")

-----------------------------------------------------------------------------
(* Lab02/additional over UDP: stop ends the client only.                   *)

StatisticsDatagramServer(x) ==
    \/ RecvFrom(x, "recv", 1, "requested")
    \/ Jump(x, "requested", IF buf[x] = <<"stop">> THEN "recv" ELSE "send")
    \/ \E answer \in StatisticsOf(buf[x]) :
         SendTo(x, "send", peer[x], <<answer>>, Lossy, "recv")

StatisticsDatagramClient(x) ==
    \/ Type(x, "menu", Inputs(x, {<<"long">>, <<"none">>, <<"stop">>}, <<"short">>), "send")
    \/ SendTo(x, "send", ServerOf(x), var[x], Lossy,
              IF var[x] = <<"stop">> THEN "close" ELSE "reply")
    \/ RecvFromPrint(x, "reply", 1, "menu")
    \/ Exit(x, "close")

-----------------------------------------------------------------------------
(* Lab03/quo2: the permutations are printed by the server, the client gets *)
(* the same acknowledgement for every string.                              *)

PermutationServer(x) ==
    \/ RecvFrom(x, "recv", 1, "permute")
    \/ Show(x, "permute", <<Permuted(buf[x][1])>>, "send")
    \/ SendTo(x, "send", peer[x], <<"Server processed your string.">>, Lossy, "recv")

exit == <<"exit">>

PermutationClient(x) ==
    \/ Type(x, "menu", Inputs(x, {<<"a", "b">>, exit}, <<"c">>),
            IF var'[x] = exit THEN "close" ELSE "send")
    \/ SendTo(x, "send", ServerOf(x), <<var[x]>>, Lossy, "reply")
    \/ RecvFromPrint(x, "reply", 1, "menu")
    \/ Exit(x, "close")

-----------------------------------------------------------------------------
(* Lab04/quo1 over UDP: a child for each datagram, which answers from the  *)
(* socket of its parent while the parent waits for the next one.  When no  *)
(* child can be made the datagram is forgotten.                            *)

(* A fault: the answer is left to the child, the address is not: the parent *)
(* has one address for all of them.                                        *)
StudentDatagramServerShared(x, kids) ==
    \/ RecvFrom(x, "recv", 1, "fork")
    \/ Fork(x, "fork", kids, "answer", "recv")
    \/ \E w \in kids :
         \/ SendOn(w, x, "answer", peer[x], <<StudentAnswer(buf[w][1])>>, Lossy, "exit")
         \/ Exit(w, "exit")

StudentDatagramServer(x, kids) ==
    \/ RecvFrom(x, "recv", 1, "fork")
    \/ Fork(x, "fork", kids, "answer", "recv")
    \/ Lossy /\ ForkRefused(x, "fork", "recv")
    \/ \E w \in kids :
         \/ SendOn(w, x, "answer", peer[w], <<StudentAnswer(buf[w][1])>>, Lossy, "exit")
         \/ Exit(w, "exit")

StudentDatagramClient(x) ==
    \/ Type(x, "menu", Inputs(x, {Student(1, "a"), Student(5, "a"), Finish}, Student(3, "b")),
            IF var'[x] = Finish THEN "close" ELSE "send")
    \/ SendTo(x, "send", ServerOf(x), <<var[x]>>, Lossy, "reply")
    \/ RecvFromPrint(x, "reply", 1, "menu")
    \/ Exit(x, "close")
=============================================================================
