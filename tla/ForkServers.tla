------------------------------ MODULE ForkServers ------------------------------
(***************************************************************************)
(* Servers that leave an answer to a child process: the student server of  *)
(* Lab04 (quo1) over TCP and the sorting server of Lab03 (quo3).           *)
(***************************************************************************)
EXTENDS Sockets, LabAlgorithms

Student(option, data) == <<<<"option", option>>, <<"data", data>>>>
Finish == <<<<"option", 4>>>>
StudentRequests == {Student(5, "a"), Finish}

StudentAnswer(f) ==
    LET option == IF f = <<>> THEN 0 ELSE f[1][2]
        data == IF Len(f) < 2 THEN "" ELSE f[2][2]
    IN CASE option = 1 -> <<"name and address">>
         [] option = 2 -> <<"department and courses">>
         [] option = 3 -> <<"marks", data>>
         [] option \notin 1 .. 3 -> <<"Invalid Option">>

StudentChild(w) ==
    \/ CloseListener(w, "close_listener", "write")
    \/ Send(w, "write", <<StudentAnswer(var[w])>>, "close")
    \/ Exit(w, "close")

(* A fault: the parent forks before it has read the data.                  *)
StudentServerForksEarly(x, kids) ==
    \/ Accept(x, "accept", "option")
    \/ Field(x, "option", <<>>, "fork", "fork")
    \/ Fork(x, "fork", kids, "close_listener", "data")
    \/ Field(x, "data", var[x], "close_new", "close_new")
    \/ Close(x, "close_new", "accept")
    \/ \E w \in kids : StudentChild(w)

(* The parent reads the option and the data before it forks.  An option    *)
(* that does not come is the one of the client before.  A connection for   *)
(* which no child can be made stays open, and nobody serves it.            *)
StudentServer(x, kids) ==
    \/ Accept(x, "accept", "option")
    \/ Field(x, "option", <<>>, "data", "memset")
    \/ Assign(x, "memset", SelectSeq(var[x], LAMBDA f : f[1] = "option"), "data")
    \/ Field(x, "data", var[x], "fork", "fork")
    \/ Fork(x, "fork", kids, "close_listener", "close_new")
    \/ ForkRefused(x, "fork", "accept")
    \/ Close(x, "close_new", "accept")
    \/ \E w \in kids : StudentChild(w)

(* A connection for each request, made before the user is asked.           *)
StudentClient(x) ==
    \/ Connect(x, "connect", "menu", "done")
    \/ Type(x, "menu", Inputs(x, StudentRequests, Student(3, "b")),
            IF var'[x] = Finish THEN "leave" ELSE "write")
    \/ SendFields(x, "write", "reply")
    \/ RecvPrint(x, "reply", 1, "close", "close")
    \/ Close(x, "close", "connect")
    \/ Exit(x, "leave")

-----------------------------------------------------------------------------
(* Lab03/quo3: the child sends the digits, and the parent, when the child  *)
(* has ended, the letters.                                                 *)

TheChild(kids) == CHOOSE w \in kids : TRUE

PairServer(x, kids) ==
    LET w == TheChild(kids)
        text(p) == IF buf[p] = <<>> THEN <<>> ELSE buf[p][1]
    IN
    \/ Accept(x, "accept", "read")
    \/ Recv(x, "read", 1, "fork", "fork")
    \/ Fork(x, "fork", {w}, "child", "wait")
    \/ ForkRefused(x, "fork", "close")
    \/ Send(w, "child", <<<<"child", Digits(text(w))>>>>, "close")
    \/ Wait(x, "wait", {w}, "parent")
    \/ Send(x, "parent", <<<<"parent", Letters(text(x))>>>>, "close")
    \/ Exit(x, "close") \/ Exit(w, "close")

PairClient(x) ==
    \/ Connect(x, "connect", "text", "done")
    \/ Type(x, "text", {<<98, 50, 97, 49>>}, "send")
    \/ Send(x, "send", <<var[x]>>, "reply")
    \/ RecvPrint(x, "reply", 2, "reply", "close")
    \/ Exit(x, "close")
=============================================================================
