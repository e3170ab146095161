----------------------------- MODULE FieldServers -----------------------------
(***************************************************************************)
(* Requests made of fields of known size: the array server of Lab01 (quo1),*)
(* the sorting server of Lab02 and the calculator of Lab03.  A field is a  *)
(* pair of its name and its value; a place where a program reads a field   *)
(* has the name of that field.                                             *)
(***************************************************************************)
EXTENDS Sockets, LabAlgorithms

(* What a client prints when its read has failed: the variable as it was.  *)
stale == <<<<"stale">>>>

-----------------------------------------------------------------------------
(* Lab01 Excercise/quo1.                                                   *)

ArrayRequest(choice, arr, arg) ==
    <<<<"choice", choice>>, <<"size", Len(arr)>>>>
    \o (IF arr = <<>> THEN <<>> ELSE <<<<"array", arr>>>>)
    \o (CASE choice = 1 -> <<<<"key", arg>>>>
          [] choice = 2 -> <<<<"order", arg>>>>
          [] choice > 2 -> <<>>)

ArrayExit == <<<<"choice", 4>>>>
ArrayRequests ==
    {ArrayRequest(1, <<3, 2>>, 2), ArrayRequest(2, <<3, 2>>, 1), ArrayRequest(2, <<>>, 1),
     ArrayRequest(3, <<3, 2>>, 0), ArrayRequest(3, <<2>>, 0), ArrayRequest(5, <<2>>, 0), ArrayExit}

(* Where the server is when it has read the fields f of a request.         *)
ArrayNext(f) ==
    LET choice == f[1][2]
        last == f[Len(f)][1]
    IN IF choice = 4 THEN "close"
       ELSE IF last = "choice" THEN "size"
       ELSE IF last = "size" /\ f[2][2] > 0 THEN "array"
       ELSE IF last \in {"key", "order"} \/ choice = 3 THEN "answer"
       ELSE IF choice = 1 THEN "key" ELSE IF choice = 2 THEN "order" ELSE "choice"

ArrayAnswer(f) ==
    LET choice == f[1][2]
        arr == IF f[2][2] = 0 THEN <<>> ELSE f[3][2]
        arg == f[Len(f)][2]
        odd == SelectSeq(arr, LAMBDA n : n % 2 # 0)
        even == SelectSeq(arr, LAMBDA n : n % 2 = 0)
    IN IF choice = 1 THEN <<<<"found", Position(arr, arg)>>>>
       ELSE IF choice = 2
       THEN IF arr = <<>> THEN <<>> ELSE <<<<"array", IF arg = 1 THEN Ascending(arr) ELSE Descending(arr)>>>>
       ELSE <<<<"odd_count", Len(odd)>>, <<"even_count", Len(even)>>>>
            \o (IF odd = <<>> THEN <<>> ELSE <<<<"odd_arr", odd>>>>)
            \o (IF even = <<>> THEN <<>> ELSE <<<<"even_arr", even>>>>)

(* A request that breaks off is the end of the session: nobody is left to  *)
(* read what the server makes of it.                                       *)
ArrayServer(x) ==
    \/ Accept(x, "accept", "choice")
    \/ Field(x, "choice", <<>>, ArrayNext(var'[x]), "close")
    \/ \E l \in {"size", "array", "key", "order"} :
         Field(x, l, var[x], ArrayNext(var'[x]), "close")
    \/ Assign(x, "answer", ArrayAnswer(var[x]), "write")
    \/ SendFields(x, "write", "choice")
    \/ Exit(x, "close")

(* Where the client is when it has read got of the answer to r.  A fault:  *)
(* the length of the odd numbers is not looked at.                         *)
ArrayReadsOdd(r, got) ==
    LET choice == r[1][2]
        n == Len(got)
    IN IF choice = 4 THEN "close"
       ELSE IF choice > 4 THEN "menu"
       ELSE IF choice = 1 /\ n = 0 THEN "found"
       ELSE IF choice = 2 /\ n = 0 /\ r[2][2] > 0 THEN "array"
       ELSE IF choice = 3 /\ n < 3
       THEN CASE n = 0 -> "odd_count" [] n = 1 -> "even_count" [] n = 2 -> "odd_arr"
       ELSE IF choice = 3 /\ got[2][2] > 0 /\ got[n][1] # "even_arr" THEN "even_arr"
       ELSE "show"

ArrayReads(r, got) ==
    LET choice == r[1][2]
        n == Len(got)
        none_odd == choice = 3 /\ n = 2 /\ got[1][2] = 0
    IN IF choice = 4 THEN "close"
       ELSE IF choice > 4 THEN "menu"
       ELSE IF choice = 1 /\ n = 0 THEN "found"
       ELSE IF choice = 2 /\ n = 0 /\ r[2][2] > 0 THEN "array"
       ELSE IF choice = 3 /\ n < 3 /\ ~none_odd
       THEN CASE n = 0 -> "odd_count" [] n = 1 -> "even_count" [] n = 2 -> "odd_arr"
       ELSE IF choice = 3 /\ got[2][2] > 0 /\ got[n][1] # "even_arr" THEN "even_arr"
       ELSE "show"

ArrayClient(x) ==
    \/ Connect(x, "connect", "menu", "done")
    \/ Type(x, "menu", Inputs(x, ArrayRequests, ArrayRequest(2, <<3, 2>>, 1)), "request")
    \/ SendFields(x, "request", ArrayReads(Last(said[x]), <<>>))
    \/ \E l \in {"found", "array", "odd_count", "even_count", "odd_arr", "even_arr"} :
         Field(x, l, var[x], ArrayReads(Last(said[x]), var'[x]), "stale")
    \/ Show(x, "show", <<var[x]>>, "menu")
    \/ Show(x, "stale", <<stale>>, "menu")
    \/ Exit(x, "close")

-----------------------------------------------------------------------------
(* Lab02/sort array: one request.                                          *)

SortServer(x) ==
    \/ Accept(x, "accept", "n")
    \/ Field(x, "n", <<>>, IF var'[x] = <<<<"n", 0>>>> THEN "sort" ELSE "arr", "close")
    \/ Field(x, "arr", var[x], "sort", "close")
    \/ Assign(x, "sort", [k \in 1 .. Len(var[x]) - 1 |->
                            <<"sorted", Ascending(var[x][2][2])>>], "send")
    \/ SendFields(x, "send", "close")
    \/ Exit(x, "close")

(* Its client prints the array as it typed it if no answer comes.          *)
SortClient(x) ==
    \/ Connect(x, "connect", "numbers", "done")
    \/ Type(x, "numbers", {<<<<"n", 0>>>>, <<<<"n", 2>>, <<"arr", <<2, 1>>>>>>}, "send")
    \/ SendFields(x, "send", IF Len(said[x][1]) > 1 THEN "sorted" ELSE "show")
    \/ Field(x, "sorted", <<>>, "show", "unsorted")
    \/ Show(x, "show", <<var[x]>>, "close")
    \/ Show(x, "unsorted", <<Tail(said[x][1])>>, "close")
    \/ Exit(x, "close")

-----------------------------------------------------------------------------
(* Lab03/additional: a structure goes to and fro; what one side does not   *)
(* set comes back as it was.                                               *)

CalcRequests ==
    {<<2, 0, 4>>, <<2, 2, 4>>, <<3, <<<<2>>>>, <<<<5>>>>>>,
     <<3, <<<<1, 2>>>>, <<<<5>>>>>>, <<4>>, <<5>>}

Product(A, B) ==
    [i \in DOMAIN A |-> [j \in DOMAIN B[1] |->
        FoldLeft(LAMBDA sum, k : sum + A[i][k] * B[k][j], 0, UpTo(Len(B)))]]

(* The inputs begin with the option.                                       *)
Packet(in, results, error_msg) ==
    [in |-> in, results |-> results, error_msg |-> error_msg]

Solved(p) ==
    LET option == p.in[1] IN
    IF option = 2 /\ p.in[2] = 0 THEN [p EXCEPT !.error_msg = "a cannot be 0"]
    ELSE IF option = 3 /\ Len(p.in[2][1]) # Len(p.in[3])
    THEN [p EXCEPT !.error_msg = "dimensions mismatch"]
    ELSE IF option \in 1 .. 3
    THEN [p EXCEPT !.results[option] =
            CASE option = 1 -> <<p.in[2] + p.in[3], p.in[2] - p.in[3]>>
              [] option = 2 -> <<(-p.in[3]) \div p.in[2]>>
              [] option = 3 -> Product(p.in[2], p.in[3])]
    ELSE p

Calculated(p) == Solved([p EXCEPT !.error_msg = ""])

(* Faults: the structure is sent twice; an unknown option is not answered. *)
CalcServerTwice(x) ==
    \/ Accept(x, "accept", "read")
    \/ Recv(x, "read", 1, "handle", "close")
    \/ Jump(x, "handle", IF buf[x][1].in[1] = 4 THEN "close" ELSE "send")
    \/ Send(x, "send", <<Calculated(buf[x][1])>>, "again")
    \/ Send(x, "again", <<Calculated(buf[x][1])>>, "read")
    \/ Close(x, "close", "accept")

CalcServerIgnores(x) ==
    \/ Accept(x, "accept", "read")
    \/ Recv(x, "read", 1, "handle", "close")
    \/ Jump(x, "handle", CASE buf[x][1].in[1] = 4 -> "close"
                           [] buf[x][1].in[1] < 4 -> "send" [] OTHER -> "read")
    \/ Send(x, "send", <<Calculated(buf[x][1])>>, "read")
    \/ Close(x, "close", "accept")

CalcServer(x) ==
    \/ Accept(x, "accept", "read")
    \/ Recv(x, "read", 1, "handle", "close")
    \/ Jump(x, "handle", IF buf[x][1].in[1] = 4 THEN "close" ELSE "send")
    \/ Send(x, "send", <<Calculated(buf[x][1])>>, "read")
    \/ Close(x, "close", "accept")

PacketOf(x) ==
    IF buf[x] = <<>> THEN Packet(<<0>>, <<<<>>, <<>>, <<>>>>, "garbage") ELSE buf[x][1]

Displayed(p, choice) ==
    IF p.error_msg # "" THEN <<"error", p.error_msg>>
    ELSE IF choice \in 1 .. 3 THEN <<"result", choice, p.results[choice]>> ELSE <<>>

CalcClient(x) ==
    \/ Connect(x, "connect", "menu", "done")
    \/ Type(x, "menu", Inputs(x, CalcRequests, <<1, 3, 4>>), "send")
    \/ Send(x, "send", <<[PacketOf(x) EXCEPT !.in = var[x]]>>,
            IF var[x][1] = 4 THEN "close" ELSE "read")
    \/ Recv(x, "read", 1, "show", "show")
    \/ Show(x, "show", <<Displayed(PacketOf(x), var[x][1])>>, "menu")
    \/ Exit(x, "close")
=============================================================================
