------------------------------ MODULE FileServers ------------------------------
(***************************************************************************)
(* The two servers of Lab02 that search, replace and reorder a file for    *)
(* one client: files, whose requests are fields of 1024 bytes, and quo1    *)
(* over TCP, whose requests are one text each.                             *)
(***************************************************************************)
EXTENDS Sockets, LabAlgorithms

theFile == <<1>>      \* the name of the file there is
otherFile == <<2>>
absent == <<0>>
Content == <<98, 97, Space, 98>>
Files == [file |-> Content, temp |-> absent]

(* What users type: a choice and its words.                                *)
Search(w) == <<<<"choice", 1>>, <<"str1", w>>>>
Replace(w, by) == <<<<"choice", 2>>, <<"str1", w>>, <<"str2", by>>>>
Reorder == <<<<"choice", 3>>>>
Leaving == <<<<"choice", 4>>>>
Unknown == <<<<"choice", 5>>>>
FileRequests ==
    {Search(<<98>>), Replace(<<98>>, <<97>>), Replace(<<99>>, <<97>>), Reorder,
     Leaving, Unknown}

(* The variables of the server: what was read last under each name.  A     *)
(* variable that was never set is no word of the file.                     *)
Without(f, name) == SelectSeq(f, LAMBDA g : g[1] # name)
With(f, name, v) == Append(Without(f, name), <<name, v>>)
Value(f, name) ==
    IF \E k \in DOMAIN f : f[k][1] = name
    THEN f[CHOOSE k \in DOMAIN f : f[k][1] = name][2] ELSE absent

Reply(v) == <<<<"reply", v>>>>
Status(found) == <<<<"status", found>>>>

(* fopen for writing empties the file, fclose fills it.                    *)
Rewrite(x, next) ==
    \/ Compute(x, "fopen", var[x], [disk EXCEPT !.file = <<>>], "fclose")
    \/ Compute(x, "fclose", var[x], [disk EXCEPT !.file = Value(var[x], "buffer")], next)

-----------------------------------------------------------------------------
(* Lab02/files.  A read that fails leaves its variable as it was, and the  *)
(* operation goes ahead.                                                   *)

FileNext(f, name) ==
    LET choice == Value(f, "choice") IN
    IF name = "str2" THEN "replace"
    ELSE IF name = "str1" THEN IF choice = 1 THEN "search" ELSE "str2"
    ELSE IF choice = 3 THEN "sort" ELSE IF choice = 4 THEN "close"
    ELSE IF choice \in {1, 2} THEN "str1" ELSE "choice"

Matches(x) == TokensEqual(disk.file, Value(var[x], "str1"))

(* A fault: the two words are taken for each other.                        *)
SubstitutedBackwards(x) ==
    TokensReplaced(disk.file, Value(var[x], "str2"), Value(var[x], "str1"))

Substituted(x) == TokensReplaced(disk.file, Value(var[x], "str1"), Value(var[x], "str2"))
Named(x) == Value(var[x], "filename") = theFile

(* A fault: the file is removed before the new one is written.             *)
RemovedFirst(x) ==
    \/ Compute(x, "replace", With(With(var[x], "found", Matches(x) > 0), "buffer", Substituted(x)),
               [disk EXCEPT !.file = absent], "remove")
    \/ Compute(x, "remove", var[x], [disk EXCEPT !.temp = Value(var[x], "buffer")], "rename")
    \/ Compute(x, "rename", var[x], [file |-> disk.temp, temp |-> absent], "replaced")

ReplaceFile(x) ==
    \/ Compute(x, "replace", With(var[x], "found", Matches(x) > 0),
               [disk EXCEPT !.temp = Substituted(x)], "remove")
    \/ Compute(x, "remove", var[x], [disk EXCEPT !.file = absent], "rename")
    \/ Compute(x, "rename", var[x], [file |-> disk.temp, temp |-> absent], "replaced")

FileServer(x) ==
    \/ Accept(x, "accept", "filename")
    \/ Field(x, "filename", <<>>, "access", "access")
    \/ Send(x, "access", Status(Named(x)), IF Named(x) THEN "choice" ELSE "close")
    \/ Field(x, "choice", Without(var[x], "choice"), FileNext(var'[x], "choice"), "close")
    \/ \E l \in {"str1", "str2"} :
         Field(x, l, Without(var[x], l), FileNext(var[x], l), FileNext(var[x], l))
    \/ Send(x, "search", Reply(<<"occurrences", Matches(x)>>), "choice")
    \/ ReplaceFile(x)
    \/ Send(x, "replaced", Reply(<<"replaced", Value(var[x], "found")>>), "choice")
    \/ Compute(x, "sort", With(var[x], "buffer", Ascending(disk.file)), disk, "fopen")
    \/ Rewrite(x, "sorted")
    \/ Send(x, "sorted", Reply(<<"reordered">>), "choice")
    \/ Exit(x, "close")

FileClient(x) ==
    \/ Connect(x, "connect", "name", "done")
    \/ \E f \in Inputs(x, {theFile, otherFile}, theFile) :
         Assign(x, "name", <<<<"filename", f>>>>, "filename")
    \/ SendFields(x, "filename", "status")
    \/ Field(x, "status", <<>>, IF var'[x] = Status(FALSE) THEN "close" ELSE "menu", "menu")
    \/ Type(x, "menu", Inputs(x, FileRequests, Reorder), "request")
    \/ SendFields(x, "request", IF Last(said[x]) = Leaving THEN "close" ELSE "reply")
    \/ Field(x, "reply", <<>>, "show", "blank")
    \/ Show(x, "show", var[x], "menu")
    \/ Show(x, "blank", <<<<>>>>, "menu")
    \/ Exit(x, "close")

-----------------------------------------------------------------------------
(* Lab02/quo1 over TCP.  The name of the file is read without its end into *)
(* a variable that was not cleared: it may not be found.  (No new word is  *)
(* so long that the text could outgrow the memory of replace_string.)      *)

Found(x) ==
    IF buf[x] = <<<<<<"filename", theFile>>>>>> THEN {TRUE, FALSE} ELSE {FALSE}

TextServer(x) ==
    LET r == buf[x][1]
        choice == Value(r, "choice")
        str1 == Value(r, "str1")
        many == Occurrences(disk.file, str1)
    IN
    \/ Accept(x, "accept", "filename")
    \/ Recv(x, "filename", 1, "exists", "exists")
    \/ \E found \in Found(x) :
         Send(x, "exists", Status(found), IF found THEN "read" ELSE "close")
    \/ Recv(x, "read", 1, "serve", "close")
    \/ At(x, "serve") /\
         \/ choice = 1 /\ Send(x, "serve", Reply(<<"occurrences", many>>), "read")
         \/ choice = 2 /\ many = 0 /\ Send(x, "serve", Reply(<<"replaced", FALSE>>), "read")
         \/ /\ choice = 2 /\ many > 0
            /\ Assign(x, "serve",
                      <<<<"buffer", Replaced(disk.file, str1, Value(r, "str2"))>>>>, "fopen")
         \/ /\ choice = 3
            /\ Assign(x, "serve", <<<<"buffer", Ascending(disk.file)>>>>, "fopen")
         \/ choice = 4 /\ Jump(x, "serve", "close")
    \/ Rewrite(x, "answer")
    \/ Send(x, "answer",
            Reply(IF choice = 2 THEN <<"replaced", TRUE>> ELSE <<"reordered">>), "read")
    \/ Exit(x, "close")

(* An unknown choice sends nothing, and waits for the answer.              *)
TextClient(x) ==
    \/ Connect(x, "connect", "name", "done")
    \/ \E f \in Inputs(x, {theFile, otherFile}, theFile) :
         Assign(x, "name", <<<<"filename", f>>>>, "filename")
    \/ Send(x, "filename", <<var[x]>>, "status")
    \/ Recv(x, "status", 1, IF buf'[x] = Status(FALSE) THEN "close" ELSE "menu", "menu")
    \/ Type(x, "menu", Inputs(x, FileRequests, Reorder), "request")
    \/ Send(x, "request", IF var[x] = Unknown THEN <<>> ELSE <<var[x]>>,
            IF var[x] = Leaving THEN "close" ELSE "reply")
    \/ Recv(x, "reply", 1, "show", "blank")
    \/ Show(x, "show", buf[x], "menu")
    \/ Show(x, "blank", <<<<>>>>, "menu")
    \/ Exit(x, "close")

-----------------------------------------------------------------------------
(* What a request makes of a file, and what it is answered.                *)
Outcome(file, r) ==
    LET w == Value(r, "str1")
        many == IF system = "files" THEN TokensEqual(file, w) ELSE Occurrences(file, w)
        choice == Value(r, "choice")
    IN CASE choice = 1 -> [file |-> file, reply |-> <<"occurrences", many>>]
         [] choice = 2 ->
              [file |-> IF system = "files" THEN TokensReplaced(file, w, Value(r, "str2"))
                        ELSE Replaced(file, w, Value(r, "str2")),
               reply |-> <<"replaced", many > 0>>]
         [] choice = 3 -> [file |-> Ascending(file), reply |-> <<"reordered">>]
         [] choice > 3 -> [file |-> file, reply |-> <<>>]

Before(requests, k) ==
    LET file[n \in 0 .. k] == IF n = 0 THEN Content ELSE Outcome(file[n - 1], requests[n]).file
    IN file[k]
=============================================================================
