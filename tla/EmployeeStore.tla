---------------------------- MODULE EmployeeStore ----------------------------
(***************************************************************************)
(* The shared database of midsem/server.c: an array and a count in shared  *)
(* memory, a semaphore, and one forked child per client that runs          *)
(* handle_client.  A step of a child is what it does between two accesses  *)
(* to memory another process can see, to its socket, or to dup.txt; inside *)
(* the critical section each iteration of a loop is a step, so that        *)
(* SIGKILL and the other child can fall between any two of them.           *)
(***************************************************************************)
EXTENDS EmployeeRecords, Integers

CONSTANTS Child,        \* the forked children, one per connected client
          MaxEmp,       \* MAX_EMP, the capacity of the array
          Employee,     \* the records a client can send
          Id,           \* the ids a client can ask to deduplicate
          MaxRequests   \* bound on the requests of all clients together

ASSUME MaxEmpAssumption == MaxEmp \in Nat /\ MaxEmp >= 3
ASSUME MaxRequestsAssumption == MaxRequests \in Nat
ASSUME IdAssumption == Id \subseteq Nat
ASSUME EmployeeAssumption == Employee \subseteq [name : Nat, id : Nat, exp : Nat]

VARIABLES db,        \* the array in shared memory
          count,     \* the number of records in it
          lock,      \* the value of the semaphore
          pc,        \* where each child stands in handle_client
          req,       \* the request it is serving
          n,         \* its copy of count: the slot of an add, n_emps of a display
          i,         \* its loop index
          seen,      \* first_seen
          removed,   \* the number of duplicates it removed
          temp,      \* temp[], the copy it sorts and displays
          buf,       \* the stdio buffer of its stream on dup.txt
          dupFile,   \* the contents of dup.txt
          inbox,     \* the requests in its socket, sent and not yet received
          open,      \* whether its client still holds the connection
          reply,     \* the last response it sent
          alive,     \* whether it has not been killed
          serving,   \* whether the parent still accepts clients
          sent,      \* the number of requests sent so far (bounds the model)
          stored     \* history: the records ever stored, in order

memory == <<db, count, lock>>
locals == <<req, n, i, seen, removed, temp, buf>>
wire   == <<inbox, open, sent>>
life   == <<alive, serving>>
vars   == <<memory, pc, locals, dupFile, wire, reply, life, stored>>

-----------------------------------------------------------------------------
Slot  == 0..(MaxEmp - 1)
Blank == [name |-> 0, id |-> 0, exp |-> 0]      \* mmap hands out zeroed pages
Row   == [name : Nat, id : Nat, exp : Nat]

(* Names are their rank in the order of strcmp, 0 the empty name; the      *)
(* salary is carried along and never looked at, so it is left out.         *)
Alice   == [name |-> 1, id |-> 101, exp |-> 5]
Bob     == [name |-> 2, id |-> 102, exp |-> 3]
Charlie == [name |-> 3, id |-> 101, exp |-> 5]
Initial == <<Alice, Bob, Charlie>>

Request == [kind : {"A"}, emp : Employee] \cup [kind : {"R"}, id : Id]
                                          \cup {[kind |-> "D"]}
NoRequest == [kind |-> "none"]
NoReply   == [kind |-> "none"]

Critical == {"read", "write", "scan", "copy", "post"}
Place    == Critical \cup {"recv", "wait", "close", "send", "exit"}

Contents == [k \in 1..count |-> db[k - 1]]

Init ==
    /\ db = [s \in Slot |-> IF s < 3 THEN Initial[s + 1] ELSE Blank]
    /\ count = 3
    /\ lock = 1
    /\ pc = [c \in Child |-> "recv"]
    /\ req = [c \in Child |-> NoRequest]
    /\ n = [c \in Child |-> 0]
    /\ i = [c \in Child |-> 0]
    /\ seen = [c \in Child |-> FALSE]
    /\ removed = [c \in Child |-> 0]
    /\ temp = [c \in Child |-> <<>>]
    /\ buf = [c \in Child |-> <<>>]
    /\ dupFile = <<>>
    /\ inbox = [c \in Child |-> <<>>]
    /\ open = [c \in Child |-> TRUE]
    /\ reply = [c \in Child |-> NoReply]
    /\ alive = [c \in Child |-> TRUE]
    /\ serving = TRUE
    /\ sent = 0
    /\ stored = <<>>

-----------------------------------------------------------------------------
(* The clients: a user types requests at will, without waiting for the     *)
(* answer to the last one, and may leave, which can cost the server what   *)
(* it had not read yet.                                                    *)
SendRequest(c, r) ==
    /\ open[c]
    /\ sent < MaxRequests
    /\ inbox' = [inbox EXCEPT ![c] = Append(@, r)]
    /\ sent' = sent + 1
    /\ UNCHANGED <<memory, pc, locals, dupFile, open, reply, life, stored>>

HangUp(c) ==
    /\ open[c]
    /\ open' = [open EXCEPT ![c] = FALSE]
    /\ \E lost \in BOOLEAN : inbox' = [inbox EXCEPT ![c] = IF lost THEN <<>> ELSE @]
    /\ UNCHANGED <<memory, pc, locals, dupFile, sent, reply, life, stored>>

-----------------------------------------------------------------------------
At(c, place) == alive[c] /\ pc[c] = place
Goto(c, place) == pc' = [pc EXCEPT ![c] = place]

(* One recv takes any number of the requests that have arrived, and only   *)
(* the first of them is looked at.                                         *)
Recv(c) ==
    /\ At(c, "recv")
    /\ inbox[c] # <<>>
    /\ \E k \in 1..Len(inbox[c]) :
          inbox' = [inbox EXCEPT ![c] = SubSeq(@, k + 1, Len(@))]
    /\ req' = [req EXCEPT ![c] = Head(inbox[c])]
    /\ seen' = [seen EXCEPT ![c] = FALSE]
    /\ removed' = [removed EXCEPT ![c] = 0]
    /\ i' = [i EXCEPT ![c] = 0]
    /\ temp' = [temp EXCEPT ![c] = <<>>]
    /\ Goto(c, "wait")
    /\ UNCHANGED <<memory, n, buf, dupFile, open, sent, reply, life, stored>>

Disconnected(c) ==
    /\ At(c, "recv")
    /\ inbox[c] = <<>> /\ ~open[c]
    /\ Goto(c, "exit")
    /\ UNCHANGED <<memory, locals, dupFile, wire, reply, life, stored>>

WaitForgotten(c) ==     \* sem_wait left out
    /\ At(c, "wait")
    /\ Goto(c, IF req[c].kind = "R" THEN "scan" ELSE "read")
    /\ UNCHANGED <<memory, locals, dupFile, wire, reply, life, stored>>

Wait(c) ==
    /\ At(c, "wait")
    /\ lock > 0
    /\ lock' = lock - 1
    /\ Goto(c, IF req[c].kind = "R" THEN "scan" ELSE "read")
    /\ UNCHANGED <<db, count, locals, dupFile, wire, reply, life, stored>>

ReadCount(c) ==
    /\ At(c, "read")
    /\ n' = [n EXCEPT ![c] = count]
    /\ Goto(c, IF req[c].kind = "A" THEN "write" ELSE "copy")
    /\ UNCHANGED <<memory, req, i, seen, removed, temp, buf, dupFile, wire,
                   reply, life, stored>>

(* db->db[db->count++] = new_emp.  The code has no check of count against  *)
(* MAX_EMP; what a write past the array does is undefined and not modelled.*)
Store(c) ==
    /\ At(c, "write")
    /\ n[c] < MaxEmp
    /\ db' = [db EXCEPT ![n[c]] = req[c].emp]
    /\ count' = n[c] + 1
    /\ stored' = Append(stored, req[c].emp)
    /\ Goto(c, "post")
    /\ UNCHANGED <<lock, locals, dupFile, wire, reply, life>>

(* One iteration of the removal loop, three ways. *)
IsTarget(c) == db[i[c]].id = req[c].id

ScanOther(c) ==
    /\ At(c, "scan") /\ i[c] < count
    /\ ~IsTarget(c)
    /\ i' = [i EXCEPT ![c] = @ + 1]
    /\ UNCHANGED <<memory, pc, req, n, seen, removed, temp, buf, dupFile, wire,
                   reply, life, stored>>

ScanFirstUnmarked(c) ==     \* first_seen = 1 left out
    /\ At(c, "scan") /\ i[c] < count
    /\ IsTarget(c) /\ ~seen[c]
    /\ i' = [i EXCEPT ![c] = @ + 1]
    /\ UNCHANGED <<memory, pc, req, n, seen, removed, temp, buf, dupFile, wire,
                   reply, life, stored>>

ScanFirst(c) ==
    /\ At(c, "scan") /\ i[c] < count
    /\ IsTarget(c) /\ ~seen[c]
    /\ seen' = [seen EXCEPT ![c] = TRUE]
    /\ i' = [i EXCEPT ![c] = @ + 1]
    /\ UNCHANGED <<memory, pc, req, n, removed, temp, buf, dupFile, wire,
                   reply, life, stored>>

ShiftedLeft(from) ==
    [s \in Slot |-> IF s >= from /\ s < count - 1 THEN db[s + 1] ELSE db[s]]

ScanDuplicateAndAdvance(c) ==     \* i++ after the shift, as in a for loop
    /\ At(c, "scan") /\ i[c] < count
    /\ IsTarget(c) /\ seen[c]
    /\ buf' = [buf EXCEPT ![c] = Append(@, db[i[c]])]
    /\ removed' = [removed EXCEPT ![c] = @ + 1]
    /\ db' = ShiftedLeft(i[c])
    /\ count' = count - 1
    /\ i' = [i EXCEPT ![c] = @ + 1]
    /\ UNCHANGED <<lock, pc, req, n, seen, temp, dupFile, wire, reply, life, stored>>

ScanDuplicate(c) ==
    /\ At(c, "scan") /\ i[c] < count
    /\ IsTarget(c) /\ seen[c]
    /\ buf' = [buf EXCEPT ![c] = Append(@, db[i[c]])]
    /\ removed' = [removed EXCEPT ![c] = @ + 1]
    /\ db' = ShiftedLeft(i[c])
    /\ count' = count - 1
    /\ UNCHANGED <<lock, pc, req, n, i, seen, temp, dupFile, wire, reply, life,
                   stored>>

ScanEnd(c) ==
    /\ At(c, "scan") /\ i[c] >= count
    /\ Goto(c, "post")
    /\ UNCHANGED <<memory, locals, dupFile, wire, reply, life, stored>>

(* One iteration of the copy loop of a display. *)
CopyNext(c) ==
    /\ At(c, "copy") /\ i[c] < n[c]
    /\ temp' = [temp EXCEPT ![c] = Append(@, db[i[c]])]
    /\ i' = [i EXCEPT ![c] = @ + 1]
    /\ UNCHANGED <<memory, pc, req, n, seen, removed, buf, dupFile, wire, reply,
                   life, stored>>

CopyEnd(c) ==
    /\ At(c, "copy") /\ i[c] >= n[c]
    /\ Goto(c, "post")
    /\ UNCHANGED <<memory, locals, dupFile, wire, reply, life, stored>>

PostForgotten(c) ==     \* sem_post left out
    /\ At(c, "post")
    /\ Goto(c, IF req[c].kind = "R" THEN "close" ELSE "send")
    /\ UNCHANGED <<memory, locals, dupFile, wire, reply, life, stored>>

PostThenSend(c) ==      \* fclose left out
    /\ At(c, "post")
    /\ lock' = lock + 1
    /\ Goto(c, "send")
    /\ UNCHANGED <<db, count, locals, dupFile, wire, reply, life, stored>>

Post(c) ==
    /\ At(c, "post")
    /\ lock' = lock + 1
    /\ Goto(c, IF req[c].kind = "R" THEN "close" ELSE "send")
    /\ UNCHANGED <<db, count, locals, dupFile, wire, reply, life, stored>>

CloseTruncated(c) ==    \* dup.txt opened with "w"
    /\ At(c, "close")
    /\ dupFile' = buf[c]
    /\ buf' = [buf EXCEPT ![c] = <<>>]
    /\ Goto(c, "send")
    /\ UNCHANGED <<memory, req, n, i, seen, removed, temp, wire, reply, life, stored>>

(* fclose(f): only now do the removed records reach the file. *)
CloseFile(c) ==
    /\ At(c, "close")
    /\ dupFile' = dupFile \o buf[c]
    /\ buf' = [buf EXCEPT ![c] = <<>>]
    /\ Goto(c, "send")
    /\ UNCHANGED <<memory, req, n, i, seen, removed, temp, wire, reply, life, stored>>

(* The bubble sort of a display: a pass carries the last of the records it *)
(* goes over to their end, and the next pass stops one record earlier.     *)
OutOfOrderByExp(a, b) == a.exp < b.exp     \* names not compared

OutOfOrder(a, b) == a.exp < b.exp \/ (a.exp = b.exp /\ a.name > b.name)

SwapIfNeeded(s, j) ==
    IF OutOfOrder(s[j], s[j + 1])
    THEN [s EXCEPT ![j] = s[j + 1], ![j + 1] = s[j]]
    ELSE s

Pass(s, m) ==
    LET swapped(j) == [t \in Seq(Row) |-> SwapIfNeeded(t, j)]
        pass[j \in 0..m] == IF j = 0 THEN s ELSE swapped(j)[pass[j - 1]]
    IN pass[m]

BubbleSort(s) ==
    LET sorted[a \in 0..Len(s)] ==
            IF a = 0 THEN s ELSE Pass(sorted[a - 1], Len(s) - a)
    IN sorted[Len(s)]

Response(c) ==
    CASE req[c].kind = "A" -> [kind |-> "added"]
      [] req[c].kind = "R" -> [kind |-> "removed", n |-> removed[c]]
      [] req[c].kind = "D" -> [kind |-> "list", rows |-> BubbleSort(temp[c])]

(* Sending to a client that has left can end the child with SIGPIPE. *)
Send(c) ==
    /\ At(c, "send")
    /\ reply' = [reply EXCEPT ![c] = Response(c)]
    /\ \/ Goto(c, "recv")
       \/ ~open[c] /\ Goto(c, "exit")
    /\ UNCHANGED <<memory, locals, dupFile, wire, life, stored>>

-----------------------------------------------------------------------------
(* The parent's reaction to a third connection: it leaves the accept loop  *)
(* and kills the children one after the other, wherever they are.          *)
ThirdClient ==
    /\ serving
    /\ serving' = FALSE
    /\ UNCHANGED <<memory, pc, locals, dupFile, wire, reply, alive, stored>>

Kill(c) ==
    /\ ~serving
    /\ alive[c]
    /\ alive' = [alive EXCEPT ![c] = FALSE]
    /\ UNCHANGED <<memory, pc, locals, dupFile, wire, reply, serving, stored>>

-----------------------------------------------------------------------------
Handle(c) ==
    \/ Recv(c) \/ Disconnected(c)
    \/ Wait(c) \/ ReadCount(c) \/ Store(c)
    \/ ScanOther(c) \/ ScanFirst(c) \/ ScanDuplicate(c) \/ ScanEnd(c)
    \/ CopyNext(c) \/ CopyEnd(c)
    \/ Post(c) \/ CloseFile(c) \/ Send(c)

Next ==
    \/ \E c \in Child :
          \/ \E r \in Request : SendRequest(c, r)
          \/ HangUp(c)
          \/ Handle(c)
          \/ Kill(c)
    \/ ThirdClient

Spec == Init /\ [][Next]_vars

(* Every child is scheduled: none of its steps waits for ever once it can  *)
(* be taken.  Users need not type, and nothing is assumed of the parent.   *)
FairSpec == Spec /\ \A c \in Child : WF_vars(Handle(c))
-----------------------------------------------------------------------------
MemoryTypeOK ==
    /\ db \in [Slot -> Row]
    /\ count \in 0..MaxEmp
    /\ lock \in {0, 1}

LocalsTypeOK ==
    /\ req \in [Child -> Request \cup {NoRequest}]
    /\ n \in [Child -> 0..MaxEmp]
    /\ i \in [Child -> 0..MaxEmp]
    /\ seen \in [Child -> BOOLEAN]
    /\ removed \in [Child -> Nat]
    /\ temp \in [Child -> Seq(Row)]
    /\ buf \in [Child -> Seq(Row)]

OutsideTypeOK ==
    /\ dupFile \in Seq(Row) /\ stored \in Seq(Row)
    /\ inbox \in [Child -> Seq(Request)]
    /\ open \in [Child -> BOOLEAN]
    /\ alive \in [Child -> BOOLEAN]
    /\ serving \in BOOLEAN
    /\ sent \in 0..MaxRequests

(* Type correctness: every variable stays within what server.c declares    *)
(* for it; in particular count and the loop indices never leave the array. *)
TypeOK == MemoryTypeOK /\ pc \in [Child -> Place] /\ LocalsTypeOK /\ OutsideTypeOK

(* Two children are never both between sem_wait and sem_post, and the      *)
(* semaphore is 0 exactly while one of them is (a killed one included).    *)
MutualExclusion ==
    /\ \A c, d \in Child : pc[c] \in Critical /\ pc[d] \in Critical => c = d
    /\ lock = IF \E c \in Child : pc[c] \in Critical THEN 0 ELSE 1

(* When a removal gives the semaphore back, at most one record with the    *)
(* requested id is left, although each hit shifts the rest of the array    *)
(* under the loop's index.                                                 *)
HasId(k, id) == db[k].id = id

RemovalLeavesOne ==
    \A c \in Child : pc[c] = "post" /\ req[c].kind = "R" =>
        \A j, k \in 0..(count - 1) :
            HasId(j, req[c].id) /\ HasId(k, req[c].id) => j = k

(* The places of records in the stdio buffers of the live children.        *)
InBuffers == UNION {{c} \X DOMAIN buf[c] : c \in {d \in Child : alive[d]}}

Buffered(r) == Cardinality({p \in InBuffers : buf[p[1]][p[2]] = r})

Accounted ==
    LET everStored == Initial \o stored
    IN \A r \in ToSet(everStored \o Contents \o dupFile) :
          Occurrences(r, everStored) =
              Occurrences(r, Contents) + Occurrences(r, dupFile) + Buffered(r)

(* While the server accepts clients no record is lost or made up: each one *)
(* stored since the start is in the database, in dup.txt, or in the stdio  *)
(* buffer of a child that has still to close dup.txt.                      *)
NothingLost == serving => Accounted

(* The same of a server that is shutting down, whose children the parent   *)
(* kills: a removed record is stored in dup.txt.                           *)
RemovedRecordsStored == Accounted

(* A request taken off the socket is answered unless the server shuts      *)
(* down: no child waits for the semaphore for ever, and every loop ends.   *)
EveryRequestAnswered ==
    \A c \in Child : pc[c] = "wait" ~> pc[c] \in {"recv", "exit"} \/ ~serving

-----------------------------------------------------------------------------
(* The database as the clients may think of it: a removal under way counts *)
(* as done from the moment it has the semaphore.                           *)
AbstractRecords ==
    IF \E c \in Child : pc[c] = "scan"
    THEN Dedup(Contents, req[CHOOSE c \in Child : pc[c] = "scan"].id)
    ELSE Contents

AbstractOp(c) ==
    LET idle       == [phase |-> "idle"]
        called     == [phase |-> "called", req |-> req[c]]
        applied(r) == [phase |-> "applied", req |-> req[c], rows |-> r]
        saved      == [phase |-> "saved", req |-> req[c], removed |-> removed[c]]
    IN CASE pc[c] \in {"recv", "exit"} -> idle
         [] pc[c] = "wait" -> called
         [] pc[c] \in {"read", "write"} /\ req[c].kind = "A" -> called
         [] pc[c] \in {"post", "send"} /\ req[c].kind = "A" -> applied(<<>>)
         [] pc[c] \in {"read", "copy"} /\ req[c].kind = "D" -> applied(Contents)
         [] pc[c] \in {"post", "send"} /\ req[c].kind = "D" -> applied(temp[c])
         [] pc[c] = "scan" -> applied(buf[c] \o Duplicates(Contents, req[c].id))
         [] pc[c] \in {"post", "close"} /\ req[c].kind = "R" -> applied(buf[c])
         [] pc[c] = "send" /\ req[c].kind = "R" -> saved

Promise == INSTANCE EmployeeDB WITH
    records <- AbstractRecords,
    op <- [c \in Child |-> AbstractOp(c)],
    dup <- dupFile

(* Adds, removals and displays of all clients take effect one at a time,   *)
(* each at one moment between its receipt and its answer: a display never  *)
(* shows a half-done removal or a half-stored record, and lists the        *)
(* records in order; a client is told "Removed n duplicates" only after    *)
(* they are in dup.txt.                                                    *)
ImplementsEmployeeDB == Promise!Spec
=============================================================================
