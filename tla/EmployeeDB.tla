----------------------------- MODULE EmployeeDB -----------------------------
(***************************************************************************)
(* What the employee server of midsem/ promises its clients, whatever its  *)
(* processes do in between: the database is one sequence of records, every *)
(* request takes effect on it in one step, and dup.txt receives exactly    *)
(* the records a removal took out.                                         *)
(***************************************************************************)
EXTENDS EmployeeRecords

CONSTANTS Child,     \* the server processes, one per connected client
          Request,   \* what a client can ask
          Initial    \* the records the server starts with

VARIABLES records,   \* the database
          op,        \* what each child is doing for its client
          dup,       \* the contents of dup.txt
          reply      \* the last response each client was sent

vars == <<records, op, dup, reply>>

-----------------------------------------------------------------------------
Idle == [phase |-> "idle"]
Called(r) == [phase |-> "called", req |-> r]
Applied(r, rows) == [phase |-> "applied", req |-> r, rows |-> rows]
Saved(r, n) == [phase |-> "saved", req |-> r, removed |-> n]
NoReply == [kind |-> "none"]

Init ==
    /\ records = Initial
    /\ op = [c \in Child |-> Idle]
    /\ dup = <<>>
    /\ reply = [c \in Child |-> NoReply]

Call(c, r) ==
    /\ op[c] = Idle
    /\ op' = [op EXCEPT ![c] = Called(r)]
    /\ UNCHANGED <<records, dup, reply>>

Add(c) ==
    /\ op[c].phase = "called" /\ op[c].req.kind = "A"
    /\ records' = Append(records, op[c].req.emp)
    /\ op' = [op EXCEPT ![c] = Applied(op[c].req, <<>>)]
    /\ UNCHANGED <<dup, reply>>

RemoveDuplicates(c) ==
    /\ op[c].phase = "called" /\ op[c].req.kind = "R"
    /\ records' = Dedup(records, op[c].req.id)
    /\ op' = [op EXCEPT ![c] =
                 Applied(op[c].req, Duplicates(records, op[c].req.id))]
    /\ UNCHANGED <<dup, reply>>

TakeSnapshot(c) ==
    /\ op[c].phase = "called" /\ op[c].req.kind = "D"
    /\ op' = [op EXCEPT ![c] = Applied(op[c].req, records)]
    /\ UNCHANGED <<records, dup, reply>>

SaveDuplicates(c) ==
    /\ op[c].phase = "applied" /\ op[c].req.kind = "R"
    /\ dup' = dup \o op[c].rows
    /\ op' = [op EXCEPT ![c] = Saved(op[c].req, Len(op[c].rows))]
    /\ UNCHANGED <<records, reply>>

IsAnswer(a, o) ==
    \/ o.phase = "applied" /\ o.req.kind = "A" /\ a = [kind |-> "added"]
    \/ o.phase = "saved" /\ a = [kind |-> "removed", n |-> o.removed]
    \/ /\ o.phase = "applied" /\ o.req.kind = "D"
       /\ a.kind = "list" /\ IsSortedReport(a.rows, o.rows)

Return(c) ==
    /\ IsAnswer(reply'[c], op[c])
    /\ \A d \in Child \ {c} : reply'[d] = reply[d]
    /\ op' = [op EXCEPT ![c] = Idle]
    /\ UNCHANGED <<records, dup>>

Next ==
    \E c \in Child :
        \/ \E r \in Request : Call(c, r)
        \/ Add(c) \/ RemoveDuplicates(c) \/ TakeSnapshot(c)
        \/ SaveDuplicates(c) \/ Return(c)

Spec == Init /\ [][Next]_vars
=============================================================================
